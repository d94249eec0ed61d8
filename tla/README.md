# Multithread Mayhem in TLA+

Specifications, model-checking runs and machine-checked proofs for the
programs and kernels of this repository: user-level pthread programs (weeks 1
to 3), and three versions of the process code of xv6 (weeks 5 to 7), which the
author extended by a system-call counter, a priority scheduler and thread
information.

* `tlc -config X.cfg M` checks a run, `tlapm M.tla` a module of proofs.
* `PROJECT.json` lists components, runs, mutants (a plausible bug for each
  property, which the run must find), the source lines every definition stands
  for, the hazards of the code and the theorems.

## 1. Inventory

### 1.1 The kernel (`week5`, `week6`, `week7`)

The three directories hold the same `proc.c`, each with one addition: week 5
is stock round robin plus a count of system calls (`p->syscalls`); week 6 has `priority`,
`set_priority()`, `get_priority()` and the priority walk in `scheduler()`;
week 7 keeps that and adds `tgid`/`is_thread`.

| part | state | operations | interacts with |
| --- | --- | --- | --- |
| process life cycle, `proc.c` | `proc[NPROC]` (`state`, `chan`, `killed`, `xstate`, `pid`, `parent`, `lock`), `nextpid`, `wait_lock`, `cpus[]` | `allocproc`, `freeproc`, `kfork`, `reparent`, `kexit`, `kwait`, `sleep`, `wakeup`, `yield`, `sched`, `forkret`, `kkill`, `setkilled`, `killed` | the scheduler through `sched()`/`swtch()`, the trap code through `killed()` and `kexit(-1)` |
| week 5 scheduler | `c->proc`, the loop variable, `found` | `scheduler` | every process, through `p->lock` across `swtch()` |
| week 6 and 7 scheduler | the same and `best`, `p->priority` | `scheduler`, `set_priority`, `get_priority` | the same |
| user memory, `proc.c`, `sysproc.c`, `syscall.c` | page frames, `p->trapframe`, `p->pagetable`, `p->sz` | `proc_pagetable`, `freeproc`, `growproc`, `sys_sbrk`, `fetchaddr`, the copy in `kfork` | `kalloc.c` and `vm.c`, outside the repository |
| sleeping on the clock, `sysproc.c` | `ticks`, `tickslock` | `sys_pause`, `sys_uptime` | `clockintr()`, `sleep`, `wakeup`, `kkill` |
| system call dispatch, `syscall.c` | `p->syscalls`, trap frame | `syscall`, argument fetching | all of the above |
| thread information | `tgid`, `is_thread` | `getthreadinfo` | `allocproc` writes it once |
| user programs (`fork_chain.c`, `priority_test.c`, `threadinfo_test.c`, ...) | none of their own | sequences of system calls | the kernel |

Hard: a lock acquired by one thread and released by another across `swtch()`;
two locks (`wait_lock`, `p->lock`) handed over in `sleep()`; scans of the table
that other CPUs change meanwhile; a process that is freed by its parent while
it is still on its way off a CPU; `kill()` in any state; a walk of the
scheduler that keeps one slot's lock and spins on others; an allocation that
fails half-way; an unsigned clock that wraps around under a sleeper; slots of
the table that are used again.

Right means: the panics of `sched()` are unreachable; no process on two CPUs
and no stack freed under a CPU; no lost wakeup between exit and wait; no
orphan, every zombie reachable by a living parent; unique pids; wait never
overlooks a child; a scheduler that starves nobody (week 5) or runs the best
(weeks 6, 7); no page frame lost, user memory below the trapframe; a pause that
is neither too short nor endless; reports that are true of the process that
asks.

### 1.2 The pthread programs (`week1`, `week2`, `week3`)

| program | state | operations | hard | right means |
| --- | --- | --- | --- | --- |
| `race_amplified.c` | `counter` | unprotected load and store by two threads | the race is the point | how much can be lost |
| `bank_chaos_fixed.c` | balance under a lock | check and withdraw | check and act must be one | never overdrawn, books agree |
| `parallel_sum_fixed.c` | `total` under a lock | add a slice | shared total, odd slices | exact total |
| `parallel_stats.c` | one private result per worker | sum a slice, join | read only after the join | exact total |
| `bounded_buffer.c` | ring buffer, mutex, two conditions | put, get, STOP | stolen and spurious wakeups, termination by STOPs | FIFO, nothing lost, ends |
| `sem_buffer.c` | ring buffer, mutex, two semaphores | put, get | order of semaphore and mutex, slots claimed by nobody or twice | FIFO, ends |
| `rw_lock.c` | counters, mutex, two conditions | lock and unlock for readers and writers | who wakes whom, writer preference | exclusion, preference, ends |
| `safe_list.c` | `malloc`ed nodes, one lock | insert, contains, remove, destroy | freed and reused nodes, early returns | atomic operations, no dangling pointer, no leak |

`PROJECT.json` lists the same components with their status, and the hazards,
each at its line.

### 1.3 Reading the source

* As they stand, week 6 and week 7 do not compile: `scheduler()` uses `p` and
  `c` without declaring them, `sys_set_priority`/`sys_get_priority` are defined
  twice, the result of the `void` function `argaddr()` is compared, `struct
  thread_info` is defined after its use, and `priority_test.c` calls `sleep()`,
  which no header declares. The models take the code as plainly meant: `p` and
  `c` are the locals they are in week 5, `sleep()` in `priority_test.c` is `pause()`.
  In `syscall_spy.c` it is a call the kernel does not know, which returns -1.
* `fork_chain.c` takes the pid of the shell to be 2, as it is on a machine that
  has just booted; `UserPrograms` gives the shell that pid.
* Comments left over from an earlier, deliberately broken version of
  `bank_chaos_fixed.c` ("Looks safe. Isn't.") stand above code that has been
  fixed; the model follows the code.
* `trap.c`, `spinlock.c`, `vm.c`, `swtch.S` and the pthread library are not in
  the repository. They are modelled from how the code here uses them: a
  spinlock is an owner, `swtch()` changes the thread a CPU executes, a page
  allocation may fail, a trap ends in `yield()` or in `kexit(-1)`; a mutex is an
  owner, a condition a set of waiting threads with spurious wakeups.

## 2. Modules

| module | models | kind |
| --- | --- | --- |
| `Proc` | week 7 process life cycle on several CPUs | detailed |
| `ProcTable` | what a program may assume of fork, wait and exit | abstract |
| `ProcRefinement` | the mapping of `Proc` to `ProcTable` | refinement |
| `MCProc` | instances of the two for TLC | MC |
| `ProcProofs` | invariants of `Proc`; `Proc` implements `ProcTable`, and what that gives | proofs |
| `RRScheduler`, `RRProofs` | week 5 `scheduler()` | detailed, proofs |
| `PrioScheduler`, `PrioProofs` | week 6 and 7 `scheduler()`, `set_priority()` | detailed, proofs |
| `PriorityTest` | `priority_test.c` on the scheduler of `PrioScheduler`, which it extends | composition |
| `Pause` | `sys_pause()`, the clock, `sleep()`, `wakeup()` and `kkill()` as far as it meets them | detailed |
| `UserMem` | page frames, page tables and `p->sz` in fork, exit, `sbrk`; `fetchaddr()` | detailed |
| `UserPrograms` | the other user programs, the shell that starts them, `syscall()` with its counter, thread information | detailed |
| `MCSyscalls`, `SyscallProofs` | the three modules above in one run: a behaviour is a run of one of them | MC, proofs |
| `Channel` | a bounded FIFO channel | abstract |
| `CondBuffer`, `SemBuffer` | `bounded_buffer.c`, `sem_buffer.c`; both implement `Channel` | detailed |
| `MCBuffers`, `BufferProofs` | the two buffers in one run, each mapped to `Channel` | MC, refinement, proofs |
| `RWLock`, `RWProofs` | `rw_lock.c` | detailed, proofs |
| `ListSpec` | a list each of whose operations takes effect at one moment between call and return, on the value passed | abstract |
| `SafeList` | `safe_list.c` at pointer level | detailed |
| `RaceCounter` | `race_amplified.c` | detailed |
| `Bank`, `ParallelSum`, `ParallelStats` | the programs of these names | detailed |
| `MCPrograms`, `ProgramProofs` | the list and the four small programs in one run: a behaviour is a run of one of them while the others' variables keep their initial values; the list is mapped to `ListSpec` | MC, refinement, proofs |
| `Sums` | sums over finite sets and along sequences | lemmas |

Definitions of the form `Action_SomethingWrong` stand in front of an action
and are its mutated form, used by no behaviour of the model.

### 2.1 From the code to the models

**Granularity.** A step is the code between two points at which another thread
can observe the thread. A block that takes one lock, and releases it without
taking another, is one step guarded by the lock being free. A lock that stays
held from one step to the next is state.

**`Proc`.** `state`, `chan`, `killed`, `pid`, `parent`, `xstate` are the fields
of `struct proc`, `cproc[c]` is `c->proc`; `plock` and `wait_lock` name the CPU
that holds the lock. `mode[c]` is the thread CPU `c` executes: the scheduler
looking for work, a process it has just switched to, a process, or the way back
from a process. `pc[p]` is the control point of the kernel thread of `p`, with
the locals of the call in progress (`idx` for the loop over the table, `np`,
`havekids`, `arg`; `widx` for the loop of `wakeup()` inside that of
`reparent()`). The scans of `allocproc()`, `kwait()`, `reparent()`, `wakeup()`
and `kkill()` are steps slot by slot, so that everything another CPU may do in
between can happen. Failing allocations and a failing `copyout()` are choices.
`Dispatch` runs any RUNNABLE process: which one is the matter of the scheduler
modules. The trap code outside the repository appears as `KilledTrap`
(`kexit(-1)` once `killed()` is seen) and as the timer's `yield()`.

**`RRScheduler`, `PrioScheduler`.** Here the walk over the table is explicit,
slot by slot (`at[c]`), and the life of a process is reduced to what changes
its state or priority. `passed`, and in `PrioScheduler` `steady`, are history
variables of the properties.

**`PriorityTest`.** The parent's program is a list of calls; each call is the
actions of `PrioScheduler` it is made of (`Alloc`, `Ready`, `set_priority`,
`Leave`, `Reap`), guarded by the parent running, and counts as entered once it
is in the kernel, where the timer does not preempt it while it spins for a
lock. The children do nothing: they spin in `while(1) getpid();`. A `fork()`
that fails hands -1 to `set_priority()` and `kill()`, as in the test, which
does not look at the result.

**`Pause`.** `tickslock` is held from `acquire()` to `sleep()` over several
steps, and `Clock` holds it during `clockintr()`. `wakeup(&ticks)` visits one
slot per step (`todo`). Code under `p->lock` is one step. `elapsed` and
`marked` are history: the ticks since `ticks0` was read, counted without
wrapping, and who was killed before the last tick.

**`UserMem`.** Frames are counted: `Held(q)` is what slot `q` has, `free` what
is left. The loops of `uvmcopy()` and `uvmalloc()` are one step per page, so
that several processes compete for the last frames and any allocation may be the one that
fails. A page table is its root, a node for the kernel's two pages
and a node for the user's, which is allocated with the first page and stays.
Addresses wrap at `AddrMod`, as `uint64` does.

**`UserPrograms`.** A program is the list of its system calls; a system call is
one step, and a `printf()` is one `write()`. The shell forks a child that
becomes one of the programs, waits, and starts the next, on a table whose slots
are soon used for the second time. Slots and memory may run out at any fork.

**The pthread programs.** Every thread has a control point and its locals. A
condition variable is the set of threads at a waiting control point; a signal
moves one of them to the control point that takes the mutex again, a broadcast
all; a spurious wakeup does it without a signal. `main()` is one of the threads:
it creates the others, joins them, and in `bounded_buffer.c` puts the STOPs.
In `sem_buffer.c` the array of ids that it shares with them is state.

**`SafeList`.** Each node visited under the lock is a step. `listBar`, the values along the
chain, and `callBar`, the call of each thread that has not yet taken effect, map it to `ListSpec`: an insert
takes effect when the node is published, a removal when the node is unlinked, a walk that changes nothing at its
end, `list_destroy()` when it has the lock. `list_destroy()` reads `next` and frees the node in one step,
as `main()` is alone by then.

## 3. Runs

| run | instance | states | question |
| --- | --- | --- | --- |
| `proc_safety` | 3 slots, 2 CPUs, pids up to 4, kill of 1 and 2 | 2,285,952 | do all interleavings of fork, wait, exit, kill and the timer keep the invariants of `Proc`, implement `ProcTable`, and never deadlock? |
| `proc_kill_zero` | the same with `kill(0)` | violation | is a process born with a clear `killed` flag whatever pid is passed to `kill()`? No |
| `rr_scheduler` | 3 slots, 2 CPUs | 243,006 | is week 5 a round robin that starves nobody? |
| `prio_scheduler` | 3 slots, 2 CPUs, `set_priority` to 5 and 31, default 31 | 104,532 | does the week 6 walk run the best process although all changes under it, and does a top process run? |
| `priority_test` | parent in slot 0, 3 slots, 2 CPUs, a pause of 2 ticks | 17,802 | does `priority_test.c` come to its end although its children never give up a CPU? |
| `priority_test_one_cpu` | the same on 1 CPU, parent in any slot | violation | does it also with `CPUS=1`? No |
| `buffers` | condition variables: 2 producers of 3 items, 2 consumers, one spurious wakeup; semaphores: 3 producers of 2 items, 3 consumers; capacity 2 | 666,418 | FIFO, no lost wakeup, no slot lost or claimed twice, the right totals, and an end? |
| `rw_lock` | 4 readers and 2 writers, two rounds each, one spurious wakeup | 1,159,769 | exclusion, writer preference, no lost update, no lost wakeup, and an end? |
| `programs` | list: 2 workers with 2 operations, 2 values, 5 nodes; 2 racing threads with 6 iterations; 3 customers with 3 attempts and six opening balances; 3 threads on six array sizes | 871,605 | does the list at pointer level behave like atomic operations on what their callers pass, without dangling pointer or leak, and do `main()`'s two lookups answer right? What can a race lose, do the books agree, are the totals exact? |
| `system_calls` | pause: 2 processes, a clock of 4 values, counts up to 2; memory: 3 processes, 14 frames, `sbrk` by 0, 4 and 6; programs: 5 slots, 3 programs one after the other | 418,223 | is a pause long enough and not longer, is no frame lost whatever fails, is `fetchaddr()` exact, are the reports true? Does every pause end, if whoever is woken is run? |
| `race_half_lost` | 2 threads, 6 iterations | violation | does the race lose at most one increment per iteration, as the comments say? No |

`CHECK_DEADLOCK FALSE` appears where the program ends (all pthread programs);
there `Termination` says that it ends where it should, and in `system_calls`,
where all processes may have been killed. The other runs of the kernel check
deadlock, `proc_safety` in particular. Type invariants are stated as `TypeOK` and
are a matter of the proofs: where a theorem `TypeCorrect` does not state one, the
inductive invariant of its program contains the types. No run spends time on them.

### 3.1 What the properties say

*Kernel.* `SchedChecks`: the panics of `sched()` cannot be hit. `StackInUse`: no
process on two CPUs, no slot freed while a CPU is on its stack. `NoLostWakeup`:
no parent sleeps in `wait()` with an exited child. `NoOrphans`, `Rooted`: every
process has a living parent, and the parents lead to init. `ScanSound`: `wait()`
overlooks no child. `PidsUnique`. `ReapedByParent`: a zombie leaves only through
its parent's `wait()`. `BornUnkilled`: a slot is handed out with a clear
`killed` flag, provided nobody calls `kill(0)`. `TableSpec`: all of it
implements `ProcTable`.

*Schedulers.* `RoundRobin`: a waiting process is passed by another at most once
per CPU. `NoStarvation`: every RUNNABLE process runs, also one that becomes
RUNNABLE behind a walk on its way to `wfi`. `BestSoFar`: the walk's choice is
at least as good as any process that did not change during the walk.
`LockDiscipline`: which locks may be held, by whom (checked of weeks 6 and 7, proved of week 5 too). `TopRuns`: a process
preferable to all others does not stay so without being run. `TestEnds`:
`priority_test.c` reaches its `exit()` with both children reaped.

*System calls.* `PauseOnTime`: a pause is not cut short except by `kill()`, also
when `ticks` wraps around meanwhile. `NoOversleep`: when the clock has done its
work, nobody is asleep whose pause is over, or who was killed before the tick, even if
the `kill()` fell between the test of `p->killed` and the `sleep()`.
`PauseEnds`: if every process that is woken in its pause is run in the end, every
pause ends (3.3 says who gives this). `PagesAccounted`: every frame is free or held by exactly one slot,
a free slot holds none, and a slot under construction belongs to a `fork()`
under way. `FetchSound`: memory ends below the trapframe and `fetchaddr()` lets
through exactly the words in it, compared with arithmetic that does not wrap.
`ReportsTrue`: the count of `getsyscount()` is the number of calls this process made,
`getthreadinfo()` shows `tgid = pid`, `wait()` returns the child that was forked, the chain
prints the pid of the live parent, and a prompt means that all has been reaped.

*Buffers.* `ChannelSpec` is refinement to `Channel`. The condition-variable
version's `NoLostWakeup` counts: while a consumer waits there are at least as
many awake consumers, or signals about to be sent, as items. `SlotsAccounted`
does the same for the semaphores. `Passes` is the check `main()` prints, and for
`sem_buffer.c`, which prints none, that every item was put and taken once.
`Termination`: both `main()`s return.

*Readers and writers.* `Exclusion`, `NoLostUpdate`, `NoLostWakeup` (somebody is
left to wake those who wait), and `WriterPreference`, an action property: from
the announcement of a writer to the end of its write no reader enters.

*List.* `ListBehaves` is refinement to `ListSpec`: a call takes effect exactly once
before it returns, with the value its caller passed: an insert adds that value, a removal
takes out the first node with it, and a lookup tells whether it is there at that moment.
`ChecksPass` is what `main()` prints: 42, which it has just inserted, is found, whatever the
workers left behind, and 150, which nobody inserted, is not. `NoDangling`: no thread inside an
operation, and no link of the list, points to a freed node, also while `main()` frees the
list. `NoLeak`: what is allocated is in the list or in the hands of one thread.

*Small programs.* `AtLeastTwo`: a racing counter ends at 2 or more.
`BooksAgree`: what customers took out is what the balance lacks, and it is never
negative. `SumsExact`: both parallel sums.

### 3.2 Bounds and why they are enough

* Three slots are init, a parent and a child: enough for adoption of a live and
  of an exited child, for a full table, for reuse of a slot under a new pid,
  and for a grandchild. Two CPUs make every pair of concurrent kernel threads;
  the third process waits. `MaxPid` bounds the forks of a behaviour
  (`proc_safety`: pids up to 4; then fork is not called any more); the
  proofs hold for every value of it.
* `KillPids` contains init, a child, and (in `proc_kill_zero`) the pid of free
  slots. Killing init is a panic in the code; the model keeps the panicking
  CPU in a state of its own.
* `Statuses` = {0}: no property depends on the status.
* Capacity 2 with as many threads on each side, or more, reaches the full, the
  empty and the wrapped-around buffer, with waiters on either side.
  `MaxSpurious` bounds wakeups without a signal to one: each gives one more
  test of the condition, and two are two such tests.
* Pids up to 4 are three forks besides init: a slot is reused, and init can
  adopt a child in a slot that its scan has passed.
* `MaxPassed` stops the history variable `passed` of the schedulers above the
  values their properties distinguish.
* `Nodes` has a node for each insertion the run can make; freed nodes are
  handed out again.
* The balances and sizes of `programs` include 0, less than one withdrawal,
  fewer elements than threads, multiples and non-multiples.
* Four readers and two writers: the second writer waits while the first one
  writes and readers queue behind both, others leave.
* `TICKS` = 2 of the 100 of `sleep(100)`: the parent sleeps, is woken too early,
  and sleeps again. `ParentSlots` is {0} on two CPUs, where the shell and its
  first program have lower slots than their children; on one CPU all slots are tried.
* `Modulus` = 4 is the width of `ticks` and `MaxCount` = 2: a pause that begins
  at 2 or 3 crosses the wrap. A guard of `Tick` keeps a process from being held
  off a CPU for a whole turn of the clock, which is 2^32 ticks in the code.
* 14 `NFRAMES`: less than three full processes need, so that every allocation
  can be the one that fails, and enough for two to be complete. With
  `PGSIZE` = 4, `TRAPFRAME` = 8 and `Counts` {0, 4, 6}, `p->sz` can be 0, in the
  middle and at the end of a page, and at the trapframe, and `AddrMod` = 32 lets
  both `sz - n` and the end of a fetched word wrap.
* `SLOTS` = 5: init, the shell, and three for programs: `fork_chain 3` fits, and
  `fork_chain 5` runs out of slots. `Lengths` has 0 and 1 (no fork at all).
  `MaxLines` = 3 programs use each slot again.
* `CPUSymmetry` in `proc_safety` is sound: no action or property names a CPU,
  and the run checks no liveness.

### 3.3 Fairness

*pthread programs*: weak fairness of every thread. The threads run on a
preemptive system, so each that stays able to go on does. Weak fairness is
enough although mutexes are contended, because the programs are finite: others
can take the mutex away only finitely often. No fairness is assumed of
spurious wakeups.

*Schedulers*: weak fairness of a running process giving up the CPU (the timer
interrupts it; what it does else is up to it) and of a resumed process; strong
fairness of the walk. The strong fairness is an assumption about
the spinlock, stated as one: `acquire()` spins with an atomic swap, and a lock
that is free again and again is taken in the end. xv6 itself gives no stronger
guarantee, and with an unfair memory system a CPU could spin for ever. Nothing
is assumed about wakeups, forks or `set_priority()`.

*priority_test*: the interrupts keep coming (weak fairness of the timer, of the
clock, and of `swtch()`); a process that runs again and again gets further
(strong fairness of the parent and of an exiting child); and time slices are
long: a slot that the walk of another CPU could pass in one slice after the
other, it passes in one of them. Without the last, a child could be preempted
and taken again for ever just when another CPU's walk spins on its slot. On two CPUs
one child can occupy one of them only; with the parent in a slot above both
children, two spinning children keep it out on two CPUs as well, as on one.

*pause*: strong fairness of the clock, which takes `tickslock` in turn with the
processes and is not kept from it for ever, and weak fairness of the process that holds
`tickslock`: `acquire()` turns interrupts off, so it is not preempted. It is not assumed that
a process that has been woken is run. That is up to the scheduler, and only week 5's round robin
gives it to everybody (`NoStarvation`); weeks 6 and 7 give it to a process preferable to all others
(`TopRuns`), and the run `priority_test_one_cpu` shows a pause that never ends behind a
spinning process. It is therefore the condition of the property: `IsRun(p)`, that `p` is run
and gets the lock if it is again and again ready to, is the premise of `PauseEnds`. The
premise asks it of all processes in a pause, because the bound on `Tick` (3.2) stops the clock while
one of them is not run.

The process life cycle, user memory and the user programs are checked for
safety, and the first of them for deadlock.

## 4. Proofs

All theorems hold for every value of the constants that satisfies the named
assumption of the module; TLC evaluates the assumptions in the runs.

| assumption | what it asks |
| --- | --- |
| `ProcAssumption` | at least one slot; `None` is neither slot nor CPU |
| `SchedAssumption`, `PrioAssumption` | finitely many CPUs besides |
| `RWAssumption` | finitely many readers and writers, at least one round each |
| `BuffersAssumption` | a slot in the buffer, a consumer, and items few enough (1000 and 100 per producer, as in the programs) that no two items are equal; as many semaphore consumers as producers |
| `ProgramsAssumption` of `MCPrograms`, `RaceAssumption` | finitely many customers, workers and nodes, a positive amount, at least one thread per array |
| `PauseAssumption` | a pause is shorter than one turn of the clock |
| `CallsAssumption` | the frames `userinit()` needs; the address space is larger than what lies below the trapframe by more than a word and any count; init, the shell and a slot for its programs |

Each theorem module proves `Init => IInv`, `IInv /\ [Next]_vars => IInv'`, and what
`IInv` implies; the step is one lemma per conjunct, with one case per action.

**`ProcProofs`.** None of the properties is inductive alone. `IInv` adds:

* `LoopInv`: where the loops over the table stand; `CpuInv`: which process a
  CPU executes in which mode and state; `PLockInv` and `WaitLockInv`: who holds
  the locks at which control point. With them, `SchedChecks` and `StackInUse`
  follow.
* `ForkInv`: a slot under construction belongs to exactly one `fork()`;
  `PidsUnique` is inductive with it.
* `ParentInv`, `AliveInv`, `ExitInv`: parents exist and are alive; an exiting
  process has no child in the slots `reparent()` has passed. This gives
  `NoOrphans`, and that nobody is left behind by `kexit()`.
* `ChanInv`, `WakeInv`, `ZombieInv`: a process sleeps on itself only inside
  `wait()`; between an exit and its wakeup, the exiting process still holds
  `wait_lock` and is on its way; this gives `NoLostWakeup`.

`ReapedSafe` and `BornSafe` are action properties from `IInv`; `BornSafe` needs
`BornInv` (a free slot has a clear `killed` flag) and `0 \notin KillPids`,
which the run `proc_kill_zero` shows to be necessary.

`Refinement` is `Spec => TableSpec`. A slot in `allocproc()` or
`fork()` counts as free; an exiting process loses its children when it takes
`wait_lock`, although `reparent()` visits them one after the other: the mapped
parent of its remaining children is init already. Four actions of `Proc` are
the four of `ProcTable`; each of the others is shown to leave the mapped
variables alone.

`AllRooted` is proved of `ProcTable` and carried over by the refinement. That
the parents lead to init is said without a path: no nonempty set of processes
without init is closed under taking the parent. In this form each of the four
actions preserves it by a few lines about sets.

**`RRProofs`.** `RoundRobin` counts over CPUs. `Between(c, q, p)` says that CPU
`c` has run `q` and has not come past `p` since; the invariant `PassInv` is
that `passed[p][q]` is at most the number of CPUs with `Between(c, q, p)`. To
run `q`, a CPU must have come past `p`, or it would have run `p`; so the count
grows only when the set does, and the set has at most as many elements as there
are CPUs. The lemmas about finite cardinality are those of the library.

**`PrioProofs`.** `BestSoFar` needs that a walk counts only on processes that
are still RUNNABLE (`SteadyInv`), that the best is behind the walk (`MetInv`),
and `LockDiscipline`: the best cannot change because its lock is held.

**`RWProofs`.** Each counter is the size of a set of threads: `Reading`,
`Writing`, `Announced`. `Effect` says that a step of any thread leaves the sets alone or makes one
of five changes to them, and `StepEffect` shows that every action is one; what
follows speaks of the sets alone. `Busy` and `Taken` then say that a set is
empty or not, which gives `Exclusion`; `NoLostWakeup` is inductive with it: when the
last reader, or the last announced writer, leaves its set, it moves the waiting threads
in the same step. `PreferenceSafe` follows from what `Busy` means. For
`NoLostUpdate`, `UpdateInv` says that `shared_data` is ten times the number of writes
stored, the set `Written` of pairs of writer and round, and that who is about
to store has loaded the value that is still there, because it alone writes.

**`Sums`.** `SumOf` is the community modules' sum over a finite set, which is a
recursive function on the subsets of that set. That this recursion has a solution, and that the sum
grows by `f[x]` when `x` is added, whatever order `CHOOSE` takes, are proved by taking a
smallest subset for which the claim fails; `SeqSum` carries this over to sequences.
No induction theorem with an operator for its parameter is needed. The three modules below rest on it.

**`BufferProofs`.** `Ring` relates the array to the sequences of what was put and
taken: from the reading index on, the slots hold, around the end of the array, the
items in between. From it each step of either program is a put, a get or a stutter of
`Channel` (`BuffersAreChannels`). In `bounded_buffer.c`, `WakeupInv` is
`NoLostWakeup` in terms of sets: while a consumer waits, at least `count` others are awake or
about to signal; a step that moves one thread out of such a set moves another one into it, or
lowers the number that is needed (`Exchange`). `SlotInv` is the bookkeeping of `sem_buffer.c`: the
two semaphores and the threads between `sem_wait` and `sem_post` add up to the
capacity (`SlotsKept`), and items that are in the buffer are counted by the semaphore, or by a
thread that has put but not posted, or has waited but not taken. `ProgramsPass` is the check that `main()` prints. For
this, `TakenInv` says that the consumers' totals are the sums along what was received, and `SentInv`
that what was sent are the producers' items, each once, and then the STOPs. When all have been
joined, as many STOPs were taken as were put, so the last one was, and by FIFO everything before it.

**`SyscallProofs`.** *pause.* `TimeInv`: the difference computed by `sys_pause()`, which
wraps, is the number of ticks passed; the bound on `Tick` keeps it from wrapping twice.
`SleepInv`: a process goes to sleep with time left and, if killed
at all, killed after the last tick; one that is overdue is asleep only while the
clock still has its slot to visit. `LockInv` says who holds `tickslock`, and
makes the test and the sleep one step with respect to the clock.
*Memory.* `FrameInv`: the frames that are free and those the slots hold add up to all there are
(`FramesKept`). A step that takes or frees a frame changes both numbers, but only if `freeproc()` finds every page; it looks
below `p->sz` alone, so `PageInv` says that no page lies above it, or, in the middle of `uvmalloc()`
or `uvmcopy()`, above the size that is being built, to which the error path unmaps. `SlotInv` gives each `fork()`
under way a slot of its own. `FetchSafe`: `p->sz`, and the size a `growproc()` under way will set,
stay below the trapframe whatever the sums wrap to; for such sizes
the two tests of `fetchaddr()` are the one intended.
*Programs.* That a count, a tgid or a flag is its process's own needs only that every path through
`fork` sets it. The rest of `ReportsTrue` is about families, and `UserInv` carries what it takes. `Plan`
says of the calls a process has left that at most one is a `fork`, that a `wait` comes after it and that
an `exit` ends them; it is shown for the text of each program, `Chain(n, d)` of any length
included. `FamilyInv` says that each process of a program has a living parent with a smaller pid, which
has yet to wait for it. So a link of `fork_chain` that reports its parent has one; and when the
shell is about to start the next program, none is left of the last (`Prompt`): of the processes left, the one with
the smallest pid would have the shell for its parent, which has nobody to wait for.

**`ProgramProofs`.** *Race.* The counter ends at 2 or more: a thread in its second
iteration loads a value of at least 1, because it stored at least 1 before and
nobody stores less, so what it stores last is at least 2; and so is what
anybody stores after all have come that far. *Bank.* `BankInv`: who is to withdraw still has the
lock under which it saw enough; balance and withdrawals add up to the opening balance, and who
was turned away found less than an amount, of which there is never more again. *Sums.* The slices cut the array
without gap or overlap for every size and number of threads (`SlicesCover`), also with fewer
elements than threads; the shared total is the sum of what all threads have passed, and the
private results are added only after the join.

*List.* `ListInv` says that there is a chain of distinct allocated nodes, from
`head`, or from `curr[main]` while `main()` frees them, to the end; every other allocated node is in the
hands of exactly one thread, which is about to link or to free it; and a thread that walks stands at some node of
the chain and has not met its value before it. `Chain`
exists under a quantifier, and the lemma `ChainReachable` shows that the nodes `SafeList`
reaches by following `next` are those of the chain. Each operation then is a lemma that gives the new
chain: with a node in front, with one cut out, or without its first.
`NeverDangling` and `NothingLeaks` follow. For `ListIsAtomic`, the mapped `callBar` holds what each
thread has asked for and has not yet got: every step either leaves it and the list of values
alone, is a call, or is the one step in which the pending call takes effect (`Effect`, `EffectIs`). For
an insert this needs `OwnInv`: the node a thread is about to link holds the value it was called with. That a
lookup that found nothing is right follows from `ListInv`: the value is in no node the walk has passed.
`ChecksRight` needs `MainInv`: once `main()` has joined the workers nobody else changes the list, which has
42 since `main()`'s insert took effect; and no thread ever inserts 150.

**Only model-checked**: liveness (`NoStarvation`, `TopRuns`, `TestEnds`, `PauseEnds`,
`Termination`), as fairness and `ENABLED` are beyond the prover.

## 5. Where code and words differ

* `proc_kill_zero` (`week7/proc.c:620`): `kill(0)` finds a free slot, because a
  free slot has pid 0 and the state is not looked at; the flag it sets there
  outlives `allocproc()`, and the next process in the slot is killed on its
  first return to user mode. "Kill the process with the given pid" says line 610.
* `priority_test_one_cpu` (`week6/proc.c:441`): with one CPU, which the Makefile
  allows, `priority_test.c` does not end: a spinning child with a better priority,
  or with the same one in a lower slot, is chosen in every walk, and the
  parent, which was to kill it, never runs again.
* `race_half_lost` (`week1/race_amplified.c:28`): the comment says one increment
  is lost in every iteration; a sleeping thread can overwrite any number.

Two more that no run is needed for: `week4/codebase_detective.md` says that the
memory of a zombie is freed at exit (it is freed by `freeproc()` when the
parent waits), and the comments of `bank_chaos_fixed.c` mentioned above.

A race the model has and no property excludes: `kwait()` tests `killed()`,
releases `p->lock` and takes it again in `sleep()`. A `kill()` in between finds
the process not yet asleep, and the victim sleeps on until a child exits.

## 6. Not modelled, and why

* `fetchstr()`, `argraw()`, `argint()`, `argaddr()`, `argstr()` copy an argument
  out of the trap frame or of user memory, and the dispatch table maps numbers
  to handlers: no state of their own. The models call the handler directly.
* `kexec()`, `vm.c`, `kalloc.c`, `trap.c`, the file system: not in the
  repository. What the code here relies on is in the models as external
  definitions: a failing `uvmcopy()` unmaps what it has copied, and so on.
* `p->ofile` and `p->cwd` in fork and exit: only reference counts kept by
  `file.c` and `fs.c`, which are not in the repository.
* `proc_mapstacks()`, `either_copyin()`, `either_copyout()`: one call of a function outside the
  repository each; `procdump()` prints; `cpuid()`, `mycpu()`, `myproc()` are `cproc`.
* `malloc()` returning NULL in `list_insert()`, which writes through the result
  unseen (`safe_list.c:23`): what follows is undefined. `SafeList` has a node for every insertion.
* `hello_xv6.c` prints a line. `get_priority()` and `uptime()` only read.
* Makefiles, headers, generated stubs, reports: no behaviour of their own.

## 7. What could come next

* A refinement of the memory calls to the atomic `fork()` of `ProcTable`.
* `procdump()` and open files, should their other halves join the repository.
