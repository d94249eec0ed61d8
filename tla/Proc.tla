-------------------------------- MODULE Proc --------------------------------
(***************************************************************************)
(* The process life cycle of the week 7 kernel (week7/proc.c): fork, exit, *)
(* wait, kill, sleep and wakeup, on several CPUs that share the process    *)
(* table proc[NPROC].                                                      *)
(*                                                                         *)
(* Granularity.  A step of a kernel thread is the code between two points  *)
(* at which another CPU can observe it.  A block that acquires one p->lock *)
(* and releases it again without acquiring a further lock is one step,     *)
(* guarded by the lock being free.  Locks that stay held from one step to  *)
(* the next are state: wait_lock across the scans of kwait and kexit, and  *)
(* p->lock across swtch(), where the thread that acquires it is not the    *)
(* one that releases it.                                                   *)
(*                                                                         *)
(* The choice scheduler() makes among the RUNNABLE processes is left open  *)
(* here (Dispatch takes any of them); its scan is the subject of a module  *)
(* of its own.                                                             *)
(***************************************************************************)
EXTENDS Integers

CONSTANTS
  NPROC,     (* number of slots of the process table                       *)
  CPUs,      (* the set of CPUs                                            *)
  MaxPid,    (* bound: no process forks once nextpid exceeds it            *)
  KillPids,  (* the arguments processes pass to kill()                     *)
  Statuses,  (* the arguments processes pass to exit()                     *)
  None       (* the null pointer, and the owner of a free lock             *)

Slots == 0 .. NPROC - 1

ASSUME ProcAssumption ==
  /\ NPROC \in Nat \ {0}
  /\ MaxPid \in Nat
  /\ KillPids \subseteq Nat
  /\ Statuses \subseteq Int
  /\ None \notin Slots \cup CPUs

(* userinit() takes the first slot of an empty table for the init process. *)
initproc == 0

VARIABLES
  \* struct proc, one function per field
  state, chan, killed, pid, parent, xstate,
  nextpid,
  \* owners of the spinlocks that outlive a step
  plock, wait_lock,
  \* struct cpu: cproc is c->proc, mode tells which thread the CPU executes
  cproc, mode,
  \* kernel threads: control point and the locals of the call in progress
  pc, idx, widx, havekids, np, arg

tableVars  == <<state, chan, killed, pid, parent, xstate, nextpid>>
lockVars   == <<plock, wait_lock>>
cpuVars    == <<cproc, mode>>
localVars  == <<idx, widx, havekids, np, arg>>
vars == <<tableVars, lockVars, cpuVars, pc, localVars>>

(***************************************************************************)
(* The scheduler thread of a CPU is in "sched" while it looks for work and *)
(* in "back" when a process has just swtch()ed to it; a process thread is  *)
(* in "resume" when it has just been swtch()ed to and in "run" otherwise.  *)
(***************************************************************************)
Modes == {"sched", "resume", "run", "back"}

ProcStates == {"UNUSED", "USED", "SLEEPING", "RUNNABLE", "RUNNING", "ZOMBIE"}

PCs == {"unused", "forkret", "user", "panic",
        "fork_alloc", "fork_parent", "fork_run",
        "wait", "wait_scan", "wait_sleep", "asleep",
        "exit", "reparent", "reparent_wakeup", "exit_wakeup", "exit_zombie",
        "zombie", "kill"}

(* The exit status usertrap() passes to kexit() for a killed process. *)
KilledStatus == -1

TypeOK ==
  /\ state \in [Slots -> ProcStates]
  /\ chan \in [Slots -> Slots \cup {None}]
  /\ killed \in [Slots -> BOOLEAN]
  /\ pid \in [Slots -> Nat]
  /\ parent \in [Slots -> Slots \cup {None}]
  /\ xstate \in [Slots -> Int]
  /\ nextpid \in Nat \ {0}
  /\ plock \in [Slots -> CPUs \cup {None}]
  /\ wait_lock \in CPUs \cup {None}
  /\ cproc \in [CPUs -> Slots \cup {None}]
  /\ mode \in [CPUs -> Modes]
  /\ pc \in [Slots -> PCs]
  /\ idx \in [Slots -> 0 .. NPROC]
  /\ widx \in [Slots -> 0 .. NPROC]
  /\ havekids \in [Slots -> BOOLEAN]
  /\ np \in [Slots -> Slots]
  /\ arg \in [Slots -> Int]

(* procinit() followed by userinit(): only init exists, and it has yet to  *)
(* run for the first time.                                                 *)
Init ==
  /\ state = [i \in Slots |-> IF i = initproc THEN "RUNNABLE" ELSE "UNUSED"]
  /\ chan = [i \in Slots |-> None]
  /\ killed = [i \in Slots |-> FALSE]
  /\ pid = [i \in Slots |-> IF i = initproc THEN 1 ELSE 0]
  /\ parent = [i \in Slots |-> None]
  /\ xstate = [i \in Slots |-> 0]
  /\ nextpid = 2
  /\ plock = [i \in Slots |-> None]
  /\ wait_lock = None
  /\ cproc = [c \in CPUs |-> None]
  /\ mode = [c \in CPUs |-> "sched"]
  /\ pc = [i \in Slots |-> IF i = initproc THEN "forkret" ELSE "unused"]
  /\ idx = [i \in Slots |-> 0]
  /\ widx = [i \in Slots |-> 0]
  /\ havekids = [i \in Slots |-> FALSE]
  /\ np = [i \in Slots |-> 0]
  /\ arg = [i \in Slots |-> 0]

-----------------------------------------------------------------------------
(* Kernel threads: p = myproc() on CPU c, at control point l.              *)

At(c, p, l) == mode[c] = "run" /\ cproc[c] = p /\ pc[p] = l

Goto(p, l) == pc' = [pc EXCEPT ![p] = l]

(* A system call returns to user space: its locals are gone. *)
Return(p) ==
  /\ Goto(p, "user")
  /\ idx' = [idx EXCEPT ![p] = 0]
  /\ havekids' = [havekids EXCEPT ![p] = FALSE]
  /\ np' = [np EXCEPT ![p] = 0]
  /\ arg' = [arg EXCEPT ![p] = 0]
  /\ UNCHANGED widx

(* Mutant: the killed flag outlives the process. *)
freeproc_KeepsKilled(i) ==
  /\ state' = [state EXCEPT ![i] = "UNUSED"]
  /\ chan' = [chan EXCEPT ![i] = None]
  /\ pid' = [pid EXCEPT ![i] = 0]
  /\ parent' = [parent EXCEPT ![i] = None]
  /\ xstate' = [xstate EXCEPT ![i] = 0]
  /\ UNCHANGED killed

(* freeproc(i), with every field it resets. *)
freeproc(i) ==
  /\ state' = [state EXCEPT ![i] = "UNUSED"]
  /\ chan' = [chan EXCEPT ![i] = None]
  /\ killed' = [killed EXCEPT ![i] = FALSE]
  /\ pid' = [pid EXCEPT ![i] = 0]
  /\ parent' = [parent EXCEPT ![i] = None]
  /\ xstate' = [xstate EXCEPT ![i] = 0]

(* sched(): p, whose p->lock this step acquires, gives CPU c back to the   *)
(* scheduler thread with the lock held.                                    *)
sched(c, p, newstate) ==
  /\ plock[p] = None
  /\ plock' = [plock EXCEPT ![p] = c]
  /\ state' = [state EXCEPT ![p] = newstate]
  /\ mode' = [mode EXCEPT ![c] = "back"]
  /\ UNCHANGED cproc

-----------------------------------------------------------------------------
(* scheduler(), swtch() and what a process does when it is resumed.        *)

(* scheduler() found the RUNNABLE process p and swtch()es to it.           *)
Dispatch(c, p) ==
  /\ mode[c] = "sched"
  /\ plock[p] = None
  /\ state[p] = "RUNNABLE"
  /\ state' = [state EXCEPT ![p] = "RUNNING"]
  /\ plock' = [plock EXCEPT ![p] = c]
  /\ cproc' = [cproc EXCEPT ![c] = p]
  /\ mode' = [mode EXCEPT ![c] = "resume"]
  /\ UNCHANGED <<chan, killed, pid, parent, xstate, nextpid, wait_lock, pc,
                 localVars>>

(* swtch() returned into the scheduler: it forgets the process and         *)
(* releases the lock the process acquired.                                 *)
SchedBack(c) ==
  /\ mode[c] = "back"
  /\ plock' = [plock EXCEPT ![cproc[c]] = None]
  /\ cproc' = [cproc EXCEPT ![c] = None]
  /\ mode' = [mode EXCEPT ![c] = "sched"]
  /\ UNCHANGED <<tableVars, wait_lock, pc, localVars>>

Resumed(c, p) ==
  /\ mode[c] = "resume"
  /\ cproc[c] = p
  /\ plock' = [plock EXCEPT ![p] = None]
  /\ mode' = [mode EXCEPT ![c] = "run"]
  /\ UNCHANGED <<state, killed, pid, parent, xstate, nextpid, wait_lock,
                 cproc, localVars>>

(* The tail of yield(): the thread goes on where the interrupt caught it.  *)
YieldResume(c, p) ==
  /\ pc[p] \notin {"forkret", "asleep"}
  /\ Resumed(c, p)
  /\ UNCHANGED <<chan, pc>>

(* A new process enters user space through forkret(). *)
ForkretResume(c, p) ==
  /\ pc[p] = "forkret"
  /\ Resumed(c, p)
  /\ Goto(p, "user")
  /\ UNCHANGED chan

(* The tail of sleep(): tidy up; the caller then reacquires wait_lock. *)
SleepResume(c, p) ==
  /\ pc[p] = "asleep"
  /\ Resumed(c, p)
  /\ chan' = [chan EXCEPT ![p] = None]
  /\ Goto(p, "wait")

(* A timer interrupt makes the running thread yield().  Interrupts are off *)
(* while the CPU holds a spinlock.                                         *)
yield(c, p) ==
  /\ mode[c] = "run"
  /\ cproc[c] = p
  /\ wait_lock # c
  /\ sched(c, p, "RUNNABLE")
  /\ UNCHANGED <<chan, killed, pid, parent, xstate, nextpid, wait_lock, pc,
                 localVars>>

-----------------------------------------------------------------------------
(* User space.  usertrap() lets no killed process past a trap, so a killed *)
(* process in user space makes no further system call and exits.           *)

Syscall(c, p) ==
  /\ At(c, p, "user")
  /\ ~killed[p]
  /\ UNCHANGED <<tableVars, lockVars, cpuVars, idx, widx, havekids, np>>

CallFork(c, p) ==
  /\ Syscall(c, p)
  /\ nextpid <= MaxPid
  /\ Goto(p, "fork_alloc")
  /\ UNCHANGED arg

CallWait(c, p) ==
  /\ Syscall(c, p)
  /\ Goto(p, "wait")
  /\ UNCHANGED arg

CallExit(c, p) ==
  /\ Syscall(c, p)
  /\ p # initproc            \* the init program never exits
  /\ \E status \in Statuses : arg' = [arg EXCEPT ![p] = status]
  /\ Goto(p, "exit")

CallKill(c, p) ==
  /\ Syscall(c, p)
  /\ \E target \in KillPids : arg' = [arg EXCEPT ![p] = target]
  /\ Goto(p, "kill")

(* usertrap() finds the process killed and calls kexit(-1). *)
KilledTrap(c, p) ==
  /\ At(c, p, "user")
  /\ killed[p]
  /\ arg' = [arg EXCEPT ![p] = KilledStatus]
  /\ Goto(p, "exit")
  /\ UNCHANGED <<tableVars, lockVars, cpuVars, idx, widx, havekids, np>>

-----------------------------------------------------------------------------
(* kfork() and allocproc().                                                *)

(* One slot of allocproc()'s search is taken: go on to the next. *)
AllocNext(c, p) ==
  /\ At(c, p, "fork_alloc")
  /\ idx[p] < NPROC
  /\ plock[idx[p]] = None
  /\ state[idx[p]] # "UNUSED"
  /\ idx' = [idx EXCEPT ![p] = @ + 1]
  /\ UNCHANGED <<tableVars, lockVars, cpuVars, pc, widx, havekids, np, arg>>

(* No slot is free: fork() returns -1. *)
AllocNone(c, p) ==
  /\ At(c, p, "fork_alloc")
  /\ idx[p] = NPROC
  /\ Return(p)
  /\ UNCHANGED <<tableVars, lockVars, cpuVars>>

(* Mutant: allocpid() hands out nextpid without advancing it. *)
AllocFound_SamePid(c, p) ==
  /\ At(c, p, "fork_alloc")
  /\ idx[p] < NPROC
  /\ plock[idx[p]] = None
  /\ state[idx[p]] = "UNUSED"
  /\ state' = [state EXCEPT ![idx[p]] = "USED"]
  /\ pid' = [pid EXCEPT ![idx[p]] = nextpid]
  /\ np' = [np EXCEPT ![p] = idx[p]]
  /\ idx' = [idx EXCEPT ![p] = 0]
  /\ pc' = [pc EXCEPT ![p] = "fork_parent", ![idx[p]] = "forkret"]
  /\ UNCHANGED <<nextpid, chan, killed, parent, xstate, lockVars, cpuVars,
                 widx, havekids, arg>>

(* A free slot, all memory allocated and copied: the child is USED, with   *)
(* its context set to start in forkret().  allocproc() leaves killed alone.*)
AllocFound(c, p) ==
  /\ At(c, p, "fork_alloc")
  /\ idx[p] < NPROC
  /\ plock[idx[p]] = None
  /\ state[idx[p]] = "UNUSED"
  /\ state' = [state EXCEPT ![idx[p]] = "USED"]
  /\ pid' = [pid EXCEPT ![idx[p]] = nextpid]
  /\ nextpid' = nextpid + 1
  /\ np' = [np EXCEPT ![p] = idx[p]]
  /\ idx' = [idx EXCEPT ![p] = 0]
  /\ pc' = [pc EXCEPT ![p] = "fork_parent", ![idx[p]] = "forkret"]
  /\ UNCHANGED <<chan, killed, parent, xstate, lockVars, cpuVars, widx,
                 havekids, arg>>

(* The trapframe, the page table or uvmcopy() fails: the slot is freed     *)
(* again, the pid is spent, and fork() returns -1.                         *)
AllocFail(c, p) ==
  /\ At(c, p, "fork_alloc")
  /\ idx[p] < NPROC
  /\ plock[idx[p]] = None
  /\ state[idx[p]] = "UNUSED"
  /\ freeproc(idx[p])
  /\ nextpid' = nextpid + 1
  /\ Return(p)
  /\ UNCHANGED <<lockVars, cpuVars>>

(* acquire(&wait_lock); np->parent = p; release(&wait_lock). *)
ForkParent(c, p) ==
  /\ At(c, p, "fork_parent")
  /\ wait_lock = None
  /\ parent' = [parent EXCEPT ![np[p]] = p]
  /\ Goto(p, "fork_run")
  /\ UNCHANGED <<state, chan, killed, pid, xstate, nextpid, lockVars, cpuVars,
                 localVars>>

(* acquire(&np->lock); np->state = RUNNABLE; release(&np->lock). *)
ForkRun(c, p) ==
  /\ At(c, p, "fork_run")
  /\ plock[np[p]] = None
  /\ state' = [state EXCEPT ![np[p]] = "RUNNABLE"]
  /\ Return(p)
  /\ UNCHANGED <<chan, killed, pid, parent, xstate, nextpid, lockVars,
                 cpuVars>>

-----------------------------------------------------------------------------
(* kwait().                                                                *)

(* acquire(&wait_lock) on entry, and again at the end of sleep(). *)
WaitAcquire(c, p) ==
  /\ At(c, p, "wait")
  /\ wait_lock = None
  /\ wait_lock' = c
  /\ idx' = [idx EXCEPT ![p] = 0]
  /\ havekids' = [havekids EXCEPT ![p] = FALSE]
  /\ Goto(p, "wait_scan")
  /\ UNCHANGED <<tableVars, plock, cpuVars, widx, np, arg>>

WaitScanAt(c, p) == At(c, p, "wait_scan") /\ idx[p] < NPROC

(* The slot holds no child of p. *)
WaitSkip(c, p) ==
  /\ WaitScanAt(c, p)
  /\ parent[idx[p]] # p
  /\ idx' = [idx EXCEPT ![p] = @ + 1]
  /\ UNCHANGED <<tableVars, lockVars, cpuVars, pc, widx, havekids, np, arg>>

(* Mutant: havekids is set for exited children only. *)
WaitLiveChild_Forgets(c, p) ==
  /\ WaitScanAt(c, p)
  /\ parent[idx[p]] = p
  /\ plock[idx[p]] = None
  /\ state[idx[p]] # "ZOMBIE"
  /\ idx' = [idx EXCEPT ![p] = @ + 1]
  /\ UNCHANGED <<tableVars, lockVars, cpuVars, pc, widx, havekids, np, arg>>

(* The slot holds a child that has not exited. *)
WaitLiveChild(c, p) ==
  /\ WaitScanAt(c, p)
  /\ parent[idx[p]] = p
  /\ plock[idx[p]] = None
  /\ state[idx[p]] # "ZOMBIE"
  /\ idx' = [idx EXCEPT ![p] = @ + 1]
  /\ havekids' = [havekids EXCEPT ![p] = TRUE]
  /\ UNCHANGED <<tableVars, lockVars, cpuVars, pc, widx, np, arg>>

(* Mutant: kwait() reads the child's state without the child's lock. *)
WaitReap_NoChildLock(c, p) ==
  /\ WaitScanAt(c, p)
  /\ parent[idx[p]] = p
  /\ state[idx[p]] = "ZOMBIE"
  /\ freeproc(idx[p])
  /\ wait_lock' = None
  /\ pc' = [pc EXCEPT ![p] = "user", ![idx[p]] = "unused"]
  /\ idx' = [idx EXCEPT ![p] = 0]
  /\ havekids' = [havekids EXCEPT ![p] = FALSE]
  /\ UNCHANGED <<nextpid, plock, cpuVars, widx, np, arg>>

(* The slot holds an exited child: free it and return its pid. *)
WaitReap(c, p) ==
  /\ WaitScanAt(c, p)
  /\ parent[idx[p]] = p
  /\ plock[idx[p]] = None
  /\ state[idx[p]] = "ZOMBIE"
  /\ freeproc(idx[p])
  /\ wait_lock' = None
  /\ pc' = [pc EXCEPT ![p] = "user", ![idx[p]] = "unused"]
  /\ idx' = [idx EXCEPT ![p] = 0]
  /\ havekids' = [havekids EXCEPT ![p] = FALSE]
  /\ UNCHANGED <<nextpid, plock, cpuVars, widx, np, arg>>

(* An exited child, but copyout() of its status fails: it stays a zombie.  *)
WaitCopyoutFails(c, p) ==
  /\ WaitScanAt(c, p)
  /\ parent[idx[p]] = p
  /\ plock[idx[p]] = None
  /\ state[idx[p]] = "ZOMBIE"
  /\ wait_lock' = None
  /\ Return(p)
  /\ UNCHANGED <<tableVars, plock, cpuVars>>

(* The scan found no child, or p has been killed: wait() returns -1. *)
WaitNothing(c, p) ==
  /\ At(c, p, "wait_scan")
  /\ idx[p] = NPROC
  /\ ~havekids[p] \/ (plock[p] = None /\ killed[p])
  /\ wait_lock' = None
  /\ Return(p)
  /\ UNCHANGED <<tableVars, plock, cpuVars>>

(* killed(p) said no: on to sleep(p, &wait_lock), p->lock not yet held. *)
WaitDecide(c, p) ==
  /\ At(c, p, "wait_scan")
  /\ idx[p] = NPROC
  /\ havekids[p]
  /\ plock[p] = None
  /\ ~killed[p]
  /\ Goto(p, "wait_sleep")
  /\ UNCHANGED <<tableVars, lockVars, cpuVars, localVars>>

(* Mutant: sleep() releases wait_lock before it takes p->lock. *)
sleep_ReleasesFirst(c, p) ==
  /\ At(c, p, "wait_sleep")
  /\ \/ /\ wait_lock = c
        /\ wait_lock' = None
        /\ UNCHANGED <<tableVars, plock, cpuVars, pc, localVars>>
     \/ /\ wait_lock # c
        /\ sched(c, p, "SLEEPING")
        /\ chan' = [chan EXCEPT ![p] = p]
        /\ Goto(p, "asleep")
        /\ UNCHANGED <<killed, pid, parent, xstate, nextpid, wait_lock,
                       localVars>>

(* sleep(p, &wait_lock): take p->lock, release wait_lock, sleep. *)
sleep(c, p) ==
  /\ At(c, p, "wait_sleep")
  /\ sched(c, p, "SLEEPING")
  /\ wait_lock' = None
  /\ chan' = [chan EXCEPT ![p] = p]
  /\ Goto(p, "asleep")
  /\ UNCHANGED <<killed, pid, parent, xstate, nextpid, localVars>>

-----------------------------------------------------------------------------
(* kexit(), with reparent() and wakeup().                                  *)

(* panic("init exiting"): the thread never leaves panic(). *)
ExitPanic(c, p) ==
  /\ At(c, p, "exit")
  /\ p = initproc
  /\ Goto(p, "panic")
  /\ UNCHANGED <<tableVars, lockVars, cpuVars, localVars>>

ExitAcquire(c, p) ==
  /\ At(c, p, "exit")
  /\ p # initproc
  /\ wait_lock = None
  /\ wait_lock' = c
  /\ idx' = [idx EXCEPT ![p] = 0]
  /\ Goto(p, "reparent")
  /\ UNCHANGED <<tableVars, plock, cpuVars, widx, havekids, np, arg>>

(* Mutant: reparent() passes over children that have already exited. *)
ReparentSkip_Zombies(c, p) ==
  /\ At(c, p, "reparent")
  /\ idx[p] < NPROC
  /\ parent[idx[p]] # p \/ state[idx[p]] = "ZOMBIE"
  /\ idx' = [idx EXCEPT ![p] = @ + 1]
  /\ UNCHANGED <<tableVars, lockVars, cpuVars, pc, widx, havekids, np, arg>>

(* One slot of reparent()'s loop; a child goes to init, which is woken. *)
ReparentSkip(c, p) ==
  /\ At(c, p, "reparent")
  /\ idx[p] < NPROC
  /\ parent[idx[p]] # p
  /\ idx' = [idx EXCEPT ![p] = @ + 1]
  /\ UNCHANGED <<tableVars, lockVars, cpuVars, pc, widx, havekids, np, arg>>

ReparentChild(c, p) ==
  /\ At(c, p, "reparent")
  /\ idx[p] < NPROC
  /\ parent[idx[p]] = p
  /\ parent' = [parent EXCEPT ![idx[p]] = initproc]
  /\ widx' = [widx EXCEPT ![p] = 0]
  /\ Goto(p, "reparent_wakeup")
  /\ UNCHANGED <<state, chan, killed, pid, xstate, nextpid, lockVars, cpuVars,
                 idx, havekids, np, arg>>

ReparentDone(c, p) ==
  /\ At(c, p, "reparent")
  /\ idx[p] = NPROC
  /\ widx' = [widx EXCEPT ![p] = 0]
  /\ Goto(p, "exit_wakeup")
  /\ UNCHANGED <<tableVars, lockVars, cpuVars, idx, havekids, np, arg>>

(* One slot of wakeup(ch): every slot but the caller's is locked, and a    *)
(* process asleep on ch becomes RUNNABLE.                                  *)
wakeup(p, ch) ==
  LET j == widx[p]
      sleeper == j # p /\ state[j] = "SLEEPING" /\ chan[j] = ch
  IN  /\ j < NPROC
      /\ j # p => plock[j] = None
      /\ state' = [state EXCEPT ![j] = IF sleeper THEN "RUNNABLE" ELSE @]
      /\ widx' = [widx EXCEPT ![p] = @ + 1]
      /\ UNCHANGED <<chan, killed, pid, parent, xstate, nextpid, lockVars,
                     cpuVars, pc, idx, havekids, np, arg>>

ReparentWakeup(c, p) == At(c, p, "reparent_wakeup") /\ wakeup(p, initproc)

ReparentWakeupDone(c, p) ==
  /\ At(c, p, "reparent_wakeup")
  /\ widx[p] = NPROC
  /\ widx' = [widx EXCEPT ![p] = 0]
  /\ idx' = [idx EXCEPT ![p] = @ + 1]
  /\ Goto(p, "reparent")
  /\ UNCHANGED <<tableVars, lockVars, cpuVars, havekids, np, arg>>

ExitWakeup(c, p) == At(c, p, "exit_wakeup") /\ wakeup(p, parent[p])

ExitWakeupDone(c, p) ==
  /\ At(c, p, "exit_wakeup")
  /\ widx[p] = NPROC
  /\ widx' = [widx EXCEPT ![p] = 0]
  /\ idx' = [idx EXCEPT ![p] = 0]
  /\ Goto(p, "exit_zombie")
  /\ UNCHANGED <<tableVars, lockVars, cpuVars, havekids, np, arg>>

(* Mutant: kexit() enters the scheduler with wait_lock held. *)
ExitZombie_KeepsWaitLock(c, p) ==
  /\ At(c, p, "exit_zombie")
  /\ sched(c, p, "ZOMBIE")
  /\ xstate' = [xstate EXCEPT ![p] = arg[p]]
  /\ arg' = [arg EXCEPT ![p] = 0]
  /\ Goto(p, "zombie")
  /\ UNCHANGED <<chan, killed, pid, parent, nextpid, wait_lock, idx, widx,
                 havekids, np>>

(* Take p->lock, become a ZOMBIE, release wait_lock and never return. *)
ExitZombie(c, p) ==
  /\ At(c, p, "exit_zombie")
  /\ sched(c, p, "ZOMBIE")
  /\ xstate' = [xstate EXCEPT ![p] = arg[p]]
  /\ arg' = [arg EXCEPT ![p] = 0]
  /\ wait_lock' = None
  /\ Goto(p, "zombie")
  /\ UNCHANGED <<chan, killed, pid, parent, nextpid, idx, widx, havekids, np>>

-----------------------------------------------------------------------------
(* kkill(pid).                                                             *)

KillNext(c, p) ==
  /\ At(c, p, "kill")
  /\ idx[p] < NPROC
  /\ plock[idx[p]] = None
  /\ pid[idx[p]] # arg[p]
  /\ idx' = [idx EXCEPT ![p] = @ + 1]
  /\ UNCHANGED <<tableVars, lockVars, cpuVars, pc, widx, havekids, np, arg>>

(* Mutant: kill() makes any process that is not running RUNNABLE. *)
KillFound_WakesAll(c, p) ==
  /\ At(c, p, "kill")
  /\ idx[p] < NPROC
  /\ plock[idx[p]] = None
  /\ pid[idx[p]] = arg[p]
  /\ killed' = [killed EXCEPT ![idx[p]] = TRUE]
  /\ state' = [state EXCEPT ![idx[p]] = "RUNNABLE"]
  /\ Return(p)
  /\ UNCHANGED <<chan, pid, parent, xstate, nextpid, lockVars, cpuVars>>

(* The slot's pid matches, whatever its state: mark it, wake it. *)
KillFound(c, p) ==
  /\ At(c, p, "kill")
  /\ idx[p] < NPROC
  /\ plock[idx[p]] = None
  /\ pid[idx[p]] = arg[p]
  /\ killed' = [killed EXCEPT ![idx[p]] = TRUE]
  /\ state' = [state EXCEPT ![idx[p]] =
                 IF @ = "SLEEPING" THEN "RUNNABLE" ELSE @]
  /\ Return(p)
  /\ UNCHANGED <<chan, pid, parent, xstate, nextpid, lockVars, cpuVars>>

KillNone(c, p) ==
  /\ At(c, p, "kill")
  /\ idx[p] = NPROC
  /\ Return(p)
  /\ UNCHANGED <<tableVars, lockVars, cpuVars>>

-----------------------------------------------------------------------------
Fork(c, p) ==
  \/ AllocNext(c, p) \/ AllocNone(c, p) \/ AllocFound(c, p) \/ AllocFail(c, p)
  \/ ForkParent(c, p) \/ ForkRun(c, p)

Wait(c, p) ==
  \/ WaitAcquire(c, p) \/ WaitSkip(c, p) \/ WaitLiveChild(c, p)
  \/ WaitReap(c, p) \/ WaitCopyoutFails(c, p) \/ WaitNothing(c, p)
  \/ WaitDecide(c, p) \/ sleep(c, p)

Exit(c, p) ==
  \/ ExitPanic(c, p) \/ ExitAcquire(c, p)
  \/ ReparentSkip(c, p) \/ ReparentChild(c, p) \/ ReparentDone(c, p)
  \/ ReparentWakeup(c, p) \/ ReparentWakeupDone(c, p)
  \/ ExitWakeup(c, p) \/ ExitWakeupDone(c, p) \/ ExitZombie(c, p)

Kill(c, p) == KillNext(c, p) \/ KillFound(c, p) \/ KillNone(c, p)

(* What a CPU does of its own accord once it executes kernel code. *)
Kernel(c, p) ==
  \/ YieldResume(c, p) \/ ForkretResume(c, p) \/ SleepResume(c, p)
  \/ Fork(c, p) \/ Wait(c, p) \/ Exit(c, p) \/ Kill(c, p)

(* What user programs and the timer decide. *)
User(c, p) ==
  \/ CallFork(c, p) \/ CallWait(c, p) \/ CallExit(c, p) \/ CallKill(c, p)
  \/ KilledTrap(c, p) \/ yield(c, p)

Next ==
  \E c \in CPUs :
    \/ SchedBack(c)
    \/ \E p \in Slots : Dispatch(c, p)
    \/ \E p \in Slots : cproc[c] = p /\ (Kernel(c, p) \/ User(c, p))

Spec == Init /\ [][Next]_vars
-----------------------------------------------------------------------------
(* Safety.                                                                 *)

(* When a process thread has just swtch()ed to the scheduler, its CPU holds *)
(* that process's lock and no other, and the process is no longer RUNNING:  *)
(* none of the panics at the head of sched() ("sched p->lock", "sched       *)
(* locks", "sched RUNNING") can be hit.                                     *)
SchedChecks ==
  \A c \in CPUs : mode[c] = "back" =>
    /\ state[cproc[c]] # "RUNNING"
    /\ wait_lock # c
    /\ \A i \in Slots : plock[i] = c <=> i = cproc[c]

(* A process executes on at most one CPU, and while a CPU still executes on *)
(* a process's kernel stack - its own swtch() to the scheduler included -   *)
(* the slot is not freed or reused, although its parent may already see it  *)
(* exit.                                                                    *)
StackInUse ==
  \A c \in CPUs : cproc[c] # None =>
    /\ state[cproc[c]] \notin {"UNUSED", "USED"}
    /\ \A d \in CPUs : cproc[d] = cproc[c] => d = c

(* No wakeup is lost between a child's exit and its parent's wait(): when   *)
(* nobody is inside wait() or exit(), no process sleeps in wait() while it  *)
(* has an exited child, an adopted one included.                            *)
NoLostWakeup ==
  wait_lock = None =>
    \A p, q \in Slots :
      ~ (/\ state[p] = "SLEEPING" /\ chan[p] = p
         /\ state[q] = "ZOMBIE" /\ parent[q] = p)

(* No orphans: every process but init that can run or has exited has a     *)
(* parent, and a parent is alive: a process is never a ZOMBIE, or gone,     *)
(* while it is somebody's parent.                                           *)
NoOrphans ==
  \A i \in Slots :
    /\ i # initproc /\ state[i] \notin {"UNUSED", "USED"} => parent[i] # None
    /\ parent[i] # None =>
         state[parent[i]] \in {"SLEEPING", "RUNNABLE", "RUNNING"}

(* wait() returns -1 for want of children only if there are none: the part  *)
(* of the table that the scan has passed without finding a child still      *)
(* holds none, whatever other processes fork and exit meanwhile.            *)
ScanSound ==
  \A p \in Slots :
    pc[p] = "wait_scan" /\ ~havekids[p] =>
      \A i \in 0 .. idx[p] - 1 : parent[i] # p

(* No two processes have the same pid, no pid is that of a future process,  *)
(* and a free slot has pid 0.                                               *)
PidsUnique ==
  \A i \in Slots :
    /\ pid[i] < nextpid
    /\ pid[i] = 0 <=> state[i] = "UNUSED"
    /\ \A j \in Slots : pid[i] = pid[j] /\ pid[i] # 0 => i = j

(* An exited process leaves the table only when its parent reaps it inside  *)
(* wait(): the parent is running and holds wait_lock.                       *)
ReapedByParent ==
  [][\A i \in Slots :
       state[i] = "ZOMBIE" /\ state'[i] # "ZOMBIE" =>
         /\ state'[i] = "UNUSED"
         /\ \E c \in CPUs : /\ wait_lock = c
                            /\ cproc[c] = parent[i]
                            /\ pc[parent[i]] = "wait_scan"]_vars

(* A process is born alive: allocproc() never hands out a slot whose killed *)
(* flag is still set from its previous life.                                *)
BornUnkilled ==
  [][\A i \in Slots :
       state[i] = "UNUSED" /\ state'[i] = "USED" => ~killed'[i]]_vars
=============================================================================
