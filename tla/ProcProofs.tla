----------------------------- MODULE ProcProofs -----------------------------
(***************************************************************************)
(* Theorems about the process life cycle, for every number of slots, CPUs  *)
(* and arguments.  The inductive invariant IInv says who holds which lock  *)
(* at which control point; the safety properties of Proc follow from it.   *)
(***************************************************************************)
EXTENDS ProcRefinement, TLAPS

-----------------------------------------------------------------------------
(* The inductive invariant.                                                *)

(* The control points of kwait() and kexit() at which wait_lock is held.   *)
WaitLockPCs == {"wait_scan", "wait_sleep", "reparent", "reparent_wakeup",
                "exit_wakeup", "exit_zombie"}

(* kfork() has a child that nobody can run yet. *)
ChildPCs == {"fork_parent", "fork_run"}

(* What the mode of a CPU says of the process it executes. *)
CpuInv ==
  \A c \in CPUs :
    /\ mode[c] = "sched" <=> cproc[c] = None
    /\ mode[c] \in {"resume", "run"} => state[cproc[c]] = "RUNNING"
    /\ mode[c] = "back" =>
         state[cproc[c]] \in {"RUNNABLE", "SLEEPING", "ZOMBIE"}
    /\ mode[c] \in {"resume", "back"} => plock[cproc[c]] = c
    /\ \A d \in CPUs : cproc[d] = cproc[c] /\ cproc[c] # None => d = c

(* p->lock outlives a step only across a swtch() of p. *)
PLockInv ==
  \A i \in Slots, c \in CPUs :
    plock[i] = c => mode[c] \in {"resume", "back"} /\ cproc[c] = i

(* wait_lock is held exactly by the CPU whose thread is at one of the      *)
(* control points above.                                                   *)
WaitLockInv ==
  /\ \A c \in CPUs :
       wait_lock = c => mode[c] = "run" /\ pc[cproc[c]] \in WaitLockPCs
  /\ \A p \in Slots :
       pc[p] \in WaitLockPCs => wait_lock # None /\ cproc[wait_lock] = p

(* The child of an unfinished kfork() is USED, and belongs to one parent.  *)
ForkInv ==
  \A p \in Slots : pc[p] \in ChildPCs =>
    /\ state[np[p]] = "USED"
    /\ \A q \in Slots : pc[q] \in ChildPCs /\ np[q] = np[p] => q = p

(* reparent() wakes init on behalf of a slot of the table. *)
LoopInv == \A p \in Slots : pc[p] = "reparent_wakeup" => idx[p] < NPROC

(* A process under construction gets its parent before it can run. *)
ParentInv ==
  /\ \A i \in Slots :
       i # initproc /\ state[i] \notin {"UNUSED", "USED"} => parent[i] # None
  /\ \A p \in Slots : pc[p] = "fork_run" => parent[np[p]] = p

Alive == {"SLEEPING", "RUNNABLE", "RUNNING"}

(* The control points at which kexit() holds wait_lock. *)
ExitPCs == {"reparent", "reparent_wakeup", "exit_wakeup", "exit_zombie"}

(* Parents are alive, and so is init. *)
AliveInv ==
  /\ \A i \in Slots : parent[i] # None => state[parent[i]] \in Alive
  /\ state[initproc] \in Alive

(* An exiting process loses its children one slot at a time and gets no    *)
(* new ones; init does not exit.                                           *)
ExitInv ==
  /\ \A p \in Slots : pc[p] \in ExitPCs => p # initproc
  /\ \A p, i \in Slots :
       /\ pc[p] = "reparent" /\ i < idx[p] => parent[i] # p
       /\ pc[p] = "reparent_wakeup" /\ i =< idx[p] => parent[i] # p
       /\ pc[p] \in {"exit_wakeup", "exit_zombie"} => parent[i] # p

(* A sleeper waits for its own children, *)
ChanInv == \A i \in Slots : state[i] = "SLEEPING" => chan[i] = i

(* an exiting process has woken its parent before it becomes a ZOMBIE,     *)
WakeInv ==
  \A q, i \in Slots : parent[q] = i =>
    /\ pc[q] = "exit_wakeup" /\ widx[q] > i => state[i] # "SLEEPING"
    /\ pc[q] = "exit_zombie" => state[i] # "SLEEPING"

(* and the scan of kwait() leaves no exited child behind.  The one sleeping *)
(* process that may have an exited child is init, while reparent() is about *)
(* to wake it.                                                              *)
ZombieInv ==
  \A p, i \in Slots :
    parent[i] = p /\ state[i] = "ZOMBIE" =>
      /\ pc[p] = "wait_scan" => i >= idx[p]
      /\ pc[p] # "wait_sleep"
      /\ state[p] = "SLEEPING" =>
           /\ p = initproc
           /\ \E r \in Slots : pc[r] = "reparent_wakeup" /\ widx[r] = 0

IInv ==
  /\ TypeOK
  /\ LoopInv
  /\ CpuInv
  /\ PLockInv
  /\ WaitLockInv
  /\ ForkInv
  /\ PidsUnique
  /\ ScanSound
  /\ ParentInv
  /\ AliveInv
  /\ ExitInv
  /\ ChanInv
  /\ WakeInv
  /\ ZombieInv

-----------------------------------------------------------------------------
(* The initial state, and each conjunct in turn. *)

(* The table is not empty, and a loop index below NPROC is a slot. *)
LEMMA SlotFacts ==
  /\ initproc \in Slots
  /\ 0 \in Slots
  /\ 0 \in 0 .. NPROC
  /\ \A i \in 0 .. NPROC : i < NPROC => i \in Slots /\ i + 1 \in 0 .. NPROC
  /\ None \notin Slots
  /\ None \notin CPUs
  BY ProcAssumption DEF Slots, initproc

(* Slots are numbers: what the loops over the table compare. *)
LEMMA SlotRange ==
  /\ NPROC \in Nat
  /\ initproc = 0
  /\ \A i \in Slots : i \in 0 .. NPROC /\ i < NPROC
  BY ProcAssumption DEF Slots, initproc

(* After procinit() and userinit() the invariant holds. *)
LEMMA InitIInv == Init => IInv
  BY SlotFacts, ProcAssumption
     DEF Init, IInv, TypeOK, LoopInv, CpuInv, PLockInv, WaitLockInv, ForkInv,
         PidsUnique, ScanSound, ParentInv, AliveInv, ExitInv, ChanInv, WakeInv,
         ZombieInv, Alive, ExitPCs,
         WaitLockPCs, ChildPCs, ProcStates, PCs, Modes, Slots, initproc

(* Each action keeps the types; only the loop index of reparent() needs a
   bound that its own control point does not test. *)
LEMMA TypeStep == ASSUME TypeOK, LoopInv, Next
  PROVE TypeOK'
<1> USE ProcAssumption, SlotFacts
    DEF TypeOK, LoopInv, ProcStates, Modes, PCs, KilledStatus, tableVars,
        lockVars, cpuVars, localVars
<1>1. ASSUME NEW c \in CPUs, SchedBack(c) PROVE TypeOK'
  BY <1>1 DEF SchedBack
<1>2. ASSUME NEW c \in CPUs, NEW p \in Slots, Dispatch(c, p) PROVE TypeOK'
  BY <1>2 DEF Dispatch
<1>3. ASSUME NEW c \in CPUs, NEW p \in Slots, YieldResume(c, p) PROVE TypeOK'
  BY <1>3 DEF YieldResume, Resumed
<1>4. ASSUME NEW c \in CPUs, NEW p \in Slots, ForkretResume(c, p)
     PROVE TypeOK'
  BY <1>4 DEF ForkretResume, Resumed, Goto
<1>5. ASSUME NEW c \in CPUs, NEW p \in Slots, SleepResume(c, p) PROVE TypeOK'
  BY <1>5 DEF SleepResume, Resumed, Goto
<1>6. ASSUME NEW c \in CPUs, NEW p \in Slots, CallFork(c, p) PROVE TypeOK'
  BY <1>6 DEF CallFork, Syscall, At, Goto
<1>7. ASSUME NEW c \in CPUs, NEW p \in Slots, CallWait(c, p) PROVE TypeOK'
  BY <1>7 DEF CallWait, Syscall, At, Goto
<1>8. ASSUME NEW c \in CPUs, NEW p \in Slots, CallExit(c, p) PROVE TypeOK'
  BY <1>8 DEF CallExit, Syscall, At, Goto
<1>9. ASSUME NEW c \in CPUs, NEW p \in Slots, CallKill(c, p) PROVE TypeOK'
  BY <1>9 DEF CallKill, Syscall, At, Goto
<1>10. ASSUME NEW c \in CPUs, NEW p \in Slots, KilledTrap(c, p) PROVE TypeOK'
  BY <1>10 DEF KilledTrap, At, Goto
<1>11. ASSUME NEW c \in CPUs, NEW p \in Slots, yield(c, p) PROVE TypeOK'
  BY <1>11 DEF yield, sched
<1>12. ASSUME NEW c \in CPUs, NEW p \in Slots, AllocNext(c, p) PROVE TypeOK'
  BY <1>12 DEF AllocNext, At
<1>13. ASSUME NEW c \in CPUs, NEW p \in Slots, AllocNone(c, p) PROVE TypeOK'
  BY <1>13 DEF AllocNone, At, Return, Goto
<1>14. ASSUME NEW c \in CPUs, NEW p \in Slots, AllocFound(c, p) PROVE TypeOK'
  BY <1>14 DEF AllocFound, At
<1>15. ASSUME NEW c \in CPUs, NEW p \in Slots, AllocFail(c, p) PROVE TypeOK'
  BY <1>15 DEF AllocFail, At, freeproc, Return, Goto
<1>16. ASSUME NEW c \in CPUs, NEW p \in Slots, ForkParent(c, p) PROVE TypeOK'
  BY <1>16 DEF ForkParent, At, Goto
<1>17. ASSUME NEW c \in CPUs, NEW p \in Slots, ForkRun(c, p) PROVE TypeOK'
  BY <1>17 DEF ForkRun, At, Return, Goto
<1>18. ASSUME NEW c \in CPUs, NEW p \in Slots, WaitAcquire(c, p) PROVE TypeOK'
  BY <1>18 DEF WaitAcquire, At, Goto
<1>19. ASSUME NEW c \in CPUs, NEW p \in Slots, WaitSkip(c, p) PROVE TypeOK'
  BY <1>19 DEF WaitSkip, WaitScanAt, At
<1>20. ASSUME NEW c \in CPUs, NEW p \in Slots, WaitLiveChild(c, p)
      PROVE TypeOK'
  BY <1>20 DEF WaitLiveChild, WaitScanAt, At
<1>21. ASSUME NEW c \in CPUs, NEW p \in Slots, WaitReap(c, p) PROVE TypeOK'
  BY <1>21 DEF WaitReap, WaitScanAt, At, freeproc
<1>22. ASSUME NEW c \in CPUs, NEW p \in Slots, WaitCopyoutFails(c, p)
      PROVE TypeOK'
  BY <1>22 DEF WaitCopyoutFails, WaitScanAt, At, Return, Goto
<1>23. ASSUME NEW c \in CPUs, NEW p \in Slots, WaitNothing(c, p) PROVE TypeOK'
  BY <1>23 DEF WaitNothing, At, Return, Goto
<1>24. ASSUME NEW c \in CPUs, NEW p \in Slots, WaitDecide(c, p) PROVE TypeOK'
  BY <1>24 DEF WaitDecide, At, Goto
<1>25. ASSUME NEW c \in CPUs, NEW p \in Slots, sleep(c, p) PROVE TypeOK'
  BY <1>25 DEF sleep, At, sched, Goto
<1>26. ASSUME NEW c \in CPUs, NEW p \in Slots, ExitPanic(c, p) PROVE TypeOK'
  BY <1>26 DEF ExitPanic, At, Goto
<1>27. ASSUME NEW c \in CPUs, NEW p \in Slots, ExitAcquire(c, p) PROVE TypeOK'
  BY <1>27 DEF ExitAcquire, At, Goto
<1>28. ASSUME NEW c \in CPUs, NEW p \in Slots, ReparentSkip(c, p)
      PROVE TypeOK'
  BY <1>28 DEF ReparentSkip, At
<1>29. ASSUME NEW c \in CPUs, NEW p \in Slots, ReparentChild(c, p)
      PROVE TypeOK'
  BY <1>29 DEF ReparentChild, At, Goto
<1>30. ASSUME NEW c \in CPUs, NEW p \in Slots, ReparentDone(c, p)
      PROVE TypeOK'
  BY <1>30 DEF ReparentDone, At, Goto
<1>31. ASSUME NEW c \in CPUs, NEW p \in Slots, ReparentWakeup(c, p)
      PROVE TypeOK'
  BY <1>31 DEF ReparentWakeup, At, wakeup
<1>32. ASSUME NEW c \in CPUs, NEW p \in Slots, ReparentWakeupDone(c, p)
      PROVE TypeOK'
  BY <1>32 DEF ReparentWakeupDone, At, Goto
<1>33. ASSUME NEW c \in CPUs, NEW p \in Slots, ExitWakeup(c, p) PROVE TypeOK'
  BY <1>33 DEF ExitWakeup, At, wakeup
<1>34. ASSUME NEW c \in CPUs, NEW p \in Slots, ExitWakeupDone(c, p)
      PROVE TypeOK'
  BY <1>34 DEF ExitWakeupDone, At, Goto
<1>35. ASSUME NEW c \in CPUs, NEW p \in Slots, ExitZombie(c, p) PROVE TypeOK'
  BY <1>35 DEF ExitZombie, At, sched, Goto
<1>36. ASSUME NEW c \in CPUs, NEW p \in Slots, KillNext(c, p) PROVE TypeOK'
  BY <1>36 DEF KillNext, At
<1>37. ASSUME NEW c \in CPUs, NEW p \in Slots, KillFound(c, p) PROVE TypeOK'
  BY <1>37 DEF KillFound, At, Return, Goto
<1>38. ASSUME NEW c \in CPUs, NEW p \in Slots, KillNone(c, p) PROVE TypeOK'
  BY <1>38 DEF KillNone, At, Return, Goto
<1> QED BY <1>1, <1>2, <1>3, <1>4, <1>5, <1>6, <1>7, <1>8, <1>9, <1>10, <1>11,
    <1>12, <1>13, <1>14, <1>15, <1>16, <1>17, <1>18, <1>19, <1>20, <1>21,
    <1>22, <1>23, <1>24, <1>25, <1>26, <1>27, <1>28, <1>29, <1>30, <1>31,
    <1>32, <1>33, <1>34, <1>35, <1>36, <1>37, <1>38 DEF Next, Kernel, User,
    Fork, Wait, Exit, Kill

(* Only ReparentChild enters reparent_wakeup, with the index in range. *)
LEMMA LoopStep == ASSUME TypeOK, LoopInv, Next
  PROVE LoopInv'
<1> USE SlotFacts
    DEF TypeOK, LoopInv, tableVars, lockVars, cpuVars, localVars
<1>1. ASSUME NEW c \in CPUs, SchedBack(c) PROVE LoopInv'
  BY <1>1 DEF SchedBack
<1>2. ASSUME NEW c \in CPUs, NEW p \in Slots, Dispatch(c, p) PROVE LoopInv'
  BY <1>2 DEF Dispatch
<1>3. ASSUME NEW c \in CPUs, NEW p \in Slots,
            YieldResume(c, p) \/ ForkretResume(c, p) \/ SleepResume(c, p)
     PROVE  LoopInv'
  BY <1>3 DEF YieldResume, ForkretResume, SleepResume, Resumed, Goto
<1>4. ASSUME NEW c \in CPUs, NEW p \in Slots, User(c, p) PROVE LoopInv'
  BY <1>4 DEF User, CallFork, CallWait, CallExit, CallKill, KilledTrap, yield,
    Syscall, At, Goto, sched
<1>5. ASSUME NEW c \in CPUs, NEW p \in Slots, Fork(c, p) PROVE LoopInv'
  BY <1>5 DEF Fork, AllocNext, AllocNone, AllocFound, AllocFail, ForkParent,
    ForkRun, At, Return, Goto, freeproc
<1>6. ASSUME NEW c \in CPUs, NEW p \in Slots, Wait(c, p) PROVE LoopInv'
  BY <1>6 DEF Wait, WaitAcquire, WaitSkip, WaitLiveChild, WaitReap,
    WaitCopyoutFails, WaitNothing, WaitDecide, sleep, At, Goto, WaitScanAt,
    freeproc, Return, sched
<1>7. ASSUME NEW c \in CPUs, NEW p \in Slots, Exit(c, p) PROVE LoopInv'
  BY <1>7 DEF Exit, ExitPanic, ExitAcquire, ReparentSkip, ReparentChild,
    ReparentDone, ReparentWakeup, ReparentWakeupDone, ExitWakeup,
    ExitWakeupDone, ExitZombie, At, Goto, wakeup, sched
<1>8. ASSUME NEW c \in CPUs, NEW p \in Slots, Kill(c, p) PROVE LoopInv'
  BY <1>8 DEF Kill, KillNext, KillFound, KillNone, At, Return, Goto
<1> QED BY <1>1, <1>2, <1>3, <1>4, <1>5, <1>6, <1>7, <1>8 DEF Next, Kernel,
    User, Fork, Wait, Exit, Kill

(* A slot is dispatched only with its lock free, so no CPU is still on it;
   its state changes under the lock, or while its own CPU runs it. *)
LEMMA CpuStep == ASSUME TypeOK, CpuInv, PLockInv, ForkInv, Next
  PROVE CpuInv'
<1> USE SlotFacts
    DEF TypeOK, CpuInv, PLockInv, ForkInv, ChildPCs, tableVars, lockVars,
        cpuVars, localVars
<1>1. ASSUME NEW c \in CPUs, SchedBack(c) PROVE CpuInv'
  BY <1>1 DEF SchedBack
<1>2. ASSUME NEW c \in CPUs, NEW p \in Slots, Dispatch(c, p) PROVE CpuInv'
  <2> USE <1>2 DEF Dispatch
  <2>1. /\ cproc[c] = None /\ cproc' = [cproc EXCEPT ![c] = p]
        /\ mode' = [mode EXCEPT ![c] = "resume"]
        /\ state' = [state EXCEPT ![p] = "RUNNING"]
        /\ plock' = [plock EXCEPT ![p] = c]
    OBVIOUS
  <2>2. ASSUME NEW d \in CPUs, d # c PROVE cproc[d] # p
    <3>1. CASE mode[d] = "sched"
      BY <3>1
    <3>2. CASE mode[d] \in {"resume", "run"}
      BY <3>2
    <3>3. CASE mode[d] = "back"
      BY <3>3
    <3> QED BY <3>1, <3>2, <3>3 DEF Modes
  <2>3. ASSUME NEW d \in CPUs, d # c
    PROVE plock[cproc[d]] = d => plock'[cproc[d]] = d
    BY <2>2, <2>3
  <2> QED BY <2>1, <2>2, <2>3
<1>3. ASSUME NEW c \in CPUs, NEW p \in Slots,
            YieldResume(c, p) \/ ForkretResume(c, p) \/ SleepResume(c, p)
     PROVE  CpuInv'
  BY <1>3 DEF YieldResume, ForkretResume, SleepResume, Resumed, Goto
<1>4. ASSUME NEW c \in CPUs, NEW p \in Slots, User(c, p) PROVE CpuInv'
  BY <1>4 DEF User, CallFork, CallWait, CallExit, CallKill, KilledTrap, yield,
    Syscall, At, Goto, sched
<1>5. ASSUME NEW c \in CPUs, NEW p \in Slots, Fork(c, p) PROVE CpuInv'
  BY <1>5 DEF Fork, AllocNext, AllocNone, AllocFound, AllocFail, ForkParent,
    ForkRun, At, Return, Goto, freeproc
<1>6. ASSUME NEW c \in CPUs, NEW p \in Slots, Wait(c, p) PROVE CpuInv'
  BY <1>6 DEF Wait, WaitAcquire, WaitSkip, WaitLiveChild, WaitReap,
    WaitCopyoutFails, WaitNothing, WaitDecide, sleep, At, Goto, WaitScanAt,
    freeproc, Return, sched
<1>7. ASSUME NEW c \in CPUs, NEW p \in Slots, Exit(c, p) PROVE CpuInv'
  BY <1>7 DEF Exit, ExitPanic, ExitAcquire, ReparentSkip, ReparentChild,
    ReparentDone, ReparentWakeup, ReparentWakeupDone, ExitWakeup,
    ExitWakeupDone, ExitZombie, At, Goto, wakeup, sched
<1>8. ASSUME NEW c \in CPUs, NEW p \in Slots, Kill(c, p) PROVE CpuInv'
  BY <1>8 DEF Kill, KillNext, KillFound, KillNone, At, Return, Goto
<1> QED BY <1>1, <1>2, <1>3, <1>4, <1>5, <1>6, <1>7, <1>8 DEF Next, Kernel,
    User, Fork, Wait, Exit, Kill

(* Only sched() and scheduler() leave a p->lock held. *)
LEMMA PLockStep == ASSUME TypeOK, CpuInv, PLockInv, Next
  PROVE PLockInv'
<1> USE SlotFacts
    DEF TypeOK, CpuInv, PLockInv, tableVars, lockVars, cpuVars, localVars
<1>1. ASSUME NEW c \in CPUs, SchedBack(c) PROVE PLockInv'
  BY <1>1 DEF SchedBack
<1>2. ASSUME NEW c \in CPUs, NEW p \in Slots, Dispatch(c, p) PROVE PLockInv'
  BY <1>2 DEF Dispatch
<1>3. ASSUME NEW c \in CPUs, NEW p \in Slots,
            YieldResume(c, p) \/ ForkretResume(c, p) \/ SleepResume(c, p)
     PROVE  PLockInv'
  BY <1>3 DEF YieldResume, ForkretResume, SleepResume, Resumed, Goto
<1>4. ASSUME NEW c \in CPUs, NEW p \in Slots, User(c, p) PROVE PLockInv'
  BY <1>4 DEF User, CallFork, CallWait, CallExit, CallKill, KilledTrap, yield,
    Syscall, At, Goto, sched
<1>5. ASSUME NEW c \in CPUs, NEW p \in Slots, Fork(c, p) PROVE PLockInv'
  BY <1>5 DEF Fork, AllocNext, AllocNone, AllocFound, AllocFail, ForkParent,
    ForkRun, At, Return, Goto, freeproc
<1>6. ASSUME NEW c \in CPUs, NEW p \in Slots, Wait(c, p) PROVE PLockInv'
  BY <1>6 DEF Wait, WaitAcquire, WaitSkip, WaitLiveChild, WaitReap,
    WaitCopyoutFails, WaitNothing, WaitDecide, sleep, At, Goto, WaitScanAt,
    freeproc, Return, sched
<1>7. ASSUME NEW c \in CPUs, NEW p \in Slots, Exit(c, p) PROVE PLockInv'
  BY <1>7 DEF Exit, ExitPanic, ExitAcquire, ReparentSkip, ReparentChild,
    ReparentDone, ReparentWakeup, ReparentWakeupDone, ExitWakeup,
    ExitWakeupDone, ExitZombie, At, Goto, wakeup, sched
<1>8. ASSUME NEW c \in CPUs, NEW p \in Slots, Kill(c, p) PROVE PLockInv'
  BY <1>8 DEF Kill, KillNext, KillFound, KillNone, At, Return, Goto
<1> QED BY <1>1, <1>2, <1>3, <1>4, <1>5, <1>6, <1>7, <1>8 DEF Next, Kernel,
    User, Fork, Wait, Exit, Kill

(* wait_lock is taken and released together with the control points that
   hold it, and the timer cannot interrupt its holder. *)
LEMMA WaitLockStep == ASSUME TypeOK, CpuInv, WaitLockInv, Next
  PROVE WaitLockInv'
<1> USE SlotFacts
    DEF TypeOK, CpuInv, WaitLockInv, WaitLockPCs, tableVars, lockVars,
        cpuVars, localVars
<1>1. ASSUME NEW c \in CPUs, SchedBack(c) PROVE WaitLockInv'
  BY <1>1 DEF SchedBack
<1>2. ASSUME NEW c \in CPUs, NEW p \in Slots, Dispatch(c, p)
     PROVE WaitLockInv'
  BY <1>2 DEF Dispatch
<1>3. ASSUME NEW c \in CPUs, NEW p \in Slots,
            YieldResume(c, p) \/ ForkretResume(c, p) \/ SleepResume(c, p)
     PROVE  WaitLockInv'
  BY <1>3 DEF YieldResume, ForkretResume, SleepResume, Resumed, Goto
<1>4. ASSUME NEW c \in CPUs, NEW p \in Slots, User(c, p) PROVE WaitLockInv'
  BY <1>4 DEF User, CallFork, CallWait, CallExit, CallKill, KilledTrap, yield,
    Syscall, At, Goto, sched
<1>5. ASSUME NEW c \in CPUs, NEW p \in Slots, Fork(c, p) PROVE WaitLockInv'
  BY <1>5 DEF Fork, AllocNext, AllocNone, AllocFound, AllocFail, ForkParent,
    ForkRun, At, Return, Goto, freeproc
<1>6. ASSUME NEW c \in CPUs, NEW p \in Slots, Wait(c, p) PROVE WaitLockInv'
  BY <1>6 DEF Wait, WaitAcquire, WaitSkip, WaitLiveChild, WaitReap,
    WaitCopyoutFails, WaitNothing, WaitDecide, sleep, At, Goto, WaitScanAt,
    freeproc, Return, sched
<1>7. ASSUME NEW c \in CPUs, NEW p \in Slots, Exit(c, p) PROVE WaitLockInv'
  BY <1>7 DEF Exit, ExitPanic, ExitAcquire, ReparentSkip, ReparentChild,
    ReparentDone, ReparentWakeup, ReparentWakeupDone, ExitWakeup,
    ExitWakeupDone, ExitZombie, At, Goto, wakeup, sched
<1>8. ASSUME NEW c \in CPUs, NEW p \in Slots, Kill(c, p) PROVE WaitLockInv'
  BY <1>8 DEF Kill, KillNext, KillFound, KillNone, At, Return, Goto
<1> QED BY <1>1, <1>2, <1>3, <1>4, <1>5, <1>6, <1>7, <1>8 DEF Next, Kernel,
    User, Fork, Wait, Exit, Kill

(* A USED slot is touched by nobody but the kfork() that made it. *)
LEMMA ForkStep == ASSUME TypeOK, CpuInv, ForkInv, Next
  PROVE ForkInv'
<1> USE SlotFacts
    DEF TypeOK, CpuInv, ForkInv, ChildPCs, tableVars, lockVars, cpuVars,
        localVars
<1>1. ASSUME NEW c \in CPUs, SchedBack(c) PROVE ForkInv'
  BY <1>1 DEF SchedBack
<1>2. ASSUME NEW c \in CPUs, NEW p \in Slots, Dispatch(c, p) PROVE ForkInv'
  BY <1>2 DEF Dispatch
<1>3. ASSUME NEW c \in CPUs, NEW p \in Slots,
            YieldResume(c, p) \/ ForkretResume(c, p) \/ SleepResume(c, p)
     PROVE  ForkInv'
  BY <1>3 DEF YieldResume, ForkretResume, SleepResume, Resumed, Goto
<1>4. ASSUME NEW c \in CPUs, NEW p \in Slots, User(c, p) PROVE ForkInv'
  BY <1>4 DEF User, CallFork, CallWait, CallExit, CallKill, KilledTrap, yield,
    Syscall, At, Goto, sched
<1>5. ASSUME NEW c \in CPUs, NEW p \in Slots, Fork(c, p) PROVE ForkInv'
  <2>1. CASE AllocNext(c, p) \/ AllocNone(c, p) \/ ForkParent(c, p)
    BY <2>1 DEF AllocNext, AllocNone, ForkParent, At, Return, Goto
  <2>2. CASE AllocFound(c, p)
    BY <2>2 DEF AllocFound, At
  <2>3. CASE AllocFail(c, p)
    BY <2>3 DEF AllocFail, At, Return, Goto, freeproc
  <2>4. CASE ForkRun(c, p)
    BY <2>4 DEF ForkRun, At, Return, Goto
  <2> QED
    BY <1>5, <2>1, <2>2, <2>3, <2>4 DEF Fork
<1>6. ASSUME NEW c \in CPUs, NEW p \in Slots, Wait(c, p) PROVE ForkInv'
  BY <1>6 DEF Wait, WaitAcquire, WaitSkip, WaitLiveChild, WaitReap,
    WaitCopyoutFails, WaitNothing, WaitDecide, sleep, At, Goto, WaitScanAt,
    freeproc, Return, sched
<1>7. ASSUME NEW c \in CPUs, NEW p \in Slots, Exit(c, p) PROVE ForkInv'
  BY <1>7 DEF Exit, ExitPanic, ExitAcquire, ReparentSkip, ReparentChild,
    ReparentDone, ReparentWakeup, ReparentWakeupDone, ExitWakeup,
    ExitWakeupDone, ExitZombie, At, Goto, wakeup, sched
<1>8. ASSUME NEW c \in CPUs, NEW p \in Slots, Kill(c, p) PROVE ForkInv'
  BY <1>8 DEF Kill, KillNext, KillFound, KillNone, At, Return, Goto
<1> QED BY <1>1, <1>2, <1>3, <1>4, <1>5, <1>6, <1>7, <1>8 DEF Next, Kernel,
    User, Fork, Wait, Exit, Kill

(* A pid is given with the slot and taken away with it. *)
LEMMA PidsStep == ASSUME TypeOK, CpuInv, ForkInv, PidsUnique, Next
  PROVE PidsUnique'
<1> USE SlotFacts
    DEF TypeOK, CpuInv, ForkInv, ChildPCs, PidsUnique, tableVars, lockVars,
        cpuVars, localVars
<1>1. ASSUME NEW c \in CPUs, SchedBack(c) PROVE PidsUnique'
  BY <1>1 DEF SchedBack
<1>2. ASSUME NEW c \in CPUs, NEW p \in Slots, Dispatch(c, p) PROVE PidsUnique'
  BY <1>2 DEF Dispatch
<1>3. ASSUME NEW c \in CPUs, NEW p \in Slots,
            YieldResume(c, p) \/ ForkretResume(c, p) \/ SleepResume(c, p)
     PROVE  PidsUnique'
  BY <1>3 DEF YieldResume, ForkretResume, SleepResume, Resumed, Goto
<1>4. ASSUME NEW c \in CPUs, NEW p \in Slots, User(c, p) PROVE PidsUnique'
  BY <1>4 DEF User, CallFork, CallWait, CallExit, CallKill, KilledTrap, yield,
    Syscall, At, Goto, sched
<1>5. ASSUME NEW c \in CPUs, NEW p \in Slots, Fork(c, p) PROVE PidsUnique'
  BY <1>5 DEF Fork, AllocNext, AllocNone, AllocFound, AllocFail, ForkParent,
    ForkRun, At, Return, Goto, freeproc
<1>6. ASSUME NEW c \in CPUs, NEW p \in Slots, Wait(c, p) PROVE PidsUnique'
  BY <1>6 DEF Wait, WaitAcquire, WaitSkip, WaitLiveChild, WaitReap,
    WaitCopyoutFails, WaitNothing, WaitDecide, sleep, At, Goto, WaitScanAt,
    freeproc, Return, sched
<1>7. ASSUME NEW c \in CPUs, NEW p \in Slots, Exit(c, p) PROVE PidsUnique'
  BY <1>7 DEF Exit, ExitPanic, ExitAcquire, ReparentSkip, ReparentChild,
    ReparentDone, ReparentWakeup, ReparentWakeupDone, ExitWakeup,
    ExitWakeupDone, ExitZombie, At, Goto, wakeup, sched
<1>8. ASSUME NEW c \in CPUs, NEW p \in Slots, Kill(c, p) PROVE PidsUnique'
  BY <1>8 DEF Kill, KillNext, KillFound, KillNone, At, Return, Goto
<1> QED BY <1>1, <1>2, <1>3, <1>4, <1>5, <1>6, <1>7, <1>8 DEF Next, Kernel,
    User, Fork, Wait, Exit, Kill

(* Only p itself gives p children, except that init adopts, and adopting
   needs the wait_lock that the scanning init holds. *)
LEMMA ScanStep == ASSUME TypeOK, CpuInv, WaitLockInv, ScanSound, Next
  PROVE ScanSound'
<1> USE SlotFacts
    DEF TypeOK, CpuInv, WaitLockInv, WaitLockPCs, ScanSound, tableVars,
        lockVars, cpuVars, localVars
<1>1. ASSUME NEW c \in CPUs, SchedBack(c) PROVE ScanSound'
  BY <1>1 DEF SchedBack
<1>2. ASSUME NEW c \in CPUs, NEW p \in Slots, Dispatch(c, p) PROVE ScanSound'
  BY <1>2 DEF Dispatch
<1>3. ASSUME NEW c \in CPUs, NEW p \in Slots,
            YieldResume(c, p) \/ ForkretResume(c, p) \/ SleepResume(c, p)
     PROVE  ScanSound'
  BY <1>3 DEF YieldResume, ForkretResume, SleepResume, Resumed, Goto
<1>4. ASSUME NEW c \in CPUs, NEW p \in Slots, User(c, p) PROVE ScanSound'
  BY <1>4 DEF User, CallFork, CallWait, CallExit, CallKill, KilledTrap, yield,
    Syscall, At, Goto, sched
<1>5. ASSUME NEW c \in CPUs, NEW p \in Slots, AllocNext(c, p) PROVE ScanSound'
  BY <1>5 DEF AllocNext, At
<1>6. ASSUME NEW c \in CPUs, NEW p \in Slots, AllocNone(c, p) PROVE ScanSound'
  BY <1>6 DEF AllocNone, At, Return, Goto
<1>7. ASSUME NEW c \in CPUs, NEW p \in Slots, AllocFound(c, p)
     PROVE ScanSound'
  BY <1>7 DEF AllocFound, At
<1>8. ASSUME NEW c \in CPUs, NEW p \in Slots, AllocFail(c, p) PROVE ScanSound'
  BY <1>8 DEF AllocFail, At, freeproc, Return, Goto
<1>9. ASSUME NEW c \in CPUs, NEW p \in Slots, ForkParent(c, p)
     PROVE ScanSound'
  BY <1>9 DEF ForkParent, At, Goto
<1>10. ASSUME NEW c \in CPUs, NEW p \in Slots, ForkRun(c, p) PROVE ScanSound'
  BY <1>10 DEF ForkRun, At, Return, Goto
<1>11. ASSUME NEW c \in CPUs, NEW p \in Slots, Wait(c, p) PROVE ScanSound'
  BY <1>11 DEF Wait, WaitAcquire, WaitSkip, WaitLiveChild, WaitReap,
    WaitCopyoutFails, WaitNothing, WaitDecide, sleep, At, Goto, WaitScanAt,
    freeproc, Return, sched
<1>12. ASSUME NEW c \in CPUs, NEW p \in Slots, Exit(c, p) PROVE ScanSound'
  BY <1>12 DEF Exit, ExitPanic, ExitAcquire, ReparentSkip, ReparentChild,
    ReparentDone, ReparentWakeup, ReparentWakeupDone, ExitWakeup,
    ExitWakeupDone, ExitZombie, At, Goto, wakeup, sched
<1>13. ASSUME NEW c \in CPUs, NEW p \in Slots, Kill(c, p) PROVE ScanSound'
  BY <1>13 DEF Kill, KillNext, KillFound, KillNone, At, Return, Goto
<1> QED BY <1>1, <1>2, <1>3, <1>4, <1>5, <1>6, <1>7, <1>8, <1>9, <1>10, <1>11,
    <1>12, <1>13 DEF Next, Kernel, User, Fork, Wait, Exit, Kill

(* kfork() sets the parent before the child becomes RUNNABLE. *)
LEMMA ParentStep == ASSUME TypeOK, CpuInv, ForkInv, ParentInv, Next
  PROVE ParentInv'
<1> USE SlotFacts
    DEF TypeOK, CpuInv, ForkInv, ChildPCs, ParentInv, tableVars, lockVars,
        cpuVars, localVars
<1>1. ASSUME NEW c \in CPUs, SchedBack(c) PROVE ParentInv'
  BY <1>1 DEF SchedBack
<1>2. ASSUME NEW c \in CPUs, NEW p \in Slots, Dispatch(c, p) PROVE ParentInv'
  BY <1>2 DEF Dispatch
<1>3. ASSUME NEW c \in CPUs, NEW p \in Slots,
            YieldResume(c, p) \/ ForkretResume(c, p) \/ SleepResume(c, p)
     PROVE  ParentInv'
  BY <1>3 DEF YieldResume, ForkretResume, SleepResume, Resumed, Goto
<1>4. ASSUME NEW c \in CPUs, NEW p \in Slots, User(c, p) PROVE ParentInv'
  BY <1>4 DEF User, CallFork, CallWait, CallExit, CallKill, KilledTrap, yield,
    Syscall, At, Goto, sched
<1>5. ASSUME NEW c \in CPUs, NEW p \in Slots, Fork(c, p) PROVE ParentInv'
  BY <1>5 DEF Fork, AllocNext, AllocNone, AllocFound, AllocFail, ForkParent,
    ForkRun, At, Return, Goto, freeproc
<1>6. ASSUME NEW c \in CPUs, NEW p \in Slots, Wait(c, p) PROVE ParentInv'
  BY <1>6 DEF Wait, WaitAcquire, WaitSkip, WaitLiveChild, WaitReap,
    WaitCopyoutFails, WaitNothing, WaitDecide, sleep, At, Goto, WaitScanAt,
    freeproc, Return, sched
<1>7. ASSUME NEW c \in CPUs, NEW p \in Slots, Exit(c, p) PROVE ParentInv'
  BY <1>7 DEF Exit, ExitPanic, ExitAcquire, ReparentSkip, ReparentChild,
    ReparentDone, ReparentWakeup, ReparentWakeupDone, ExitWakeup,
    ExitWakeupDone, ExitZombie, At, Goto, wakeup, sched
<1>8. ASSUME NEW c \in CPUs, NEW p \in Slots, Kill(c, p) PROVE ParentInv'
  BY <1>8 DEF Kill, KillNext, KillFound, KillNone, At, Return, Goto
<1> QED BY <1>1, <1>2, <1>3, <1>4, <1>5, <1>6, <1>7, <1>8 DEF Next, Kernel,
    User, Fork, Wait, Exit, Kill

(* A process becomes a ZOMBIE only after it has lost its children. *)
LEMMA AliveStep == ASSUME TypeOK, CpuInv, PLockInv, ForkInv, AliveInv,
    ExitInv, Next
  PROVE AliveInv'
<1> USE SlotFacts
    DEF TypeOK, CpuInv, PLockInv, ForkInv, ChildPCs, AliveInv, ExitInv,
        ExitPCs, Alive, tableVars, lockVars, cpuVars, localVars
<1>1. ASSUME NEW c \in CPUs, SchedBack(c) PROVE AliveInv'
  BY <1>1 DEF SchedBack
<1>2. ASSUME NEW c \in CPUs, NEW p \in Slots, Dispatch(c, p) PROVE AliveInv'
  BY <1>2 DEF Dispatch
<1>3. ASSUME NEW c \in CPUs, NEW p \in Slots,
            YieldResume(c, p) \/ ForkretResume(c, p) \/ SleepResume(c, p)
     PROVE  AliveInv'
  BY <1>3 DEF YieldResume, ForkretResume, SleepResume, Resumed, Goto
<1>4. ASSUME NEW c \in CPUs, NEW p \in Slots, User(c, p) PROVE AliveInv'
  BY <1>4 DEF User, CallFork, CallWait, CallExit, CallKill, KilledTrap, yield,
    Syscall, At, Goto, sched
<1>5. ASSUME NEW c \in CPUs, NEW p \in Slots, AllocNext(c, p) PROVE AliveInv'
  BY <1>5 DEF AllocNext, At
<1>6. ASSUME NEW c \in CPUs, NEW p \in Slots, AllocNone(c, p) PROVE AliveInv'
  BY <1>6 DEF AllocNone, At, Return, Goto
<1>7. ASSUME NEW c \in CPUs, NEW p \in Slots, AllocFound(c, p) PROVE AliveInv'
  BY <1>7 DEF AllocFound, At
<1>8. ASSUME NEW c \in CPUs, NEW p \in Slots, AllocFail(c, p) PROVE AliveInv'
  BY <1>8 DEF AllocFail, At, freeproc, Return, Goto
<1>9. ASSUME NEW c \in CPUs, NEW p \in Slots, ForkParent(c, p) PROVE AliveInv'
  BY <1>9 DEF ForkParent, At, Goto
<1>10. ASSUME NEW c \in CPUs, NEW p \in Slots, ForkRun(c, p) PROVE AliveInv'
  BY <1>10 DEF ForkRun, At, Return, Goto
<1>11. ASSUME NEW c \in CPUs, NEW p \in Slots, WaitAcquire(c, p)
      PROVE AliveInv'
  BY <1>11 DEF WaitAcquire, At, Goto
<1>12. ASSUME NEW c \in CPUs, NEW p \in Slots, WaitSkip(c, p) PROVE AliveInv'
  BY <1>12 DEF WaitSkip, WaitScanAt, At
<1>13. ASSUME NEW c \in CPUs, NEW p \in Slots, WaitLiveChild(c, p)
      PROVE AliveInv'
  BY <1>13 DEF WaitLiveChild, WaitScanAt, At
<1>14. ASSUME NEW c \in CPUs, NEW p \in Slots, WaitReap(c, p) PROVE AliveInv'
  BY <1>14 DEF WaitReap, WaitScanAt, At, freeproc
<1>15. ASSUME NEW c \in CPUs, NEW p \in Slots, WaitCopyoutFails(c, p)
      PROVE AliveInv'
  BY <1>15 DEF WaitCopyoutFails, WaitScanAt, At, Return, Goto
<1>16. ASSUME NEW c \in CPUs, NEW p \in Slots, WaitNothing(c, p)
      PROVE AliveInv'
  BY <1>16 DEF WaitNothing, At, Return, Goto
<1>17. ASSUME NEW c \in CPUs, NEW p \in Slots, WaitDecide(c, p)
      PROVE AliveInv'
  BY <1>17 DEF WaitDecide, At, Goto
<1>18. ASSUME NEW c \in CPUs, NEW p \in Slots, sleep(c, p) PROVE AliveInv'
  BY <1>18 DEF sleep, At, sched, Goto
<1>19. ASSUME NEW c \in CPUs, NEW p \in Slots, ExitPanic(c, p) PROVE AliveInv'
  BY <1>19 DEF ExitPanic, At, Goto
<1>20. ASSUME NEW c \in CPUs, NEW p \in Slots, ExitAcquire(c, p)
      PROVE AliveInv'
  BY <1>20 DEF ExitAcquire, At, Goto
<1>21. ASSUME NEW c \in CPUs, NEW p \in Slots, ReparentSkip(c, p)
      PROVE AliveInv'
  BY <1>21 DEF ReparentSkip, At
<1>22. ASSUME NEW c \in CPUs, NEW p \in Slots, ReparentChild(c, p)
      PROVE AliveInv'
  BY <1>22 DEF ReparentChild, At, Goto
<1>23. ASSUME NEW c \in CPUs, NEW p \in Slots, ReparentDone(c, p)
      PROVE AliveInv'
  BY <1>23 DEF ReparentDone, At, Goto
<1>24. ASSUME NEW c \in CPUs, NEW p \in Slots, ReparentWakeup(c, p)
      PROVE AliveInv'
  BY <1>24 DEF ReparentWakeup, At, wakeup
<1>25. ASSUME NEW c \in CPUs, NEW p \in Slots, ReparentWakeupDone(c, p)
      PROVE AliveInv'
  BY <1>25 DEF ReparentWakeupDone, At, Goto
<1>26. ASSUME NEW c \in CPUs, NEW p \in Slots, ExitWakeup(c, p)
      PROVE AliveInv'
  BY <1>26 DEF ExitWakeup, At, wakeup
<1>27. ASSUME NEW c \in CPUs, NEW p \in Slots, ExitWakeupDone(c, p)
      PROVE AliveInv'
  BY <1>27 DEF ExitWakeupDone, At, Goto
<1>28. ASSUME NEW c \in CPUs, NEW p \in Slots, ExitZombie(c, p)
      PROVE AliveInv'
  BY <1>28 DEF ExitZombie, At, sched, Goto
<1>29. ASSUME NEW c \in CPUs, NEW p \in Slots, Kill(c, p) PROVE AliveInv'
  BY <1>29 DEF Kill, KillNext, KillFound, KillNone, At, Return, Goto
<1> QED BY <1>1, <1>2, <1>3, <1>4, <1>5, <1>6, <1>7, <1>8, <1>9, <1>10, <1>11,
    <1>12, <1>13, <1>14, <1>15, <1>16, <1>17, <1>18, <1>19, <1>20, <1>21,
    <1>22, <1>23, <1>24, <1>25, <1>26, <1>27, <1>28, <1>29 DEF Next, Kernel,
    User, Fork, Wait, Exit, Kill

(* Under wait_lock no child is added behind the index of reparent(). *)
LEMMA ExitStep == ASSUME TypeOK, LoopInv, CpuInv, WaitLockInv, ExitInv, Next
  PROVE ExitInv'
<1> USE SlotFacts, SlotRange
    DEF TypeOK, LoopInv, CpuInv, WaitLockInv, WaitLockPCs, ExitInv, ExitPCs,
        tableVars, lockVars, cpuVars, localVars
<1>1. ASSUME NEW c \in CPUs, SchedBack(c) PROVE ExitInv'
  BY <1>1 DEF SchedBack
<1>2. ASSUME NEW c \in CPUs, NEW p \in Slots, Dispatch(c, p) PROVE ExitInv'
  BY <1>2 DEF Dispatch
<1>3. ASSUME NEW c \in CPUs, NEW p \in Slots,
            YieldResume(c, p) \/ ForkretResume(c, p) \/ SleepResume(c, p)
     PROVE  ExitInv'
  BY <1>3 DEF YieldResume, ForkretResume, SleepResume, Resumed, Goto
<1>4. ASSUME NEW c \in CPUs, NEW p \in Slots, User(c, p) PROVE ExitInv'
  BY <1>4 DEF User, CallFork, CallWait, CallExit, CallKill, KilledTrap, yield,
    Syscall, At, Goto, sched
<1>5. ASSUME NEW c \in CPUs, NEW p \in Slots, Fork(c, p) PROVE ExitInv'
  BY <1>5 DEF Fork, AllocNext, AllocNone, AllocFound, AllocFail, ForkParent,
    ForkRun, At, Return, Goto, freeproc
<1>6. ASSUME NEW c \in CPUs, NEW p \in Slots, Wait(c, p) PROVE ExitInv'
  BY <1>6 DEF Wait, WaitAcquire, WaitSkip, WaitLiveChild, WaitReap,
    WaitCopyoutFails, WaitNothing, WaitDecide, sleep, At, Goto, WaitScanAt,
    freeproc, Return, sched
<1>7. ASSUME NEW c \in CPUs, NEW p \in Slots, ExitPanic(c, p) PROVE ExitInv'
  BY <1>7 DEF ExitPanic, At, Goto
<1>8. ASSUME NEW c \in CPUs, NEW p \in Slots, ExitAcquire(c, p) PROVE ExitInv'
  BY <1>8 DEF ExitAcquire, At, Goto
<1>9. ASSUME NEW c \in CPUs, NEW p \in Slots, ReparentSkip(c, p)
     PROVE ExitInv'
  <2>1. \A i \in Slots : i < idx[p] + 1 => i < idx[p] \/ i = idx[p]
    OBVIOUS
  <2>2. /\ idx' = [idx EXCEPT ![p] = idx[p] + 1]
        /\ pc[p] = "reparent" /\ parent[idx[p]] # p
        /\ UNCHANGED <<pc, parent>>
    BY <1>9 DEF ReparentSkip, At
  <2> QED BY <2>1, <2>2
<1>10. ASSUME NEW c \in CPUs, NEW p \in Slots, ReparentChild(c, p)
      PROVE ExitInv'
  BY <1>10 DEF ReparentChild, At, Goto
<1>11. ASSUME NEW c \in CPUs, NEW p \in Slots, ReparentDone(c, p)
      PROVE ExitInv'
  BY <1>11 DEF ReparentDone, At, Goto
<1>12. ASSUME NEW c \in CPUs, NEW p \in Slots, ReparentWakeup(c, p)
      PROVE ExitInv'
  BY <1>12 DEF ReparentWakeup, At, wakeup
<1>13. ASSUME NEW c \in CPUs, NEW p \in Slots, ReparentWakeupDone(c, p)
      PROVE ExitInv'
  BY <1>13 DEF ReparentWakeupDone, At, Goto
<1>14. ASSUME NEW c \in CPUs, NEW p \in Slots, ExitWakeup(c, p) PROVE ExitInv'
  BY <1>14 DEF ExitWakeup, At, wakeup
<1>15. ASSUME NEW c \in CPUs, NEW p \in Slots, ExitWakeupDone(c, p)
      PROVE ExitInv'
  BY <1>15 DEF ExitWakeupDone, At, Goto
<1>16. ASSUME NEW c \in CPUs, NEW p \in Slots, ExitZombie(c, p) PROVE ExitInv'
  BY <1>16 DEF ExitZombie, At, sched, Goto
<1>17. ASSUME NEW c \in CPUs, NEW p \in Slots, Kill(c, p) PROVE ExitInv'
  BY <1>17 DEF Kill, KillNext, KillFound, KillNone, At, Return, Goto
<1> QED BY <1>1, <1>2, <1>3, <1>4, <1>5, <1>6, <1>7, <1>8, <1>9, <1>10, <1>11,
    <1>12, <1>13, <1>14, <1>15, <1>16, <1>17 DEF Next, Kernel, User, Fork,
    Wait, Exit, Kill

(* chan is set together with SLEEPING, and cleared by the sleeper. *)
LEMMA ChanStep == ASSUME TypeOK, CpuInv, ChanInv, Next
  PROVE ChanInv'
<1> USE SlotFacts
    DEF TypeOK, CpuInv, ChanInv, tableVars, lockVars, cpuVars, localVars
<1>1. ASSUME NEW c \in CPUs, SchedBack(c) PROVE ChanInv'
  BY <1>1 DEF SchedBack
<1>2. ASSUME NEW c \in CPUs, NEW p \in Slots, Dispatch(c, p) PROVE ChanInv'
  BY <1>2 DEF Dispatch
<1>3. ASSUME NEW c \in CPUs, NEW p \in Slots,
            YieldResume(c, p) \/ ForkretResume(c, p) \/ SleepResume(c, p)
     PROVE  ChanInv'
  BY <1>3 DEF YieldResume, ForkretResume, SleepResume, Resumed, Goto
<1>4. ASSUME NEW c \in CPUs, NEW p \in Slots, User(c, p) PROVE ChanInv'
  BY <1>4 DEF User, CallFork, CallWait, CallExit, CallKill, KilledTrap, yield,
    Syscall, At, Goto, sched
<1>5. ASSUME NEW c \in CPUs, NEW p \in Slots, Fork(c, p) PROVE ChanInv'
  BY <1>5 DEF Fork, AllocNext, AllocNone, AllocFound, AllocFail, ForkParent,
    ForkRun, At, Return, Goto, freeproc
<1>6. ASSUME NEW c \in CPUs, NEW p \in Slots, Wait(c, p) PROVE ChanInv'
  BY <1>6 DEF Wait, WaitAcquire, WaitSkip, WaitLiveChild, WaitReap,
    WaitCopyoutFails, WaitNothing, WaitDecide, sleep, At, Goto, WaitScanAt,
    freeproc, Return, sched
<1>7. ASSUME NEW c \in CPUs, NEW p \in Slots, Exit(c, p) PROVE ChanInv'
  BY <1>7 DEF Exit, ExitPanic, ExitAcquire, ReparentSkip, ReparentChild,
    ReparentDone, ReparentWakeup, ReparentWakeupDone, ExitWakeup,
    ExitWakeupDone, ExitZombie, At, Goto, wakeup, sched
<1>8. ASSUME NEW c \in CPUs, NEW p \in Slots, Kill(c, p) PROVE ChanInv'
  BY <1>8 DEF Kill, KillNext, KillFound, KillNone, At, Return, Goto
<1> QED BY <1>1, <1>2, <1>3, <1>4, <1>5, <1>6, <1>7, <1>8 DEF Next, Kernel,
    User, Fork, Wait, Exit, Kill

(* The parent cannot go back to sleep: that takes wait_lock. *)
LEMMA WakeStep == ASSUME TypeOK, CpuInv, WaitLockInv, ParentInv, ExitInv,
    ChanInv, WakeInv, Next
  PROVE WakeInv'
<1> USE SlotFacts, SlotRange
    DEF TypeOK, CpuInv, WaitLockInv, WaitLockPCs, ParentInv, ExitInv, ExitPCs,
        ChanInv, WakeInv, tableVars, lockVars, cpuVars, localVars
<1>1. ASSUME NEW c \in CPUs, SchedBack(c) PROVE WakeInv'
  BY <1>1 DEF SchedBack
<1>2. ASSUME NEW c \in CPUs, NEW p \in Slots, Dispatch(c, p) PROVE WakeInv'
  BY <1>2 DEF Dispatch
<1>3. ASSUME NEW c \in CPUs, NEW p \in Slots,
            YieldResume(c, p) \/ ForkretResume(c, p) \/ SleepResume(c, p)
     PROVE  WakeInv'
  BY <1>3 DEF YieldResume, ForkretResume, SleepResume, Resumed, Goto
<1>4. ASSUME NEW c \in CPUs, NEW p \in Slots, CallFork(c, p) PROVE WakeInv'
  BY <1>4 DEF CallFork, Syscall, At, Goto
<1>5. ASSUME NEW c \in CPUs, NEW p \in Slots, CallWait(c, p) PROVE WakeInv'
  BY <1>5 DEF CallWait, Syscall, At, Goto
<1>6. ASSUME NEW c \in CPUs, NEW p \in Slots, CallExit(c, p) PROVE WakeInv'
  BY <1>6 DEF CallExit, Syscall, At, Goto
<1>7. ASSUME NEW c \in CPUs, NEW p \in Slots, CallKill(c, p) PROVE WakeInv'
  BY <1>7 DEF CallKill, Syscall, At, Goto
<1>8. ASSUME NEW c \in CPUs, NEW p \in Slots, KilledTrap(c, p) PROVE WakeInv'
  BY <1>8 DEF KilledTrap, At, Goto
<1>9. ASSUME NEW c \in CPUs, NEW p \in Slots, yield(c, p) PROVE WakeInv'
  BY <1>9 DEF yield, sched
<1>10. ASSUME NEW c \in CPUs, NEW p \in Slots, AllocNext(c, p) PROVE WakeInv'
  BY <1>10 DEF AllocNext, At
<1>11. ASSUME NEW c \in CPUs, NEW p \in Slots, AllocNone(c, p) PROVE WakeInv'
  BY <1>11 DEF AllocNone, At, Return, Goto
<1>12. ASSUME NEW c \in CPUs, NEW p \in Slots, AllocFound(c, p) PROVE WakeInv'
  BY <1>12 DEF AllocFound, At
<1>13. ASSUME NEW c \in CPUs, NEW p \in Slots, AllocFail(c, p) PROVE WakeInv'
  BY <1>13 DEF AllocFail, At, freeproc, Return, Goto
<1>14. ASSUME NEW c \in CPUs, NEW p \in Slots, ForkParent(c, p) PROVE WakeInv'
  BY <1>14 DEF ForkParent, At, Goto
<1>15. ASSUME NEW c \in CPUs, NEW p \in Slots, ForkRun(c, p) PROVE WakeInv'
  BY <1>15 DEF ForkRun, At, Return, Goto
<1>16. ASSUME NEW c \in CPUs, NEW p \in Slots, WaitAcquire(c, p)
      PROVE WakeInv'
  BY <1>16 DEF WaitAcquire, At, Goto
<1>17. ASSUME NEW c \in CPUs, NEW p \in Slots, WaitSkip(c, p) PROVE WakeInv'
  BY <1>17 DEF WaitSkip, WaitScanAt, At
<1>18. ASSUME NEW c \in CPUs, NEW p \in Slots, WaitLiveChild(c, p)
      PROVE WakeInv'
  BY <1>18 DEF WaitLiveChild, WaitScanAt, At
<1>19. ASSUME NEW c \in CPUs, NEW p \in Slots, WaitReap(c, p) PROVE WakeInv'
  BY <1>19 DEF WaitReap, WaitScanAt, At, freeproc
<1>20. ASSUME NEW c \in CPUs, NEW p \in Slots, WaitCopyoutFails(c, p)
      PROVE WakeInv'
  BY <1>20 DEF WaitCopyoutFails, WaitScanAt, At, Return, Goto
<1>21. ASSUME NEW c \in CPUs, NEW p \in Slots, WaitNothing(c, p)
      PROVE WakeInv'
  BY <1>21 DEF WaitNothing, At, Return, Goto
<1>22. ASSUME NEW c \in CPUs, NEW p \in Slots, WaitDecide(c, p) PROVE WakeInv'
  BY <1>22 DEF WaitDecide, At, Goto
<1>23. ASSUME NEW c \in CPUs, NEW p \in Slots, sleep(c, p) PROVE WakeInv'
  BY <1>23 DEF sleep, At, sched, Goto
<1>24. ASSUME NEW c \in CPUs, NEW p \in Slots, ExitPanic(c, p) PROVE WakeInv'
  BY <1>24 DEF ExitPanic, At, Goto
<1>25. ASSUME NEW c \in CPUs, NEW p \in Slots, ExitAcquire(c, p)
      PROVE WakeInv'
  BY <1>25 DEF ExitAcquire, At, Goto
<1>26. ASSUME NEW c \in CPUs, NEW p \in Slots, ReparentSkip(c, p)
      PROVE WakeInv'
  BY <1>26 DEF ReparentSkip, At
<1>27. ASSUME NEW c \in CPUs, NEW p \in Slots, ReparentChild(c, p)
      PROVE WakeInv'
  BY <1>27 DEF ReparentChild, At, Goto
<1>28. ASSUME NEW c \in CPUs, NEW p \in Slots, ReparentDone(c, p)
      PROVE WakeInv'
  BY <1>28 DEF ReparentDone, At, Goto
<1>29. ASSUME NEW c \in CPUs, NEW p \in Slots, ReparentWakeup(c, p)
      PROVE WakeInv'
  BY <1>29 DEF ReparentWakeup, At, wakeup
<1>30. ASSUME NEW c \in CPUs, NEW p \in Slots, ReparentWakeupDone(c, p)
      PROVE WakeInv'
  BY <1>30 DEF ReparentWakeupDone, At, Goto
<1>31. ASSUME NEW c \in CPUs, NEW p \in Slots, ExitWakeup(c, p) PROVE WakeInv'
  <2>1. \A i \in Slots : widx[p] + 1 > i => widx[p] > i \/ widx[p] = i
    OBVIOUS
  <2>2. \A i \in Slots : state'[i] = "SLEEPING" => state[i] = "SLEEPING"
    BY <1>31 DEF ExitWakeup, At, wakeup
  <2>3. ASSUME widx[p] = parent[p] PROVE state'[parent[p]] # "SLEEPING"
    BY <1>31, <2>3 DEF ExitWakeup, At, wakeup
  <2>4. /\ pc[p] = "exit_wakeup" /\ widx' = [widx EXCEPT ![p] = widx[p] + 1]
        /\ UNCHANGED <<pc, parent>>
    BY <1>31 DEF ExitWakeup, At, wakeup
  <2> QED BY <2>1, <2>2, <2>3, <2>4
<1>32. ASSUME NEW c \in CPUs, NEW p \in Slots, ExitWakeupDone(c, p)
      PROVE WakeInv'
  BY <1>32 DEF ExitWakeupDone, At, Goto
<1>33. ASSUME NEW c \in CPUs, NEW p \in Slots, ExitZombie(c, p) PROVE WakeInv'
  BY <1>33 DEF ExitZombie, At, sched, Goto
<1>34. ASSUME NEW c \in CPUs, NEW p \in Slots, Kill(c, p) PROVE WakeInv'
  BY <1>34 DEF Kill, KillNext, KillFound, KillNone, At, Return, Goto
<1> QED BY <1>1, <1>2, <1>3, <1>4, <1>5, <1>6, <1>7, <1>8, <1>9, <1>10, <1>11,
    <1>12, <1>13, <1>14, <1>15, <1>16, <1>17, <1>18, <1>19, <1>20, <1>21,
    <1>22, <1>23, <1>24, <1>25, <1>26, <1>27, <1>28, <1>29, <1>30, <1>31,
    <1>32, <1>33, <1>34 DEF Next, Kernel, User, Fork, Wait, Exit, Kill

(* A child can exit only under wait_lock, which its parent holds from the
   start of its scan until it sleeps. *)
LEMMA ZombieStep == ASSUME TypeOK, CpuInv, WaitLockInv, ParentInv, ExitInv,
    ChanInv, WakeInv, ZombieInv, Next
  PROVE ZombieInv'
<1> USE SlotFacts, SlotRange
    DEF TypeOK, CpuInv, WaitLockInv, WaitLockPCs, ParentInv, ExitInv, ExitPCs,
        ChanInv, WakeInv, ZombieInv, tableVars, lockVars, cpuVars, localVars
<1>1. ASSUME NEW c \in CPUs, SchedBack(c) PROVE ZombieInv'
  BY <1>1 DEF SchedBack
<1>2. ASSUME NEW c \in CPUs, NEW p \in Slots, Dispatch(c, p) PROVE ZombieInv'
  BY <1>2 DEF Dispatch
<1>3. ASSUME NEW c \in CPUs, NEW p \in Slots,
            YieldResume(c, p) \/ ForkretResume(c, p) \/ SleepResume(c, p)
     PROVE  ZombieInv'
  BY <1>3 DEF YieldResume, ForkretResume, SleepResume, Resumed, Goto
<1>4. ASSUME NEW c \in CPUs, NEW p \in Slots, User(c, p) PROVE ZombieInv'
  BY <1>4 DEF User, CallFork, CallWait, CallExit, CallKill, KilledTrap, yield,
    Syscall, At, Goto, sched
<1>5. ASSUME NEW c \in CPUs, NEW p \in Slots, Fork(c, p) PROVE ZombieInv'
  BY <1>5 DEF Fork, AllocNext, AllocNone, AllocFound, AllocFail, ForkParent,
    ForkRun, At, Return, Goto, freeproc
<1>6. ASSUME NEW c \in CPUs, NEW p \in Slots, WaitAcquire(c, p)
     PROVE ZombieInv'
  BY <1>6 DEF WaitAcquire, At, Goto
<1>7. ASSUME NEW c \in CPUs, NEW p \in Slots, WaitSkip(c, p) PROVE ZombieInv'
  <2>1. ASSUME NEW i \in Slots, i >= idx[p], i # idx[p] PROVE i >= idx[p] + 1
    <3>1. i \in Int /\ idx[p] \in Int
      OBVIOUS
    <3> QED BY <2>1, <3>1
  <2>2. /\ idx' = [idx EXCEPT ![p] = idx[p] + 1]
        /\ pc[p] = "wait_scan" /\ parent[idx[p]] # p
        /\ UNCHANGED <<pc, parent, state, widx>>
    BY <1>7 DEF WaitSkip, WaitScanAt, At
  <2> QED BY <2>1, <2>2
<1>8. ASSUME NEW c \in CPUs, NEW p \in Slots, WaitLiveChild(c, p)
     PROVE ZombieInv'
  BY <1>8 DEF WaitLiveChild, WaitScanAt, At
<1>9. ASSUME NEW c \in CPUs, NEW p \in Slots, WaitReap(c, p) PROVE ZombieInv'
  BY <1>9 DEF WaitReap, WaitScanAt, At, freeproc
<1>10. ASSUME NEW c \in CPUs, NEW p \in Slots, WaitCopyoutFails(c, p)
      PROVE ZombieInv'
  BY <1>10 DEF WaitCopyoutFails, WaitScanAt, At, Return, Goto
<1>11. ASSUME NEW c \in CPUs, NEW p \in Slots, WaitNothing(c, p)
      PROVE ZombieInv'
  BY <1>11 DEF WaitNothing, At, Return, Goto
<1>12. ASSUME NEW c \in CPUs, NEW p \in Slots, WaitDecide(c, p)
      PROVE ZombieInv'
  BY <1>12 DEF WaitDecide, At, Goto
<1>13. ASSUME NEW c \in CPUs, NEW p \in Slots, sleep(c, p) PROVE ZombieInv'
  BY <1>13 DEF sleep, At, sched, Goto
<1>14. ASSUME NEW c \in CPUs, NEW p \in Slots, ExitPanic(c, p)
      PROVE ZombieInv'
  BY <1>14 DEF ExitPanic, At, Goto
<1>15. ASSUME NEW c \in CPUs, NEW p \in Slots, ExitAcquire(c, p)
      PROVE ZombieInv'
  BY <1>15 DEF ExitAcquire, At, Goto
<1>16. ASSUME NEW c \in CPUs, NEW p \in Slots, ReparentSkip(c, p)
      PROVE ZombieInv'
  BY <1>16 DEF ReparentSkip, At
<1>17. ASSUME NEW c \in CPUs, NEW p \in Slots, ReparentChild(c, p)
      PROVE ZombieInv'
  BY <1>17 DEF ReparentChild, At, Goto
<1>18. ASSUME NEW c \in CPUs, NEW p \in Slots, ReparentDone(c, p)
      PROVE ZombieInv'
  BY <1>18 DEF ReparentDone, At, Goto
<1>19. ASSUME NEW c \in CPUs, NEW p \in Slots, ReparentWakeup(c, p)
      PROVE ZombieInv'
  BY <1>19 DEF ReparentWakeup, At, wakeup
<1>20. ASSUME NEW c \in CPUs, NEW p \in Slots, ReparentWakeupDone(c, p)
      PROVE ZombieInv'
  BY <1>20 DEF ReparentWakeupDone, At, Goto
<1>21. ASSUME NEW c \in CPUs, NEW p \in Slots, ExitWakeup(c, p)
      PROVE ZombieInv'
  BY <1>21 DEF ExitWakeup, At, wakeup
<1>22. ASSUME NEW c \in CPUs, NEW p \in Slots, ExitWakeupDone(c, p)
      PROVE ZombieInv'
  BY <1>22 DEF ExitWakeupDone, At, Goto
<1>23. ASSUME NEW c \in CPUs, NEW p \in Slots, ExitZombie(c, p)
      PROVE ZombieInv'
  BY <1>23 DEF ExitZombie, At, sched, Goto
<1>24. ASSUME NEW c \in CPUs, NEW p \in Slots, Kill(c, p) PROVE ZombieInv'
  BY <1>24 DEF Kill, KillNext, KillFound, KillNone, At, Return, Goto
<1> QED BY <1>1, <1>2, <1>3, <1>4, <1>5, <1>6, <1>7, <1>8, <1>9, <1>10, <1>11,
    <1>12, <1>13, <1>14, <1>15, <1>16, <1>17, <1>18, <1>19, <1>20, <1>21,
    <1>22, <1>23, <1>24 DEF Next, Kernel, User, Fork, Wait, Exit, Kill

-----------------------------------------------------------------------------
(* The invariant, and the safety properties it implies.                    *)

(* Every step of the specification keeps the invariant. *)
LEMMA InvStep == IInv /\ [Next]_vars => IInv'
<1> SUFFICES ASSUME IInv, [Next]_vars PROVE IInv'
  OBVIOUS
<1>1. CASE Next
  BY <1>1, TypeStep, LoopStep, CpuStep, PLockStep, WaitLockStep, ForkStep,
     PidsStep, ScanStep, ParentStep, AliveStep, ExitStep, ChanStep, WakeStep,
     ZombieStep DEF IInv
<1>2. CASE UNCHANGED vars
  BY <1>2 DEF IInv, TypeOK, LoopInv, CpuInv, PLockInv, WaitLockInv, ForkInv,
     PidsUnique, ScanSound, ParentInv, AliveInv, ExitInv, ChanInv, WakeInv,
     ZombieInv, vars, tableVars, lockVars, cpuVars, localVars
<1> QED BY <1>1, <1>2

(* IInv holds in every reachable state. *)
THEOREM Invariance == Spec => []IInv
  BY InitIInv, InvStep, PTL DEF Spec

(* Every variable keeps its type, whatever the kernel and its users do. *)
THEOREM TypeCorrect == Spec => []TypeOK
<1>1. IInv => TypeOK
  BY DEF IInv
<1> QED BY <1>1, Invariance, PTL

(* No panic of sched() is reachable: a process enters the scheduler with   *)
(* its own lock held, no other one, and no longer RUNNING.                 *)
THEOREM SchedSafe == Spec => []SchedChecks
<1>1. IInv => SchedChecks
  BY SlotFacts DEF IInv, TypeOK, CpuInv, PLockInv, WaitLockInv, SchedChecks
<1> QED BY <1>1, Invariance, PTL

(* A kernel stack in use is neither shared by two CPUs nor freed. *)
THEOREM StackSafe == Spec => []StackInUse
<1>1. IInv => StackInUse
  BY DEF IInv, TypeOK, Modes, CpuInv, StackInUse
<1> QED BY <1>1, Invariance, PTL

(* No two processes share a pid. *)
THEOREM PidsSafe == Spec => []PidsUnique
<1>1. IInv => PidsUnique
  BY DEF IInv
<1> QED BY <1>1, Invariance, PTL

(* wait() fails for want of children only when there are none. *)
THEOREM ScanSafe == Spec => []ScanSound
<1>1. IInv => ScanSound
  BY DEF IInv
<1> QED BY <1>1, Invariance, PTL

(* Every process but init has a parent that is alive. *)
THEOREM NoOrphansSafe == Spec => []NoOrphans
<1>1. IInv => NoOrphans
  BY DEF IInv, ParentInv, AliveInv, Alive, NoOrphans
<1> QED BY <1>1, Invariance, PTL

(* With wait_lock free no parent sleeps on an exited child. *)
THEOREM WakeupSafe == Spec => []NoLostWakeup
<1>1. IInv => NoLostWakeup
  BY DEF IInv, WaitLockInv, WaitLockPCs, ZombieInv, NoLostWakeup
<1> QED BY <1>1, Invariance, PTL

-----------------------------------------------------------------------------
(* An exited process is removed by its parent and by nobody else. *)

Reaped ==
  \A i \in Slots :
    state[i] = "ZOMBIE" /\ state'[i] # "ZOMBIE" =>
      /\ state'[i] = "UNUSED"
      /\ \E c \in CPUs : /\ wait_lock = c
                         /\ cproc[c] = parent[i]
                         /\ pc[parent[i]] = "wait_scan"

(* Only WaitReap changes a ZOMBIE; its caller holds wait_lock. *)
LEMMA ReapStep == ASSUME IInv, Next PROVE Reaped
<1> USE SlotFacts
    DEF IInv, TypeOK, CpuInv, WaitLockInv, WaitLockPCs, ForkInv, ChildPCs,
        Reaped, tableVars, lockVars, cpuVars, localVars
<1>1. ASSUME NEW c \in CPUs, SchedBack(c) PROVE Reaped
  BY <1>1 DEF SchedBack
<1>2. ASSUME NEW c \in CPUs, NEW p \in Slots, Dispatch(c, p) PROVE Reaped
  BY <1>2 DEF Dispatch
<1>3. ASSUME NEW c \in CPUs, NEW p \in Slots,
            YieldResume(c, p) \/ ForkretResume(c, p) \/ SleepResume(c, p)
     PROVE  Reaped
  BY <1>3 DEF YieldResume, ForkretResume, SleepResume, Resumed, Goto
<1>4. ASSUME NEW c \in CPUs, NEW p \in Slots, User(c, p) PROVE Reaped
  BY <1>4 DEF User, CallFork, CallWait, CallExit, CallKill, KilledTrap, yield,
    Syscall, At, Goto, sched
<1>5. ASSUME NEW c \in CPUs, NEW p \in Slots, AllocNext(c, p) PROVE Reaped
  BY <1>5 DEF AllocNext, At
<1>6. ASSUME NEW c \in CPUs, NEW p \in Slots, AllocNone(c, p) PROVE Reaped
  BY <1>6 DEF AllocNone, At, Return, Goto
<1>7. ASSUME NEW c \in CPUs, NEW p \in Slots, AllocFound(c, p) PROVE Reaped
  BY <1>7 DEF AllocFound, At
<1>8. ASSUME NEW c \in CPUs, NEW p \in Slots, AllocFail(c, p) PROVE Reaped
  BY <1>8 DEF AllocFail, At, freeproc, Return, Goto
<1>9. ASSUME NEW c \in CPUs, NEW p \in Slots, ForkParent(c, p) PROVE Reaped
  BY <1>9 DEF ForkParent, At, Goto
<1>10. ASSUME NEW c \in CPUs, NEW p \in Slots, ForkRun(c, p) PROVE Reaped
  BY <1>10 DEF ForkRun, At, Return, Goto
<1>11. ASSUME NEW c \in CPUs, NEW p \in Slots, WaitAcquire(c, p) PROVE Reaped
  BY <1>11 DEF WaitAcquire, At, Goto
<1>12. ASSUME NEW c \in CPUs, NEW p \in Slots, WaitSkip(c, p) PROVE Reaped
  BY <1>12 DEF WaitSkip, WaitScanAt, At
<1>13. ASSUME NEW c \in CPUs, NEW p \in Slots, WaitLiveChild(c, p)
      PROVE Reaped
  BY <1>13 DEF WaitLiveChild, WaitScanAt, At
<1>14. ASSUME NEW c \in CPUs, NEW p \in Slots, WaitReap(c, p) PROVE Reaped
  BY <1>14 DEF WaitReap, WaitScanAt, At, freeproc
<1>15. ASSUME NEW c \in CPUs, NEW p \in Slots, WaitCopyoutFails(c, p)
      PROVE Reaped
  BY <1>15 DEF WaitCopyoutFails, WaitScanAt, At, Return, Goto
<1>16. ASSUME NEW c \in CPUs, NEW p \in Slots, WaitNothing(c, p) PROVE Reaped
  BY <1>16 DEF WaitNothing, At, Return, Goto
<1>17. ASSUME NEW c \in CPUs, NEW p \in Slots, WaitDecide(c, p) PROVE Reaped
  BY <1>17 DEF WaitDecide, At, Goto
<1>18. ASSUME NEW c \in CPUs, NEW p \in Slots, sleep(c, p) PROVE Reaped
  BY <1>18 DEF sleep, At, sched, Goto
<1>19. ASSUME NEW c \in CPUs, NEW p \in Slots, Exit(c, p) PROVE Reaped
  BY <1>19 DEF Exit, ExitPanic, ExitAcquire, ReparentSkip, ReparentChild,
    ReparentDone, ReparentWakeup, ReparentWakeupDone, ExitWakeup,
    ExitWakeupDone, ExitZombie, At, Goto, wakeup, sched
<1>20. ASSUME NEW c \in CPUs, NEW p \in Slots, Kill(c, p) PROVE Reaped
  BY <1>20 DEF Kill, KillNext, KillFound, KillNone, At, Return, Goto
<1> QED BY <1>1, <1>2, <1>3, <1>4, <1>5, <1>6, <1>7, <1>8, <1>9, <1>10, <1>11,
    <1>12, <1>13, <1>14, <1>15, <1>16, <1>17, <1>18, <1>19, <1>20 DEF Next,
    Kernel, User, Fork, Wait, Exit, Kill

(* A ZOMBIE leaves the table only through its parent's kwait(). *)
THEOREM ReapedSafe == Spec => ReapedByParent
<1>1. IInv /\ [Next]_vars => [Reaped]_vars
  BY ReapStep
<1> QED BY <1>1, Invariance, PTL DEF Spec, ReapedByParent, Reaped

-----------------------------------------------------------------------------
(* As long as nobody calls kill(0), a free slot is not marked killed. *)

BornInv ==
  /\ \A i \in Slots : state[i] = "UNUSED" => ~killed[i]
  /\ \A p \in Slots : pc[p] = "kill" => arg[p] \in KillPids

BornAlive ==
  \A i \in Slots : state[i] = "UNUSED" /\ state'[i] = "USED" => ~killed'[i]

(* kkill() marks only slots with a pid of KillPids, and free slots have     *)
(* pid 0.                                                                   *)
LEMMA BornStep == ASSUME IInv, BornInv, 0 \notin KillPids, Next
  PROVE BornInv' /\ BornAlive
<1> USE SlotFacts
    DEF IInv, TypeOK, CpuInv, ForkInv, ChildPCs, PidsUnique, BornInv,
        BornAlive, tableVars, lockVars, cpuVars, localVars
<1>1. ASSUME NEW c \in CPUs, SchedBack(c) PROVE BornInv' /\ BornAlive
  BY <1>1 DEF SchedBack
<1>2. ASSUME NEW c \in CPUs, NEW p \in Slots, Dispatch(c, p)
     PROVE BornInv' /\ BornAlive
  BY <1>2 DEF Dispatch
<1>3. ASSUME NEW c \in CPUs, NEW p \in Slots,
            YieldResume(c, p) \/ ForkretResume(c, p) \/ SleepResume(c, p)
     PROVE  BornInv' /\ BornAlive
  BY <1>3 DEF YieldResume, ForkretResume, SleepResume, Resumed, Goto
<1>4. ASSUME NEW c \in CPUs, NEW p \in Slots, CallFork(c, p)
     PROVE BornInv' /\ BornAlive
  BY <1>4 DEF CallFork, Syscall, At, Goto
<1>5. ASSUME NEW c \in CPUs, NEW p \in Slots, CallWait(c, p)
     PROVE BornInv' /\ BornAlive
  BY <1>5 DEF CallWait, Syscall, At, Goto
<1>6. ASSUME NEW c \in CPUs, NEW p \in Slots, CallExit(c, p)
     PROVE BornInv' /\ BornAlive
  BY <1>6 DEF CallExit, Syscall, At, Goto
<1>7. ASSUME NEW c \in CPUs, NEW p \in Slots, CallKill(c, p)
     PROVE BornInv' /\ BornAlive
  BY <1>7 DEF CallKill, Syscall, At, Goto
<1>8. ASSUME NEW c \in CPUs, NEW p \in Slots, KilledTrap(c, p)
     PROVE BornInv' /\ BornAlive
  BY <1>8 DEF KilledTrap, At, Goto
<1>9. ASSUME NEW c \in CPUs, NEW p \in Slots, yield(c, p)
     PROVE BornInv' /\ BornAlive
  BY <1>9 DEF yield, sched
<1>10. ASSUME NEW c \in CPUs, NEW p \in Slots, AllocNext(c, p)
      PROVE BornInv' /\ BornAlive
  BY <1>10 DEF AllocNext, At
<1>11. ASSUME NEW c \in CPUs, NEW p \in Slots, AllocNone(c, p)
      PROVE BornInv' /\ BornAlive
  BY <1>11 DEF AllocNone, At, Return, Goto
<1>12. ASSUME NEW c \in CPUs, NEW p \in Slots, AllocFound(c, p)
      PROVE BornInv' /\ BornAlive
  BY <1>12 DEF AllocFound, At
<1>13. ASSUME NEW c \in CPUs, NEW p \in Slots, AllocFail(c, p)
      PROVE BornInv' /\ BornAlive
  BY <1>13 DEF AllocFail, At, freeproc, Return, Goto
<1>14. ASSUME NEW c \in CPUs, NEW p \in Slots, ForkParent(c, p)
      PROVE BornInv' /\ BornAlive
  BY <1>14 DEF ForkParent, At, Goto
<1>15. ASSUME NEW c \in CPUs, NEW p \in Slots, ForkRun(c, p)
      PROVE BornInv' /\ BornAlive
  BY <1>15 DEF ForkRun, At, Return, Goto
<1>16. ASSUME NEW c \in CPUs, NEW p \in Slots, WaitAcquire(c, p)
      PROVE BornInv' /\ BornAlive
  BY <1>16 DEF WaitAcquire, At, Goto
<1>17. ASSUME NEW c \in CPUs, NEW p \in Slots, WaitSkip(c, p)
      PROVE BornInv' /\ BornAlive
  BY <1>17 DEF WaitSkip, WaitScanAt, At
<1>18. ASSUME NEW c \in CPUs, NEW p \in Slots, WaitLiveChild(c, p)
      PROVE BornInv' /\ BornAlive
  BY <1>18 DEF WaitLiveChild, WaitScanAt, At
<1>19. ASSUME NEW c \in CPUs, NEW p \in Slots, WaitReap(c, p)
      PROVE BornInv' /\ BornAlive
  BY <1>19 DEF WaitReap, WaitScanAt, At, freeproc
<1>20. ASSUME NEW c \in CPUs, NEW p \in Slots, WaitCopyoutFails(c, p)
      PROVE BornInv' /\ BornAlive
  BY <1>20 DEF WaitCopyoutFails, WaitScanAt, At, Return, Goto
<1>21. ASSUME NEW c \in CPUs, NEW p \in Slots, WaitNothing(c, p)
      PROVE BornInv' /\ BornAlive
  BY <1>21 DEF WaitNothing, At, Return, Goto
<1>22. ASSUME NEW c \in CPUs, NEW p \in Slots, WaitDecide(c, p)
      PROVE BornInv' /\ BornAlive
  BY <1>22 DEF WaitDecide, At, Goto
<1>23. ASSUME NEW c \in CPUs, NEW p \in Slots, sleep(c, p)
      PROVE BornInv' /\ BornAlive
  BY <1>23 DEF sleep, At, sched, Goto
<1>24. ASSUME NEW c \in CPUs, NEW p \in Slots, Exit(c, p)
      PROVE BornInv' /\ BornAlive
  BY <1>24 DEF Exit, ExitPanic, ExitAcquire, ReparentSkip, ReparentChild,
    ReparentDone, ReparentWakeup, ReparentWakeupDone, ExitWakeup,
    ExitWakeupDone, ExitZombie, At, Goto, wakeup, sched
<1>25. ASSUME NEW c \in CPUs, NEW p \in Slots, KillNext(c, p)
      PROVE BornInv' /\ BornAlive
  BY <1>25 DEF KillNext, At
<1>26. ASSUME NEW c \in CPUs, NEW p \in Slots, KillFound(c, p)
      PROVE BornInv' /\ BornAlive
  BY <1>26 DEF KillFound, At, Return, Goto
<1>27. ASSUME NEW c \in CPUs, NEW p \in Slots, KillNone(c, p)
      PROVE BornInv' /\ BornAlive
  BY <1>27 DEF KillNone, At, Return, Goto
<1> QED BY <1>1, <1>2, <1>3, <1>4, <1>5, <1>6, <1>7, <1>8, <1>9, <1>10, <1>11,
    <1>12, <1>13, <1>14, <1>15, <1>16, <1>17, <1>18, <1>19, <1>20, <1>21,
    <1>22, <1>23, <1>24, <1>25, <1>26, <1>27 DEF Next, Kernel, User, Fork,
    Wait, Exit, Kill

(* Unless some program calls kill(0), every process is born alive. *)
THEOREM BornSafe == ASSUME 0 \notin KillPids PROVE Spec => BornUnkilled
<1>1. Init => BornInv
  BY DEF Init, BornInv
<1>2. IInv /\ BornInv /\ [Next]_vars => BornInv'
  <2> SUFFICES ASSUME IInv, BornInv, [Next]_vars PROVE BornInv'
    OBVIOUS
  <2>1. CASE Next
    BY <2>1, BornStep
  <2>2. CASE UNCHANGED vars
    BY <2>2 DEF BornInv, vars, tableVars, localVars
  <2> QED BY <2>1, <2>2
<1>3. IInv /\ BornInv /\ [Next]_vars => [BornAlive]_vars
  BY BornStep
<1> QED BY <1>1, <1>2, <1>3, Invariance, PTL DEF Spec, BornUnkilled, BornAlive
-----------------------------------------------------------------------------
(* Proc implements ProcTable, for every number of slots and CPUs: four      *)
(* actions of Proc are the four actions of ProcTable, and every other one   *)
(* leaves the abstract table alone.                                         *)

(* kexit() disowns all children of p when it takes wait_lock. *)
LEMMA DisownStep ==
  ASSUME IInv, NEW c \in CPUs, NEW p \in Slots, ExitAcquire(c, p)
  PROVE  Table!Next
<1> USE SlotFacts DEF IInv, TypeOK, CpuInv, ExitInv, AliveInv, ParentInv
<1>1. statusBar' = statusBar
  BY DEF ExitAcquire, At, tableVars, statusBar
<1>2. parentBar' = [i \in Slots |-> IF parentBar[i] = p THEN initproc ELSE parentBar[i]]
  BY DEF ExitAcquire, At, Goto, tableVars, parentBar, Disowning, cpuVars
<1>3. statusBar[p] = "live" /\ p # initproc
  BY DEF ExitAcquire, At, statusBar
<1>4. Table!Disown(p)
  BY <1>1, <1>2, <1>3 DEF Table!Disown
<1> QED BY <1>4 DEF Table!Next

(* It exits, childless, when it becomes a ZOMBIE. *)
LEMMA ExitStepUp ==
  ASSUME IInv, NEW c \in CPUs, NEW p \in Slots, ExitZombie(c, p)
  PROVE  Table!Next
<1> USE SlotFacts DEF IInv, TypeOK, CpuInv, ExitInv, ExitPCs, AliveInv, ParentInv
<1>1. statusBar' = [statusBar EXCEPT ![p] = "zombie"]
  BY DEF ExitZombie, At, sched, statusBar
<1>2. parentBar' = parentBar
  BY DEF ExitZombie, At, sched, Goto, parentBar, Disowning
<1>3. statusBar[p] = "live" /\ p # initproc /\ \A i \in Slots : parentBar[i] # p
  BY DEF ExitZombie, At, statusBar, parentBar
<1>4. Table!Exit(p)
  BY <1>1, <1>2, <1>3 DEF Table!Exit, Table!Children
<1> QED BY <1>4 DEF Table!Next

(* kwait() reaps when it frees the slot of the exited child. *)
LEMMA ReapStepUp ==
  ASSUME IInv, NEW c \in CPUs, NEW p \in Slots, WaitReap(c, p)
  PROVE  Table!Next
<1> USE SlotFacts DEF IInv, TypeOK, CpuInv, WaitLockInv, WaitLockPCs, ExitInv, ExitPCs, AliveInv, ParentInv, WaitReap, WaitScanAt, At
<1>1. statusBar' = [statusBar EXCEPT ![idx[p]] = "free"]
  BY DEF freeproc, statusBar
<1>2. parentBar' = [parentBar EXCEPT ![idx[p]] = None]
  <2>1. /\ parent' = [parent EXCEPT ![idx[p]] = None]
        /\ state' = [state EXCEPT ![idx[p]] = "UNUSED"]
        /\ pc' = [pc EXCEPT ![p] = "user", ![idx[p]] = "unused"]
        /\ idx[p] \in Slots /\ state[idx[p]] = "ZOMBIE"
    BY DEF freeproc
  <2>2. /\ \A i \in Slots :
              parent[i] # None
              => parent[i] \in Slots /\ state[parent[i]] # "ZOMBIE"
        /\ DOMAIN pc = Slots /\ DOMAIN state = Slots
        /\ DOMAIN parent = Slots
        /\ pc[p] \notin Disowning
    <3>1. ASSUME NEW i \in Slots, parent[i] # None
          PROVE  parent[i] \in Slots /\ state[parent[i]] # "ZOMBIE"
      <4> HIDE DEF CpuInv, WaitLockInv, WaitLockPCs, ExitInv, ExitPCs,
                   ParentInv, WaitReap, WaitScanAt, At
      <4>1. parent[i] \in Slots
        BY <3>1
      <4>2. AliveInv
        OBVIOUS
      <4>3. state[parent[i]] \in Alive
        BY <3>1, <4>2
      <4> QED BY <4>1, <4>3 DEF Alive
    <3>2. /\ DOMAIN pc = Slots /\ DOMAIN state = Slots
          /\ DOMAIN parent = Slots
      OBVIOUS
    <3>3. pc[p] \notin Disowning
      BY DEF Disowning
    <3> QED BY <3>1, <3>2, <3>3
  <2> HIDE DEF IInv, TypeOK, CpuInv, WaitLockInv, WaitLockPCs, ExitInv,
               ExitPCs, AliveInv, ParentInv, WaitReap, WaitScanAt, At
  <2>3. ASSUME NEW i \in Slots
        PROVE parentBar'[i] = IF i = idx[p] THEN None ELSE parentBar[i]
    <3>1. CASE i = idx[p]
      BY <2>1, <2>2, <3>1 DEF parentBar
    <3>2. CASE i # idx[p] /\ parent[i] = None
      BY <2>1, <2>2, <3>2 DEF parentBar
    <3>3. CASE i # idx[p] /\ parent[i] # None
      <4>1. parent[i] \in Slots /\ parent[i] # idx[p]
        BY <2>1, <2>2, <3>3
      <4>2. pc'[parent[i]] \in Disowning <=> pc[parent[i]] \in Disowning
        BY <2>1, <2>2, <4>1 DEF Disowning
      <4> QED BY <2>1, <2>2, <3>3, <4>1, <4>2 DEF parentBar
    <3> QED BY <3>1, <3>2, <3>3
  <2>4. parentBar' = [i \in Slots |-> parentBar'[i]]
    BY DEF parentBar
  <2>5. parentBar = [i \in Slots |-> parentBar[i]]
    BY DEF parentBar
  <2> QED BY <2>1, <2>3, <2>4, <2>5
<1>3. statusBar[p] = "live" /\ statusBar[idx[p]] = "zombie" /\ parentBar[idx[p]] = p
  BY DEF statusBar, parentBar, Disowning
<1>4. Table!Reap(p, idx[p])
  BY <1>1, <1>2, <1>3 DEF Table!Reap
<1>5. idx[p] \in Slots
  OBVIOUS
<1> QED BY <1>4, <1>5 DEF Table!Next

(* kfork() creates the child when it makes it RUNNABLE. *)
LEMMA ForkStepUp ==
  ASSUME IInv, NEW c \in CPUs, NEW p \in Slots, ForkRun(c, p)
  PROVE  Table!Next
<1> USE SlotFacts DEF IInv, TypeOK, CpuInv, ForkInv, ChildPCs, WaitLockInv, WaitLockPCs, ExitInv, ExitPCs, AliveInv, ParentInv, ForkRun, At
<1>1. statusBar' = [statusBar EXCEPT ![np[p]] = "live"]
  BY DEF statusBar
<1>2. parentBar' = [parentBar EXCEPT ![np[p]] = p]
  <2>1. /\ parent' = parent /\ parent[np[p]] = p /\ pc[p] = "fork_run"
        /\ state' = [state EXCEPT ![np[p]] = "RUNNABLE"]
        /\ pc' = [pc EXCEPT ![p] = "user"]
        /\ np[p] \in Slots
    BY DEF Return, Goto
  <2>2. ASSUME NEW i \in Slots
        PROVE parentBar'[i] = IF i = np[p] THEN p ELSE parentBar[i]
    <3>1. CASE i = np[p]
      BY <2>1, <3>1 DEF parentBar, Disowning
    <3>2. CASE i # np[p] /\ parent[i] = None
      BY <2>1, <3>2 DEF parentBar
    <3>3. CASE i # np[p] /\ parent[i] # None
      <4>1. pc'[parent[i]] \in Disowning <=> pc[parent[i]] \in Disowning
        BY <2>1, <3>3 DEF Disowning
      <4> QED BY <2>1, <3>3, <4>1 DEF parentBar
    <3> QED BY <3>1, <3>2, <3>3
  <2> QED BY <2>1, <2>2 DEF parentBar
<1>3. statusBar[p] = "live" /\ statusBar[np[p]] = "free"
  BY DEF statusBar, parentBar, Disowning
<1>4. Table!Fork(p, np[p])
  BY <1>1, <1>2, <1>3 DEF Table!Fork
<1>5. np[p] \in Slots
  OBVIOUS
<1> QED BY <1>4, <1>5 DEF Table!Next

(* Every other action. *)
Stutters == UNCHANGED <<statusBar, parentBar>>

LEMMA TableStep == ASSUME IInv, Next PROVE Table!Next \/ Stutters
<1> USE SlotFacts
    DEF IInv, TypeOK, CpuInv, PLockInv, WaitLockInv, WaitLockPCs, ForkInv,
        ChildPCs, ParentInv, AliveInv, Alive, ExitInv, ExitPCs, Stutters,
        tableVars, lockVars, cpuVars, localVars, statusBar, parentBar,
        Disowning
<1>1. ASSUME NEW c \in CPUs, SchedBack(c) PROVE Table!Next \/ Stutters
  BY <1>1 DEF SchedBack
<1>2. ASSUME NEW c \in CPUs, NEW p \in Slots, Dispatch(c, p)
     PROVE Table!Next \/ Stutters
  BY <1>2 DEF Dispatch
<1>3. ASSUME NEW c \in CPUs, NEW p \in Slots,
            YieldResume(c, p) \/ ForkretResume(c, p) \/ SleepResume(c, p)
     PROVE  Table!Next \/ Stutters
  BY <1>3 DEF YieldResume, ForkretResume, SleepResume, Resumed, Goto
<1>4. ASSUME NEW c \in CPUs, NEW p \in Slots, User(c, p)
     PROVE Table!Next \/ Stutters
  BY <1>4 DEF User, CallFork, CallWait, CallExit, CallKill, KilledTrap, yield,
    Syscall, At, Goto, sched
<1>5. ASSUME NEW c \in CPUs, NEW p \in Slots, AllocNext(c, p)
     PROVE Table!Next \/ Stutters
  BY <1>5 DEF AllocNext, At
<1>6. ASSUME NEW c \in CPUs, NEW p \in Slots, AllocNone(c, p)
     PROVE Table!Next \/ Stutters
  BY <1>6 DEF AllocNone, At, Return, Goto
<1>7. ASSUME NEW c \in CPUs, NEW p \in Slots, AllocFound(c, p)
     PROVE Table!Next \/ Stutters
  BY <1>7 DEF AllocFound, At
<1>8. ASSUME NEW c \in CPUs, NEW p \in Slots, AllocFail(c, p)
     PROVE Table!Next \/ Stutters
  BY <1>8 DEF AllocFail, At, freeproc, Return, Goto
<1>9. ASSUME NEW c \in CPUs, NEW p \in Slots, ForkParent(c, p)
     PROVE Table!Next \/ Stutters
  BY <1>9 DEF ForkParent, At, Goto
<1>10. ASSUME NEW c \in CPUs, NEW p \in Slots, ForkRun(c, p)
      PROVE Table!Next \/ Stutters
  BY <1>10, ForkStepUp
<1>11. ASSUME NEW c \in CPUs, NEW p \in Slots, WaitAcquire(c, p)
      PROVE Table!Next \/ Stutters
  BY <1>11 DEF WaitAcquire, At, Goto
<1>12. ASSUME NEW c \in CPUs, NEW p \in Slots, WaitSkip(c, p)
      PROVE Table!Next \/ Stutters
  BY <1>12 DEF WaitSkip, WaitScanAt, At
<1>13. ASSUME NEW c \in CPUs, NEW p \in Slots, WaitLiveChild(c, p)
      PROVE Table!Next \/ Stutters
  BY <1>13 DEF WaitLiveChild, WaitScanAt, At
<1>14. ASSUME NEW c \in CPUs, NEW p \in Slots, WaitReap(c, p)
      PROVE Table!Next \/ Stutters
  BY <1>14, ReapStepUp
<1>15. ASSUME NEW c \in CPUs, NEW p \in Slots, WaitCopyoutFails(c, p)
      PROVE Table!Next \/ Stutters
  BY <1>15 DEF WaitCopyoutFails, WaitScanAt, At, Return, Goto
<1>16. ASSUME NEW c \in CPUs, NEW p \in Slots, WaitNothing(c, p)
      PROVE Table!Next \/ Stutters
  BY <1>16 DEF WaitNothing, At, Return, Goto
<1>17. ASSUME NEW c \in CPUs, NEW p \in Slots, WaitDecide(c, p)
      PROVE Table!Next \/ Stutters
  BY <1>17 DEF WaitDecide, At, Goto
<1>18. ASSUME NEW c \in CPUs, NEW p \in Slots, sleep(c, p)
      PROVE Table!Next \/ Stutters
  BY <1>18 DEF sleep, At, sched, Goto
<1>19. ASSUME NEW c \in CPUs, NEW p \in Slots, ExitPanic(c, p)
      PROVE Table!Next \/ Stutters
  BY <1>19 DEF ExitPanic, At, Goto
<1>20. ASSUME NEW c \in CPUs, NEW p \in Slots, ExitAcquire(c, p)
      PROVE Table!Next \/ Stutters
  BY <1>20, DisownStep
<1>21. ASSUME NEW c \in CPUs, NEW p \in Slots, ReparentSkip(c, p)
      PROVE Table!Next \/ Stutters
  BY <1>21 DEF ReparentSkip, At
<1>22. ASSUME NEW c \in CPUs, NEW p \in Slots, ReparentChild(c, p)
      PROVE Table!Next \/ Stutters
  BY <1>22 DEF ReparentChild, At, Goto
<1>23. ASSUME NEW c \in CPUs, NEW p \in Slots, ReparentDone(c, p)
      PROVE Table!Next \/ Stutters
  <2>1. UNCHANGED <<state, parent>> /\ pc' = [pc EXCEPT ![p] = "exit_wakeup"]
    BY <1>23 DEF ReparentDone, Goto
  <2>2. \A i \in Slots : parent[i] # p
    BY <1>23, SlotRange DEF ReparentDone, At
  <2> QED BY <2>1, <2>2
<1>24. ASSUME NEW c \in CPUs, NEW p \in Slots, ReparentWakeup(c, p)
      PROVE Table!Next \/ Stutters
  BY <1>24 DEF ReparentWakeup, At, wakeup
<1>25. ASSUME NEW c \in CPUs, NEW p \in Slots, ReparentWakeupDone(c, p)
      PROVE Table!Next \/ Stutters
  BY <1>25 DEF ReparentWakeupDone, At, Goto
<1>26. ASSUME NEW c \in CPUs, NEW p \in Slots, ExitWakeup(c, p)
      PROVE Table!Next \/ Stutters
  BY <1>26 DEF ExitWakeup, At, wakeup
<1>27. ASSUME NEW c \in CPUs, NEW p \in Slots, ExitWakeupDone(c, p)
      PROVE Table!Next \/ Stutters
  BY <1>27 DEF ExitWakeupDone, At, Goto
<1>28. ASSUME NEW c \in CPUs, NEW p \in Slots, ExitZombie(c, p)
      PROVE Table!Next \/ Stutters
  BY <1>28, ExitStepUp
<1>29. ASSUME NEW c \in CPUs, NEW p \in Slots, Kill(c, p)
      PROVE Table!Next \/ Stutters
  BY <1>29 DEF Kill, KillNext, KillFound, KillNone, At, Return, Goto
<1> QED BY <1>1, <1>2, <1>3, <1>4, <1>5, <1>6, <1>7, <1>8, <1>9, <1>10, <1>11,
    <1>12, <1>13, <1>14, <1>15, <1>16, <1>17, <1>18, <1>19, <1>20, <1>21,
    <1>22, <1>23, <1>24, <1>25, <1>26, <1>27, <1>28, <1>29 DEF Next, Kernel,
    User, Fork, Wait, Exit, Kill

(* The initial states correspond. *)
LEMMA TableInit == Init => Table!Init
  BY SlotFacts DEF Init, Table!Init, statusBar, parentBar

(* Everything user programs may rely on in ProcTable holds of the kernel. *)
THEOREM Refinement == Spec => TableSpec
<1>1. IInv /\ [Next]_vars => [Table!Next]_(Table!vars)
  <2> SUFFICES ASSUME IInv, [Next]_vars PROVE [Table!Next]_(Table!vars)
    OBVIOUS
  <2>1. CASE Next
    BY <2>1, TableStep DEF Stutters, Table!vars
  <2>2. CASE UNCHANGED vars
    BY <2>2 DEF vars, tableVars, lockVars, cpuVars, localVars, Table!vars,
                statusBar, parentBar, Disowning
  <2> QED BY <2>1, <2>2
<1> QED BY TableInit, Invariance, <1>1, PTL DEF Spec, TableSpec, Table!Spec
-----------------------------------------------------------------------------
(* What holds of the abstract table holds of the kernel. *)

LEMMA TableInvInit == Table!Init => Table!Inv
  BY SlotFacts DEF Table!Init, Table!Inv, Table!Rooted, Table!Processes

(* A set of processes without init still has a way out after each step. *)
LEMMA ForkRooted ==
  ASSUME Table!Inv, NEW p \in Slots, NEW q \in Slots, Table!Fork(p, q)
  PROVE  Table!Inv'
<1> USE SlotFacts DEF Table!Inv, Table!Fork, Table!Processes
<1>1. Table!Processes' = Table!Processes \cup {q} /\ q \notin Table!Processes
  OBVIOUS
<1>2. ASSUME NEW S \in SUBSET (Table!Processes' \ {initproc}), S # {}
     PROVE  \E i \in S : parentBar'[i] \in Table!Processes' \ S
  <2>1. CASE S = {q}
    BY <2>1
  <2>2. CASE S # {q}
    <3>1. S \ {q} # {} /\ S \ {q} \in SUBSET (Table!Processes \ {initproc})
      BY <1>1, <1>2, <2>2
    <3>2. PICK i \in S \ {q} : parentBar[i] \in Table!Processes \ (S \ {q})
      BY <3>1 DEF Table!Rooted
    <3> QED BY <1>1, <3>2
  <2> QED BY <2>1, <2>2
<1>3. Table!Rooted'
  BY <1>2 DEF Table!Rooted
<1> QED BY <1>3

LEMMA DisownRooted ==
  ASSUME Table!Inv, NEW p \in Slots, Table!Disown(p)
  PROVE  Table!Inv'
<1> USE SlotFacts DEF Table!Inv, Table!Disown, Table!Processes
<1>1. Table!Processes' = Table!Processes /\ initproc \in Table!Processes
  OBVIOUS
<1>2. ASSUME NEW S \in SUBSET (Table!Processes' \ {initproc}), S # {}
     PROVE  \E i \in S : parentBar'[i] \in Table!Processes' \ S
  <2>1. PICK i \in S : parentBar[i] \in Table!Processes \ S
    BY <1>1, <1>2 DEF Table!Rooted
  <2> QED BY <1>1, <1>2, <2>1
<1>3. Table!Rooted'
  BY <1>2 DEF Table!Rooted
<1> QED BY <1>3

LEMMA ExitRooted ==
  ASSUME Table!Inv, NEW p \in Slots, Table!Exit(p)
  PROVE  Table!Inv'
<1> USE SlotFacts DEF Table!Inv, Table!Exit, Table!Processes
<1>1. Table!Processes' = Table!Processes
  OBVIOUS
<1>2. Table!Rooted'
  BY <1>1 DEF Table!Rooted
<1> QED BY <1>2 DEF Table!Children

(* A reaped process has no children: it was a zombie. *)
LEMMA ReapRooted ==
  ASSUME Table!Inv, NEW p \in Slots, NEW q \in Slots, Table!Reap(p, q)
  PROVE  Table!Inv'
<1> USE SlotFacts DEF Table!Inv, Table!Reap, Table!Processes
<1>1. Table!Processes' = Table!Processes \ {q}
  OBVIOUS
<1>2. ASSUME NEW S \in SUBSET (Table!Processes' \ {initproc}), S # {}
     PROVE  \E i \in S : parentBar'[i] \in Table!Processes' \ S
  <2>1. PICK i \in S : parentBar[i] \in Table!Processes \ S
    BY <1>1, <1>2 DEF Table!Rooted
  <2>2. parentBar[i] # q
    BY <1>1, <1>2, <2>1
  <2> QED BY <1>1, <1>2, <2>1, <2>2
<1>3. Table!Rooted'
  BY <1>2 DEF Table!Rooted
<1> QED BY <1>3

(* Following parents leads from every process of the kernel to init. *)
THEOREM AllRooted == Spec => []Rooted
<1>1. Table!Inv /\ [Table!Next]_(Table!vars) => Table!Inv'
  <2> SUFFICES ASSUME Table!Inv, [Table!Next]_(Table!vars) PROVE Table!Inv'
    OBVIOUS
  <2>1. CASE Table!Next
    BY <2>1, ForkRooted, DisownRooted, ExitRooted, ReapRooted DEF Table!Next
  <2>2. CASE UNCHANGED Table!vars
    BY <2>2 DEF Table!vars, Table!Inv, Table!Rooted, Table!Processes
  <2> QED BY <2>1, <2>2
<1>2. Table!Inv => Rooted
  BY DEF Rooted, Table!Inv
<1> QED BY TableInvInit, Refinement, <1>1, <1>2, PTL DEF TableSpec, Table!Spec
=============================================================================
