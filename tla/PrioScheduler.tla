---------------------------- MODULE PrioScheduler ----------------------------
(***************************************************************************)
(* scheduler() of the week 6 and 7 kernels (week6/proc.c) with             *)
(* set_priority(): a CPU walks over the whole process table, holding on to *)
(* the lock of the best RUNNABLE process met so far, and then runs that    *)
(* process.  A small priority is a good one; the first of equals wins.     *)
(*                                                                         *)
(* The scheduler of the repository uses p and c without declaring them;    *)
(* they are taken to be the locals they are in week5/proc.c.               *)
(***************************************************************************)
EXTENDS Integers, FiniteSets

CONSTANTS
  NPROC,       (* number of slots                                         *)
  CPUs,        (* the set of CPUs                                         *)
  Default,     (* the priority of a new process: 31                       *)
  Prios,       (* the priorities processes pass to set_priority()         *)
  None         (* no process, and the owner of a free lock                *)

Slots == 0 .. NPROC - 1

ASSUME PrioAssumption ==
  /\ NPROC \in Nat \ {0}
  /\ Default \in Int /\ Prios \subseteq Int
  /\ IsFiniteSet(CPUs)
  /\ None \notin Slots \cup CPUs

VARIABLES
  state,      (* state[p]: p->state                                          *)
  priority,   (* priority[p]: p->priority                                    *)
  plock,      (* plock[p]: the CPU that holds p->lock                        *)
  cproc,      (* cproc[c]: c->proc                                           *)
  mode,       (* what CPU c executes: the walk, a process just resumed, a    *)
              (* process, or the way back from it                            *)
  at,         (* at[c]: the slot the walk of c has reached                   *)
  best,       (* best[c]: the scheduler's local best                         *)
  steady      (* steady[c]: history, the processes RUNNABLE with the same    *)
              (* priority ever since the walk of c began                     *)

cpuVars == <<cproc, mode, at, best>>
vars == <<state, priority, plock, cpuVars, steady>>

Modes == {"walk", "resume", "run", "back"}
States == {"UNUSED", "USED", "SLEEPING", "RUNNABLE", "RUNNING", "ZOMBIE"}

TypeOK ==
  /\ state \in [Slots -> States]
  /\ priority \in [Slots -> Prios \cup {Default}]
  /\ plock \in [Slots -> CPUs \cup {None}]
  /\ cproc \in [CPUs -> Slots \cup {None}]
  /\ mode \in [CPUs -> Modes]
  /\ at \in [CPUs -> 0 .. NPROC]
  /\ best \in [CPUs -> Slots \cup {None}]
  /\ steady \in [CPUs -> SUBSET Slots]

Runnable == {p \in Slots : state[p] = "RUNNABLE"}

(* One process is RUNNABLE, every other slot is free. *)
InitAt(first) ==
  /\ state = [p \in Slots |-> IF p = first THEN "RUNNABLE" ELSE "UNUSED"]
  /\ priority = [p \in Slots |-> Default]
  /\ plock = [p \in Slots |-> None]
  /\ cproc = [c \in CPUs |-> None]
  /\ mode = [c \in CPUs |-> "walk"]
  /\ at = [c \in CPUs |-> 0]
  /\ best = [c \in CPUs |-> None]
  /\ steady = [c \in CPUs |-> Runnable]

Init == InitAt(0)

(* p is not what it was when the walks in progress began. *)
Disturb(p) == steady' = [c \in CPUs |-> steady[c] \ {p}]

-----------------------------------------------------------------------------
(* scheduler() *)

(* acquire(&p->lock) for the slot p the walk has reached. *)
Visit(c, p) ==
  /\ mode[c] = "walk"
  /\ at[c] < NPROC
  /\ p = at[c]
  /\ plock[p] = None
  /\ at' = [at EXCEPT ![c] = @ + 1]
  /\ UNCHANGED <<state, priority, cproc, mode, steady>>

(* Mutant: a larger number is taken for the better priority. *)
Better_Reversed(p, q) == priority[p] > priority[q]
Better(p, q) == priority[p] < priority[q]

(* Not RUNNABLE, or no better than best: released at once. *)
WalkOn(c, p) ==
  /\ Visit(c, p)
  /\ \/ p \notin Runnable
     \/ best[c] # None /\ ~Better(p, best[c])
  /\ UNCHANGED <<plock, best>>

(* The first RUNNABLE process of the walk. *)
WalkFirst(c, p) ==
  /\ Visit(c, p)
  /\ p \in Runnable
  /\ best[c] = None
  /\ best' = [best EXCEPT ![c] = p]
  /\ plock' = [plock EXCEPT ![p] = c]

(* Mutant: the lock of the former best is not released. *)
LockedFor_KeepsBoth(c, p) == [plock EXCEPT ![p] = c]
LockedFor(c, p) == [plock EXCEPT ![p] = c, ![best[c]] = None]

(* A better process: the lock of the former best is released. *)
WalkBetter(c, p) ==
  /\ Visit(c, p)
  /\ p \in Runnable
  /\ best[c] # None
  /\ Better(p, best[c])
  /\ best' = [best EXCEPT ![c] = p]
  /\ plock' = LockedFor(c, p)

(* Nothing to run: walk again. *)
Idle(c) ==
  /\ mode[c] = "walk"
  /\ at[c] = NPROC
  /\ best[c] = None
  /\ at' = [at EXCEPT ![c] = 0]
  /\ steady' = [steady EXCEPT ![c] = Runnable]
  /\ UNCHANGED <<state, priority, plock, cproc, mode, best>>

(* Switch to the best process. *)
Run(c) ==
  /\ mode[c] = "walk"
  /\ at[c] = NPROC
  /\ best[c] # None
  /\ state' = [state EXCEPT ![best[c]] = "RUNNING"]
  /\ cproc' = [cproc EXCEPT ![c] = best[c]]
  /\ best' = [best EXCEPT ![c] = None]
  /\ mode' = [mode EXCEPT ![c] = "resume"]
  /\ Disturb(best[c])
  /\ UNCHANGED <<priority, plock, at>>

(* The process is back: release it and start a new walk. *)
Back(c) ==
  /\ mode[c] = "back"
  /\ plock' = [plock EXCEPT ![cproc[c]] = None]
  /\ cproc' = [cproc EXCEPT ![c] = None]
  /\ mode' = [mode EXCEPT ![c] = "walk"]
  /\ at' = [at EXCEPT ![c] = 0]
  /\ steady' = [steady EXCEPT ![c] = Runnable]
  /\ UNCHANGED <<state, priority, best>>

Scheduler(c) ==
  \/ \E p \in Slots : WalkOn(c, p) \/ WalkFirst(c, p) \/ WalkBetter(c, p)
  \/ Idle(c) \/ Run(c) \/ Back(c)

-----------------------------------------------------------------------------
(* The processes.  What they do to another slot q is a step under q->lock. *)

(* The resumed process releases its lock. *)
Resume(c) ==
  /\ mode[c] = "resume"
  /\ plock' = [plock EXCEPT ![cproc[c]] = None]
  /\ mode' = [mode EXCEPT ![c] = "run"]
  /\ UNCHANGED <<state, priority, cproc, at, best, steady>>

(* sched(): the process of c takes its lock and gives up the CPU. *)
Leave(c, newstate) ==
  /\ mode[c] = "run"
  /\ plock[cproc[c]] = None
  /\ plock' = [plock EXCEPT ![cproc[c]] = c]
  /\ state' = [state EXCEPT ![cproc[c]] = newstate]
  /\ mode' = [mode EXCEPT ![c] = "back"]
  /\ UNCHANGED <<priority, cproc, at, best, steady>>

(* A timer interrupt: yield(). *)
Yield(c) == Leave(c, "RUNNABLE")

(* sleep(). *)
Block(c) == Leave(c, "SLEEPING")

(* The end of kexit(), which init (slot 0) does not call. *)
Zombie(c) == cproc[c] # 0 /\ Leave(c, "ZOMBIE")

(* A process, or an interrupt handler, takes q->lock for one step. *)
Touch_NoLock(q) == UNCHANGED <<plock, cpuVars>>   (* Mutant *)
Touch(q) == plock[q] = None /\ UNCHANGED <<plock, cpuVars>>

(* allocproc() in fork(): the new process has the default priority. *)
Alloc(q) ==
  /\ Touch(q)
  /\ state[q] = "UNUSED"
  /\ \E c \in CPUs : mode[c] = "run"
  /\ state' = [state EXCEPT ![q] = "USED"]
  /\ priority' = [priority EXCEPT ![q] = Default]
  /\ UNCHANGED steady

(* The end of fork(), and wakeup(). *)
Ready(q) ==
  /\ Touch(q)
  /\ state[q] \in {"USED", "SLEEPING"}
  /\ state' = [state EXCEPT ![q] = "RUNNABLE"]
  /\ UNCHANGED <<priority, steady>>

(* kwait(): the slot is free again, its priority is left as it is. *)
Reap(q) ==
  /\ Touch(q)
  /\ state[q] = "ZOMBIE"
  /\ \E c \in CPUs : mode[c] = "run"
  /\ state' = [state EXCEPT ![q] = "UNUSED"]
  /\ UNCHANGED <<priority, steady>>

(* set_priority(), at the slot that has the pid; it returns after it. *)
set_priority(q, prio) ==
  /\ Touch(q)
  /\ state[q] # "UNUSED"
  /\ \E c \in CPUs : mode[c] = "run"
  /\ priority' = [priority EXCEPT ![q] = prio]
  /\ Disturb(q)
  /\ UNCHANGED state

Process(c) == Resume(c) \/ Yield(c) \/ Block(c) \/ Zombie(c)

Next ==
  \/ \E c \in CPUs : Scheduler(c) \/ Process(c)
  \/ \E q \in Slots :
       \/ Alloc(q) \/ Ready(q) \/ Reap(q)
       \/ \E prio \in Prios : set_priority(q, prio)

Spec == Init /\ [][Next]_vars

(* Timer interrupts keep coming, and a CPU that spins on a lock is not      *)
(* starved by the others for ever.                                          *)
FairSpec ==
  /\ Spec
  /\ \A c \in CPUs : /\ SF_vars(Scheduler(c))
                     /\ WF_vars(Resume(c))
                     /\ WF_vars(Yield(c) \/ Block(c) \/ Zombie(c))
-----------------------------------------------------------------------------
(* p is preferred to q by a walk that finds both RUNNABLE. *)
Precedes(p, q) ==
  \/ priority[p] < priority[q]
  \/ priority[p] = priority[q] /\ p <= q

(* The choice is right: no process that stayed RUNNABLE with its priority   *)
(* throughout the walk is preferable to the one the walk has chosen,        *)
(* although other CPUs run, wake, create and reprioritise processes while   *)
(* the walk goes on.                                                        *)
BestSoFar ==
  \A c \in CPUs : mode[c] = "walk" =>
    \A q \in steady[c] : q < at[c] => best[c] # None /\ Precedes(best[c], q)

(* A walking CPU holds the lock of the best process so far, which therefore *)
(* stays RUNNABLE, a switching one that of its process, and neither holds   *)
(* any other: the process that is run finds one lock held, as sched() will  *)
(* insist.                                                                  *)
LockDiscipline ==
  /\ \A c \in CPUs, p \in Slots :
       plock[p] = c <=> \/ best[c] = p
                        \/ mode[c] \in {"resume", "back"} /\ cproc[c] = p
  /\ \A c \in CPUs : best[c] # None => mode[c] = "walk" /\ best[c] \in Runnable
  /\ \A c, d \in CPUs : cproc[c] # None /\ cproc[c] = cproc[d] => c = d

(* A RUNNABLE process that stays preferable to all others gets to run,      *)
(* whatever the CPUs were doing when it became RUNNABLE.                    *)
Top(p) ==
  state[p] = "RUNNABLE" /\ \A q \in Slots : priority[p] < priority[q] \/ q = p

TopRuns == \A p \in Slots : Top(p) ~> ~Top(p)
=============================================================================
