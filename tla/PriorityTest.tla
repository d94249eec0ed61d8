---------------------------- MODULE PriorityTest ----------------------------
(***************************************************************************)
(* week6/priority_test.c on the scheduler of week 6: a parent forks two    *)
(* children that spin, gives the first one priority 5 and the second one   *)
(* 50, sleeps, kills both and waits for both.  Each call is the kernel     *)
(* code of week6/proc.c, as far as it changes states and priorities.       *)
(*                                                                         *)
(* The test calls sleep(), which week6/user.h does not declare; it is      *)
(* taken to be pause(), the call of this kernel that sleeps for ticks.     *)
(***************************************************************************)
EXTENDS PrioScheduler, Sequences, FiniteSetsExt

CONSTANTS
  ParentSlots,   (* the slots the parent may be in                        *)
  TICKS          (* how many clock ticks the parent sleeps                *)

ASSUME TestAssumption ==
  ParentSlots \subseteq Slots /\ Prios = {5, 50} /\ NPROC > 2 /\ TICKS \in Nat

VARIABLES
  parent,      (* the slot of the parent                                  *)
  step,        (* the call of the program it has come to                  *)
  entered,     (* it is inside of that call, with interrupts off while it *)
               (* spins on a lock                                         *)
  kid,         (* kid[n]: the slot of its nth child                       *)
  killed,      (* the slots whose p->killed is set                        *)
  wait_lock,   (* the slot of the process that exits with it, or None     *)
  ticks        (* the ticks since the parent has begun to sleep           *)

progVars == <<parent, step, entered, kid, killed, wait_lock, ticks>>
allVars == <<vars, progVars>>

(* A fork is two steps: the slot is taken, then made RUNNABLE. *)
Program == << <<"fork", 1>>, <<"ready", 1>>, <<"fork", 2>>, <<"ready", 2>>,
              <<"set", 1>>, <<"set", 2>>, <<"pause", 0>>,
              <<"kill", 1>>, <<"kill", 2>>, <<"wait", 0>>, <<"wait", 0>>,
              <<"exit", 0>>, <<"ended", 0>> >>

Prio == <<5, 50>>

TestInit ==
  /\ parent \in ParentSlots
  /\ InitAt(parent)
  /\ step = 1 /\ entered = FALSE
  /\ kid = <<None, None>>
  /\ killed = {} /\ wait_lock = None /\ ticks = 0

Kids == {kid[n] : n \in {1, 2}} \ {None}

-----------------------------------------------------------------------------
(* The parent *)

ParentRuns == \E c \in CPUs : mode[c] = "run" /\ cproc[c] = parent

Enter ==
  /\ ParentRuns /\ ~entered /\ step < Len(Program)
  /\ entered' = TRUE
  /\ UNCHANGED <<vars, parent, step, kid, killed, wait_lock, ticks>>

(* The parent ends this call, and goes on by k steps.                      *)
Call(name, n, k) ==
  /\ ParentRuns /\ entered /\ entered' = FALSE
  /\ Program[step] = <<name, n>>
  /\ step' = step + k

(* sched() from inside a call of the parent. *)
Sleep == \E c \in CPUs : cproc[c] = parent /\ Leave(c, "SLEEPING")

Fork(n) ==
  \/ /\ Call("fork", n, 1)
     /\ LET q == Min({p \in Slots : state[p] = "UNUSED"})
        IN  Alloc(q) /\ kid' = [kid EXCEPT ![n] = q]
     /\ UNCHANGED <<parent, killed, wait_lock, ticks>>
  \/ /\ Call("ready", n, 1) /\ Ready(kid[n])
     /\ UNCHANGED <<parent, kid, killed, wait_lock, ticks>>

(* No memory: fork() returns -1, and the test goes on with it as a pid. *)
ForkFails(n) ==
  /\ Call("fork", n, 2)
  /\ UNCHANGED <<vars, parent, kid, killed, wait_lock, ticks>>

Set(n) ==
  /\ Call("set", n, 1)
  /\ IF kid[n] = None THEN UNCHANGED vars ELSE set_priority(kid[n], Prio[n])
  /\ UNCHANGED <<parent, kid, killed, wait_lock, ticks>>

Pause ==
  /\ \/ ticks < TICKS /\ Call("pause", 0, 0) /\ Sleep
     \/ ticks = TICKS /\ Call("pause", 0, 1) /\ UNCHANGED vars
  /\ UNCHANGED <<parent, kid, killed, wait_lock, ticks>>

Kill(n) ==
  /\ Call("kill", n, 1)
  /\ IF kid[n] = None THEN UNCHANGED <<vars, killed>>
     ELSE /\ Touch(kid[n]) /\ killed' = killed \cup {kid[n]}
          /\ UNCHANGED <<state, priority, steady>>
  /\ UNCHANGED <<parent, kid, wait_lock, ticks>>

(* kwait(): reap a child, or find none, or sleep and scan again. *)
Wait ==
  /\ wait_lock = None
  /\ \/ \E n \in {1, 2} : /\ Call("wait", 0, 1)
                          /\ kid[n] # None /\ Reap(kid[n])
                          /\ killed' = killed \ {kid[n]}
                          /\ kid' = [kid EXCEPT ![n] = None]
     \/ Kids = {} /\ Call("wait", 0, 1) /\ UNCHANGED <<vars, kid, killed>>
     \/ /\ Kids # {} /\ \A q \in Kids : state[q] # "ZOMBIE"
        /\ Call("wait", 0, 0) /\ Sleep
        /\ UNCHANGED <<kid, killed>>
  /\ UNCHANGED <<parent, wait_lock, ticks>>

Exit ==
  /\ Call("exit", 0, 1)
  /\ \E c \in CPUs : cproc[c] = parent /\ Leave(c, "ZOMBIE")
  /\ UNCHANGED <<parent, kid, killed, wait_lock, ticks>>

Parent ==
  \/ Enter
  \/ \E n \in {1, 2} : Fork(n) \/ ForkFails(n) \/ Set(n) \/ Kill(n)
  \/ Pause \/ Wait \/ Exit

-----------------------------------------------------------------------------
(* The children, the clock and the timer *)

(* Mutant: the wakeup is missing. *)
WakeParent_Missing == Touch(parent) /\ UNCHANGED <<state, priority, steady>>

(* wakeup() of the parent, which sleeps or does something else. *)
WakeParent ==
  IF state[parent] = "SLEEPING" THEN Ready(parent)
  ELSE Touch(parent) /\ UNCHANGED <<state, priority, steady>>

(* A killed child exits at its next trap: kexit() wakes the parent and      *)
(* becomes a ZOMBIE, both with wait_lock.                                   *)
ChildExit(c) ==
  /\ mode[c] = "run" /\ cproc[c] \in killed
  /\ \/ wait_lock = None /\ wait_lock' = cproc[c] /\ WakeParent
     \/ wait_lock = cproc[c] /\ wait_lock' = None /\ Leave(c, "ZOMBIE")
  /\ UNCHANGED <<parent, step, entered, kid, killed, ticks>>

(* clockintr(), while the parent is in pause(). *)
Tick ==
  /\ Program[step][1] = "pause" /\ ticks < TICKS
  /\ ticks' = ticks + 1
  /\ WakeParent
  /\ UNCHANGED <<parent, step, entered, kid, killed, wait_lock>>

(* A timer interrupt, in a process that has not been killed. *)
Preempt(c) ==
  /\ cproc[c] \notin killed
  /\ ~(cproc[c] = parent /\ entered)
  /\ Yield(c)
  /\ UNCHANGED progVars

Kernel(c) == (Scheduler(c) \/ Resume(c)) /\ UNCHANGED progVars

TestNext ==
  \/ \E c \in CPUs : Kernel(c) \/ Preempt(c) \/ ChildExit(c)
  \/ Parent \/ Tick

(* The walk of CPU c gets past slot p while another CPU executes a process. *)
VisitInSlice(c, p) ==
  /\ \E d \in CPUs \ {c} : mode[d] = "run"
  /\ WalkOn(c, p) \/ WalkFirst(c, p) \/ WalkBetter(c, p)
  /\ UNCHANGED progVars

(* Timer and clock interrupts keep coming; a process that runs again and    *)
(* again gets further in its program; and time slices are long: a slot that *)
(* a walk could get past in one time slice after the other, it gets past in *)
(* one of them.                                                             *)
TestSpec ==
  /\ TestInit /\ [][TestNext]_allVars
  /\ SF_allVars(Parent) /\ SF_allVars(\E c \in CPUs : ChildExit(c))
  /\ WF_allVars(Tick)
  /\ \A c \in CPUs :
       /\ WF_allVars(Kernel(c)) /\ WF_allVars(Preempt(c))
       /\ \A p \in Slots : SF_allVars(VisitInSlice(c, p))
-----------------------------------------------------------------------------
(* The test comes to its end, with both children killed and reaped,         *)
(* although children with priorities better and worse than its own never    *)
(* give up a CPU by themselves.                                             *)
TestEnds == <>(step = Len(Program) /\ \A q \in Slots \ {parent} : state[q] = "UNUSED")
=============================================================================
