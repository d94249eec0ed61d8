----------------------------- MODULE PrioProofs -----------------------------
(***************************************************************************)
(* Theorems about the week 6 scheduler, for every number of slots and CPUs *)
(* and every set of priorities.                                            *)
(***************************************************************************)
EXTENDS PrioScheduler, TLAPS

(* What the mode of a CPU says of its process. *)
CpuInv ==
  \A c \in CPUs :
    /\ mode[c] = "walk" <=> cproc[c] = None
    /\ mode[c] \in {"resume", "run"} => state[cproc[c]] = "RUNNING"

(* A walk counts on nothing that has changed since it began. *)
SteadyInv == \A c \in CPUs : mode[c] = "walk" => steady[c] \subseteq Runnable

(* The best process has been met. *)
MetInv == \A c \in CPUs : best[c] # None => best[c] < at[c]

IInv ==
  TypeOK /\ CpuInv /\ LockDiscipline /\ SteadyInv /\ MetInv /\ BestSoFar

(* BestSoFar, for one CPU. *)
BestOf(c) ==
  mode[c] = "walk" =>
    \A q \in steady[c] : q < at[c] => best[c] # None /\ Precedes(best[c], q)

-----------------------------------------------------------------------------
(* Slots are numbers below NPROC. *)
LEMMA SlotFacts ==
  /\ NPROC \in Nat /\ 0 \in Slots /\ Slots \subseteq Nat
  /\ \A n \in 0 .. NPROC : n < NPROC => n \in Slots /\ n + 1 \in 0 .. NPROC
  /\ \A p \in Slots : p \in 0 .. NPROC
  /\ None \notin Slots /\ None \notin CPUs
  /\ Prios \cup {Default} \subseteq Int
  BY PrioAssumption DEF Slots

(* Every CPU is at the beginning of its first walk. *)
LEMMA InitIInv == Init => IInv
  BY SlotFacts
     DEF Init, InitAt, IInv, TypeOK, CpuInv, LockDiscipline, SteadyInv, MetInv,
         BestSoFar, Runnable, States, Modes

-----------------------------------------------------------------------------
(* One lemma for each conjunct of the invariant. *)

(* Every step keeps the types. *)
LEMMA TypeStep == IInv /\ Next => TypeOK'
<1> SUFFICES ASSUME IInv, Next PROVE TypeOK'
  OBVIOUS
<1> USE SlotFacts DEF IInv, TypeOK, CpuInv, Modes, States, cpuVars
<1>1. ASSUME NEW c \in CPUs, NEW p \in Slots,
             WalkOn(c, p) \/ WalkFirst(c, p) \/ WalkBetter(c, p)
      PROVE  TypeOK'
  BY <1>1 DEF WalkOn, WalkFirst, WalkBetter, LockedFor, Visit
<1>2. ASSUME NEW c \in CPUs, Idle(c) \/ Back(c) PROVE TypeOK'
  BY <1>2 DEF Idle, Back, Runnable
<1>3. ASSUME NEW c \in CPUs, Run(c) PROVE TypeOK'
  <2>1. best[c] \in Slots
    BY <1>3 DEF Run
  <2> QED
    BY <1>3, <2>1 DEF Run, Disturb
<1>4. ASSUME NEW c \in CPUs, Resume(c) PROVE TypeOK'
  BY <1>4 DEF Resume
<1>5. ASSUME NEW c \in CPUs, Yield(c) \/ Block(c) \/ Zombie(c) PROVE TypeOK'
  BY <1>5 DEF Yield, Block, Zombie, Leave
<1>6. ASSUME NEW q \in Slots, Alloc(q) \/ Ready(q) \/ Reap(q) PROVE TypeOK'
  BY <1>6 DEF Alloc, Ready, Reap, Touch
<1>7. ASSUME NEW q \in Slots, NEW prio \in Prios, set_priority(q, prio)
      PROVE  TypeOK'
  BY <1>7 DEF set_priority, Touch, Disturb
<1> QED
  BY <1>1, <1>2, <1>3, <1>4, <1>5, <1>6, <1>7 DEF Next, Scheduler, Process

(* Who holds the lock of p, read from the side of the CPU. *)
LEMMA LockOf ==
  ASSUME IInv, NEW c \in CPUs, NEW p \in Slots
  PROVE  /\ best[c] = p => plock[p] = c /\ state[p] = "RUNNABLE"
         /\ mode[c] \in {"resume", "back"} /\ cproc[c] = p => plock[p] = c
         /\ cproc[c] = p => mode[c] \in {"resume", "run", "back"}
         /\ mode[c] \in {"resume", "run"} /\ cproc[c] = p => state[p] = "RUNNING"
<1>1. cproc[c] = p => mode[c] \in {"resume", "run", "back"}
  BY SlotFacts DEF IInv, TypeOK, Modes, CpuInv
<1>2. /\ best[c] = p => plock[p] = c
      /\ mode[c] \in {"resume", "back"} /\ cproc[c] = p => plock[p] = c
  BY DEF IInv, LockDiscipline
<1>3. best[c] = p => state[p] = "RUNNABLE"
  BY SlotFacts DEF IInv, LockDiscipline, Runnable
<1>4. mode[c] \in {"resume", "run"} /\ cproc[c] = p => state[p] = "RUNNING"
  BY DEF IInv, CpuInv
<1> QED
  BY <1>1, <1>2, <1>3, <1>4

(* Every step keeps the locking discipline: the processes do not touch a   *)
(* slot whose lock a walk holds.                                           *)
LEMMA LockStep == IInv /\ Next => CpuInv' /\ LockDiscipline'
<1> SUFFICES ASSUME IInv, Next PROVE CpuInv' /\ LockDiscipline'
  OBVIOUS
<1> USE SlotFacts
    DEF IInv, TypeOK, CpuInv, LockDiscipline, Runnable, Modes, States, cpuVars
<1>1. ASSUME NEW c \in CPUs, NEW p \in Slots, WalkOn(c, p)
      PROVE  CpuInv' /\ LockDiscipline'
  BY <1>1 DEF WalkOn, Visit
<1>2. ASSUME NEW c \in CPUs, NEW p \in Slots, WalkFirst(c, p)
      PROVE  CpuInv' /\ LockDiscipline'
  BY <1>2 DEF WalkFirst, Visit
<1>3. ASSUME NEW c \in CPUs, NEW p \in Slots, WalkBetter(c, p)
      PROVE  CpuInv' /\ LockDiscipline'
  BY <1>3 DEF WalkBetter, LockedFor, Visit
<1>4. ASSUME NEW c \in CPUs, Idle(c) PROVE CpuInv' /\ LockDiscipline'
  BY <1>4 DEF Idle
<1>5. ASSUME NEW c \in CPUs, Run(c) PROVE CpuInv' /\ LockDiscipline'
  <2>1. /\ best[c] \in Slots /\ mode[c] = "walk" /\ cproc[c] = None
        /\ plock[best[c]] = c /\ state[best[c]] = "RUNNABLE"
    BY <1>5 DEF Run
  <2>2. \A d \in CPUs \ {c} : best[d] # best[c] /\ cproc[d] # best[c]
    <3> SUFFICES ASSUME NEW d \in CPUs \ {c}
                 PROVE  best[d] # best[c] /\ cproc[d] # best[c]
      OBVIOUS
    <3> HIDE DEF IInv, TypeOK, CpuInv, LockDiscipline, Runnable
    <3>1. best[c] \in Slots /\ d \in CPUs /\ d # c
          /\ plock[best[c]] = c /\ state[best[c]] = "RUNNABLE"
      BY <2>1
    <3>2. /\ best[d] = best[c] => plock[best[c]] = d
          /\ cproc[d] = best[c] => mode[d] \in {"resume", "run", "back"}
          /\ mode[d] \in {"resume", "back"} /\ cproc[d] = best[c] =>
               plock[best[c]] = d
          /\ mode[d] \in {"resume", "run"} /\ cproc[d] = best[c] =>
               state[best[c]] = "RUNNING"
      BY <3>1, LockOf
    <3> QED
      BY <3>1, <3>2
  <2>3. CpuInv'
    BY <1>5, <2>1, <2>2 DEF Run
  <2>4. LockDiscipline'
    BY <1>5, <2>1, <2>2 DEF Run
  <2> QED
    BY <2>3, <2>4
<1>6. ASSUME NEW c \in CPUs, Back(c) PROVE CpuInv' /\ LockDiscipline'
  BY <1>6 DEF Back
<1>7. ASSUME NEW c \in CPUs, Resume(c) PROVE CpuInv' /\ LockDiscipline'
  BY <1>7 DEF Resume
<1>8. ASSUME NEW c \in CPUs, NEW s \in {"RUNNABLE", "SLEEPING", "ZOMBIE"},
             Leave(c, s)
      PROVE  CpuInv' /\ LockDiscipline'
  <2>1. cproc[c] \in Slots /\ mode[c] = "run" /\ state[cproc[c]] = "RUNNING"
    BY <1>8 DEF Leave
  <2>2. CpuInv'
    BY <1>8, <2>1 DEF Leave
  <2>3. LockDiscipline'
    BY <1>8, <2>1 DEF Leave
  <2> QED
    BY <2>2, <2>3
<1>9. ASSUME NEW q \in Slots, Touch(q), state[q] # "RUNNING",
             state[q] # "RUNNABLE" \/ UNCHANGED state,
             \A p \in Slots \ {q} : state'[p] = state[p]
      PROVE  CpuInv' /\ LockDiscipline'
  <2>1. UNCHANGED <<plock, cproc, mode, best>> /\ plock[q] = None
    BY <1>9 DEF Touch
  <2>2. \A c \in CPUs : best[c] # q
    BY <2>1
  <2>3. \A c \in CPUs : mode[c] \in {"resume", "run"} => cproc[c] \in Slots \ {q}
    BY <1>9, <2>1
  <2>4. CpuInv'
    BY <1>9, <2>1, <2>3
  <2>5. LockDiscipline'
    <3>1. ASSUME NEW c \in CPUs, best[c] # None PROVE best[c] \in Runnable'
      <4>1. best[c] \in Slots \ {q} /\ state[best[c]] = "RUNNABLE"
        BY <2>2, <3>1
      <4> QED
        BY <1>9, <4>1
    <3> QED
      BY <2>1, <3>1
  <2> QED
    BY <2>4, <2>5
<1>10. ASSUME NEW q \in Slots, Alloc(q) \/ Ready(q) \/ Reap(q)
       PROVE  CpuInv' /\ LockDiscipline'
  BY <1>9, <1>10 DEF Alloc, Ready, Reap
<1>11. ASSUME NEW q \in Slots, NEW prio \in Prios, set_priority(q, prio)
       PROVE  CpuInv' /\ LockDiscipline'
  BY <1>11 DEF set_priority, Touch
<1> QED
  BY <1>1, <1>2, <1>3, <1>4, <1>5, <1>6, <1>7, <1>8, <1>11, <1>10
     DEF Next, Scheduler, Process, Yield, Block, Zombie

(* A process stays RUNNABLE unless it is run, and whoever runs it says so  *)
(* to the walks in progress.                                               *)
LEMMA SteadyStep == IInv /\ Next => SteadyInv'
<1> SUFFICES ASSUME IInv, Next PROVE SteadyInv'
  OBVIOUS
<1> USE SlotFacts
    DEF IInv, TypeOK, CpuInv, LockDiscipline, SteadyInv, Runnable, cpuVars
<1>1. ASSUME NEW c \in CPUs, NEW p \in Slots,
             WalkOn(c, p) \/ WalkFirst(c, p) \/ WalkBetter(c, p)
      PROVE  SteadyInv'
  BY <1>1 DEF WalkOn, WalkFirst, WalkBetter, LockedFor, Visit
<1>2. ASSUME NEW c \in CPUs, Idle(c) \/ Back(c) PROVE SteadyInv'
  BY <1>2 DEF Idle, Back
<1>3. ASSUME NEW c \in CPUs, Run(c) PROVE SteadyInv'
  BY <1>3 DEF Run, Disturb
<1>4. ASSUME NEW c \in CPUs, Resume(c) PROVE SteadyInv'
  BY <1>4 DEF Resume
<1>5. ASSUME NEW c \in CPUs, NEW s \in States, Leave(c, s) PROVE SteadyInv'
  <2>1. cproc[c] \in Slots /\ cproc[c] \notin Runnable
    BY <1>5 DEF Leave
  <2> QED
    BY <1>5, <2>1 DEF Leave
<1>6. ASSUME NEW q \in Slots, Alloc(q) \/ Ready(q) \/ Reap(q) PROVE SteadyInv'
  <2>1. /\ UNCHANGED <<mode, steady>>
        /\ q \notin Runnable
        /\ \A p \in Slots \ {q} : state'[p] = state[p]
    BY <1>6 DEF Alloc, Ready, Reap, Touch
  <2>2. Runnable \subseteq Runnable'
    BY <2>1
  <2> QED
    BY <2>1, <2>2
<1>7. ASSUME NEW q \in Slots, NEW prio \in Prios, set_priority(q, prio)
      PROVE  SteadyInv'
  BY <1>7 DEF set_priority, Touch, Disturb
<1> QED
  BY <1>1, <1>2, <1>3, <1>4, <1>5, <1>6, <1>7
     DEF Next, Scheduler, Process, Yield, Block, Zombie, States

(* The position of a walk only grows while it has a best process. *)
LEMMA MetStep == IInv /\ Next => MetInv'
<1> SUFFICES ASSUME IInv, Next PROVE MetInv'
  OBVIOUS
<1> USE SlotFacts DEF IInv, TypeOK, MetInv, cpuVars
<1>1. ASSUME NEW c \in CPUs, NEW p \in Slots,
             WalkOn(c, p) \/ WalkFirst(c, p) \/ WalkBetter(c, p)
      PROVE  MetInv'
  <2>1. /\ at[c] = p /\ p \in Nat
        /\ at' = [at EXCEPT ![c] = p + 1]
        /\ best'[c] \in {best[c], p}
        /\ \A d \in CPUs \ {c} : best'[d] = best[d]
    BY <1>1 DEF WalkOn, WalkFirst, WalkBetter, LockedFor, Visit
  <2>2. best[c] # None => best[c] \in Nat /\ best[c] < p
    BY <2>1
  <2> QED
    BY <2>1, <2>2
<1>2. ASSUME NEW c \in CPUs, Idle(c) \/ Run(c) PROVE MetInv'
  BY <1>2 DEF Idle, Run
<1>3. ASSUME NEW c \in CPUs, Back(c) PROVE MetInv'
  BY <1>3 DEF Back, LockDiscipline
<1>4. ASSUME UNCHANGED <<best, at>> PROVE MetInv'
  BY <1>4
<1> QED
  BY <1>1, <1>2, <1>3, <1>4
     DEF Next, Scheduler, Process, Resume, Yield, Block, Zombie, Leave, Alloc, Ready,
         Reap, set_priority, Touch

(* A walk whose values stay what they are keeps its best process. *)
LEMMA BestKept ==
  ASSUME IInv, NEW c \in CPUs,
         mode'[c] = "walk" =>
           /\ mode[c] = "walk" /\ at'[c] = at[c] /\ best'[c] = best[c]
           /\ steady'[c] \subseteq steady[c]
           /\ \A q \in steady'[c] \cup {best[c]} : priority'[q] = priority[q]
  PROVE  BestOf(c)'
  BY DEF IInv, BestSoFar, BestOf, Precedes

(* The best process of a walk stays the best: its lock is held, and what   *)
(* happens to the others takes them out of the comparison.                 *)
LEMMA BestStep == IInv /\ Next => BestSoFar'
<1> SUFFICES ASSUME IInv, Next PROVE \A c \in CPUs : BestOf(c)'
  BY DEF BestSoFar, BestOf
<1> USE SlotFacts
<1>1. ASSUME NEW c \in CPUs, NEW p \in Slots,
             WalkOn(c, p) \/ WalkFirst(c, p) \/ WalkBetter(c, p)
      PROVE  \A d \in CPUs : BestOf(d)'
  <2>1. /\ mode[c] = "walk" /\ p = at[c]
        /\ UNCHANGED <<state, priority, mode, steady>>
        /\ at' = [at EXCEPT ![c] = p + 1]
        /\ best' = [best EXCEPT ![c] = best'[c]]
    BY <1>1 DEF WalkOn, WalkFirst, WalkBetter, LockedFor, Visit, IInv, TypeOK
  <2>2. ASSUME NEW d \in CPUs, d # c PROVE BestOf(d)'
    BY <2>1, <2>2, BestKept DEF IInv, TypeOK
  <2>3. ASSUME NEW q \in steady[c], q < p + 1
        PROVE  best'[c] # None /\ Precedes(best'[c], q)
    <3>1. q \in Slots /\ q \in Nat /\ p \in Nat /\ q <= p
          /\ priority[p] \in Int /\ priority[q] \in Int
      BY <2>3 DEF IInv, TypeOK
    <3>2. q < p => best[c] # None /\ Precedes(best[c], q)
      BY <2>1, <2>3 DEF IInv, BestSoFar
    <3>3. best[c] # None => /\ best[c] \in Slots /\ best[c] \in Nat
                            /\ best[c] < p /\ priority[best[c]] \in Int
      BY <2>1 DEF IInv, TypeOK, MetInv
    <3>4. q \in Runnable
      BY <2>1, <2>3 DEF IInv, SteadyInv
    <3>5. CASE WalkOn(c, p)
      <4>1. best'[c] = best[c]
        BY <3>5 DEF WalkOn
      <4>2. CASE q < p
        BY <3>2, <4>1, <4>2
      <4>3. CASE q = p
        <5>1. best[c] # None /\ priority[p] >= priority[best[c]]
          BY <3>1, <3>3, <3>4, <3>5, <4>3 DEF WalkOn, Better
        <5> QED
          BY <3>1, <3>3, <4>1, <4>3, <5>1 DEF Precedes
      <4> QED
        BY <3>1, <4>2, <4>3
    <3>6. CASE WalkFirst(c, p)
      <4>1. best[c] = None /\ best'[c] = p
        BY <3>6 DEF WalkFirst, IInv, TypeOK
      <4>2. q = p
        BY <3>1, <3>2, <4>1
      <4> QED
        BY <3>1, <4>1, <4>2 DEF Precedes
    <3>7. CASE WalkBetter(c, p)
      <4>1. /\ best[c] # None /\ best'[c] = p
            /\ priority[p] < priority[best[c]]
        BY <3>7 DEF WalkBetter, Better, IInv, TypeOK
      <4> QED
        BY <3>1, <3>2, <3>3, <4>1 DEF Precedes
    <3> QED
      BY <1>1, <3>5, <3>6, <3>7
  <2>4. BestOf(c)'
    BY <2>1, <2>3 DEF BestOf, Precedes, IInv, TypeOK
  <2> QED
    BY <2>2, <2>4
<1>2. ASSUME NEW c \in CPUs, Idle(c) \/ Back(c)
      PROVE  \A d \in CPUs : BestOf(d)'
  <2>1. /\ UNCHANGED <<priority, best>>
        /\ at'[c] = 0
        /\ \A d \in CPUs \ {c} : /\ mode'[d] = mode[d] /\ at'[d] = at[d]
                                 /\ steady'[d] = steady[d]
    BY <1>2 DEF Idle, Back, IInv, TypeOK
  <2>2. ASSUME NEW d \in CPUs, d # c PROVE BestOf(d)'
    BY <2>1, <2>2, BestKept
  <2>3. steady'[c] \subseteq Slots
    BY <1>2 DEF Idle, Back, Runnable, IInv, TypeOK
  <2>4. BestOf(c)'
    <3>1. ASSUME NEW q \in steady'[c] PROVE ~(q < at'[c])
      <4>1. q \in Nat /\ at'[c] = 0
        BY <2>1, <2>3
      <4> QED
        BY <4>1
    <3> QED
      BY <3>1 DEF BestOf
  <2> QED
    BY <2>2, <2>4
<1>3. ASSUME NEW c \in CPUs, Run(c) PROVE \A d \in CPUs : BestOf(d)'
  BY <1>3, BestKept DEF Run, Disturb, IInv, TypeOK
<1>4. ASSUME NEW c \in CPUs, Resume(c) PROVE \A d \in CPUs : BestOf(d)'
  BY <1>4, BestKept DEF Resume, IInv, TypeOK
<1>5. ASSUME NEW c \in CPUs, NEW s \in States, Leave(c, s)
      PROVE  \A d \in CPUs : BestOf(d)'
  BY <1>5, BestKept DEF Leave, IInv, TypeOK
<1>6. ASSUME NEW q \in Slots, Alloc(q) PROVE \A d \in CPUs : BestOf(d)'
  <2>1. /\ UNCHANGED <<mode, at, best, steady>> /\ q \notin Runnable
        /\ \A p \in Slots \ {q} : priority'[p] = priority[p]
    BY <1>6 DEF Alloc, Touch, cpuVars, Runnable, IInv, TypeOK
  <2>2. ASSUME NEW d \in CPUs PROVE BestOf(d)'
    <3>1. mode[d] = "walk" => q \notin steady[d] /\ q # best[d]
      BY <2>1 DEF IInv, SteadyInv, LockDiscipline
    <3>2. steady[d] \subseteq Slots /\ best[d] \in Slots \cup {None}
      BY DEF IInv, TypeOK
    <3>3. CASE best[d] = None
      BY <2>1, <3>1, <3>2, <3>3 DEF IInv, BestSoFar, BestOf
    <3>4. CASE best[d] # None
      BY <2>1, <3>1, <3>2, <3>4, BestKept
    <3> QED
      BY <3>3, <3>4
  <2> QED
    BY <2>2
<1>7. ASSUME NEW q \in Slots, Ready(q) \/ Reap(q)
      PROVE  \A d \in CPUs : BestOf(d)'
  BY <1>7, BestKept DEF Ready, Reap, Touch, cpuVars
<1>8. ASSUME NEW q \in Slots, NEW prio \in Prios, set_priority(q, prio)
      PROVE  \A d \in CPUs : BestOf(d)'
  <2>1. /\ UNCHANGED <<mode, at, best>> /\ plock[q] = None
        /\ \A p \in Slots \ {q} : priority'[p] = priority[p]
        /\ \A d \in CPUs : steady'[d] = steady[d] \ {q}
    BY <1>8 DEF set_priority, Touch, Disturb, cpuVars, IInv, TypeOK
  <2>2. ASSUME NEW d \in CPUs PROVE BestOf(d)'
    <3>1. q # best[d]
      BY <2>1 DEF IInv, LockDiscipline
    <3>2. steady[d] \subseteq Slots /\ best[d] \in Slots \cup {None}
      BY DEF IInv, TypeOK
    <3>3. CASE best[d] = None
      BY <2>1, <3>2, <3>3 DEF IInv, BestSoFar, BestOf
    <3>4. CASE best[d] # None
      BY <2>1, <3>1, <3>2, <3>4, BestKept
    <3> QED
      BY <3>3, <3>4
  <2> QED
    BY <2>2
<1> QED
  BY <1>1, <1>2, <1>3, <1>4, <1>5, <1>6, <1>7, <1>8
     DEF Next, Scheduler, Process, Yield, Block, Zombie, States

-----------------------------------------------------------------------------
(* The invariant holds always. *)
THEOREM Invariance == Spec => []IInv
<1>1. IInv /\ [Next]_vars => IInv'
  <2> SUFFICES ASSUME IInv, [Next]_vars PROVE IInv'
    OBVIOUS
  <2>1. CASE Next
    BY <2>1, TypeStep, LockStep, SteadyStep, MetStep, BestStep DEF IInv
  <2>2. CASE UNCHANGED vars
    BY <2>2 DEF IInv, TypeOK, CpuInv, LockDiscipline, SteadyInv, MetInv, BestSoFar,
                Precedes, Runnable, vars, cpuVars
  <2> QED
    BY <2>1, <2>2
<1> QED
  BY InitIInv, <1>1, PTL DEF Spec

(* The variables keep their types, at no index outside the table. *)
THEOREM TypeCorrect == Spec => []TypeOK
  BY Invariance, PTL DEF IInv

(* A walk holds the lock of its best process, a switch that of its process,*)
(* nobody holds another, and no process runs on two CPUs.                  *)
THEOREM LocksSafe == Spec => []LockDiscipline
  BY Invariance, PTL DEF IInv

(* The walk of scheduler() ends with the best of all processes that did not *)
(* change while it lasted.                                                 *)
THEOREM BestChosen == Spec => []BestSoFar
  BY Invariance, PTL DEF IInv
=============================================================================
