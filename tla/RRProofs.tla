------------------------------ MODULE RRProofs ------------------------------
(***************************************************************************)
(* The week 5 scheduler is a round robin: theorems about RRScheduler for   *)
(* every number of slots and CPUs.                                         *)
(***************************************************************************)
EXTENDS RRScheduler, FiniteSetTheorems, TLAPS

(* The modes in which a CPU executes, or leaves, the process it has met. *)
Busy == {"resume", "run", "back"}

(* What the mode of a CPU says of its process and of its walk. *)
CpuInv ==
  \A c \in CPUs :
    /\ mode[c] \in Busy <=> cproc[c] # None
    /\ mode[c] \in Busy => cproc[c] = at[c] /\ at[c] < NPROC
    /\ mode[c] \in {"resume", "run"} => state[cproc[c]] = "RUNNING"
    /\ mode[c] = "back" => state[cproc[c]] # "RUNNING"

(* CPU c has run q and has not come past p since: going round from q, it   *)
(* has not got beyond p.                                                   *)
Between(c, q, p) ==
  \/ at[c] = q /\ mode[c] \in Busy
  \/ /\ at[c] < p \/ (at[c] = p /\ mode[c] \notin Busy)
     /\ q < at[c] \/ p < q
  \/ p < q /\ q < at[c]

(* The CPUs that may have run q while p waits. *)
Runners(q, p) == {c \in CPUs : Between(c, q, p)}

(* Each CPU passes a waiting process at most once with the same other one. *)
PassInv ==
  \A p, q \in Slots :
    state[p] = "RUNNABLE" =>
      passed[p][q] <= IF p = q THEN 0 ELSE Cardinality(Runners(q, p))

IInv == TypeOK /\ CpuInv /\ LockDiscipline /\ PassInv

-----------------------------------------------------------------------------
(* Slots are numbers below NPROC. *)
LEMMA SlotFacts ==
  /\ NPROC \in Nat /\ NPROC > 0
  /\ Slots \subseteq Nat
  /\ \A n \in 0 .. NPROC : n < NPROC => n \in Slots /\ n + 1 \in 0 .. NPROC
  /\ \A p \in Slots : p \in 0 .. NPROC /\ p < NPROC
  /\ None \notin Slots /\ None \notin CPUs
  BY SchedAssumption DEF Slots

(* There are finitely many CPUs, so a set of them has a number of elements. *)
LEMMA RunnersFinite ==
  ASSUME NEW S, S \subseteq CPUs
  PROVE  IsFiniteSet(S) /\ Cardinality(S) \in Nat
  BY SchedAssumption, FS_Subset, FS_CardinalityType

(* A larger set of CPUs has no smaller number of elements, and one more if *)
(* it has an element of its own.                                           *)
LEMMA RunnersGrow ==
  ASSUME NEW S, NEW T, S \subseteq T, T \subseteq CPUs
  PROVE  /\ Cardinality(S) <= Cardinality(T)
         /\ \A c \in T \ S : Cardinality(S) + 1 <= Cardinality(T)
<1>1. IsFiniteSet(S) /\ IsFiniteSet(T) /\ Cardinality(S) \in Nat
      /\ Cardinality(T) \in Nat
  BY RunnersFinite
<1>2. Cardinality(S) <= Cardinality(T)
  BY <1>1, FS_Subset
<1>3. ASSUME NEW c \in T \ S PROVE Cardinality(S) + 1 <= Cardinality(T)
  <2>1. Cardinality(S \cup {c}) = Cardinality(S) + 1
    BY <1>1, <1>3, FS_AddElement
  <2>2. S \cup {c} \subseteq T
    BY <1>3
  <2> QED
    BY <1>1, <2>1, <2>2, FS_Subset
<1> QED
  BY <1>2, <1>3

(* At the start no process has been passed. *)
LEMMA InitIInv == Init => IInv
<1> SUFFICES ASSUME Init PROVE IInv
  OBVIOUS
<1> USE SlotFacts DEF Init
<1>1. TypeOK
  BY DEF TypeOK, Modes
<1>2. CpuInv /\ LockDiscipline
  BY DEF CpuInv, LockDiscipline, Busy
<1>3. PassInv
  BY RunnersFinite DEF PassInv, Runners
<1> QED
  BY <1>1, <1>2, <1>3 DEF IInv

-----------------------------------------------------------------------------
(* Types, modes and locks.                                                 *)

(* Every step keeps the types. *)
LEMMA TypeStep == IInv /\ Next => TypeOK'
<1> SUFFICES ASSUME IInv, Next PROVE TypeOK'
  OBVIOUS
<1> USE SlotFacts DEF IInv, TypeOK, CpuInv, Busy
<1>1. ASSUME NEW c \in CPUs, Skip(c) PROVE TypeOK'
  BY <1>1 DEF Skip
<1>2. ASSUME NEW c \in CPUs, Run(c) PROVE TypeOK'
  BY <1>2 DEF Run, Pass, Modes
<1>3. ASSUME NEW c \in CPUs, Back(c) PROVE TypeOK'
  BY <1>3 DEF Back, Modes
<1>4. ASSUME NEW c \in CPUs, EndOfWalk(c) PROVE TypeOK'
  BY <1>4 DEF EndOfWalk, Modes
<1>5. ASSUME NEW c \in CPUs, Interrupt(c) \/ Resume(c) PROVE TypeOK'
  BY <1>5 DEF Interrupt, Resume, Modes
<1>6. ASSUME NEW c \in CPUs, Yield(c) PROVE TypeOK'
  BY <1>6 DEF Yield, Forget, Modes
<1>7. ASSUME NEW c \in CPUs, Sleep(c) PROVE TypeOK'
  BY <1>7 DEF Sleep, Modes
<1>8. ASSUME NEW p \in Slots, Wakeup(p) PROVE TypeOK'
  BY <1>8 DEF Wakeup, Forget
<1> QED
  BY <1>1, <1>2, <1>3, <1>4, <1>5, <1>6, <1>7, <1>8 DEF Next, Scheduler

(* Every step keeps what the modes say, and the locking discipline. *)
LEMMA LockStep == IInv /\ Next => CpuInv' /\ LockDiscipline'
<1> SUFFICES ASSUME IInv, Next PROVE CpuInv' /\ LockDiscipline'
  OBVIOUS
<1> USE SlotFacts DEF IInv, TypeOK, CpuInv, LockDiscipline, Busy, Modes
<1>1. ASSUME NEW c \in CPUs, Skip(c) PROVE CpuInv' /\ LockDiscipline'
  BY <1>1 DEF Skip
<1>2. ASSUME NEW c \in CPUs, Run(c) PROVE CpuInv' /\ LockDiscipline'
  BY <1>2 DEF Run
<1>3. ASSUME NEW c \in CPUs, Back(c) PROVE CpuInv' /\ LockDiscipline'
  BY <1>3 DEF Back
<1>4. ASSUME NEW c \in CPUs, EndOfWalk(c) PROVE CpuInv' /\ LockDiscipline'
  BY <1>4 DEF EndOfWalk
<1>5. ASSUME NEW c \in CPUs, Interrupt(c) PROVE CpuInv' /\ LockDiscipline'
  BY <1>5 DEF Interrupt
<1>6. ASSUME NEW c \in CPUs, Resume(c) PROVE CpuInv' /\ LockDiscipline'
  BY <1>6 DEF Resume
<1>7. ASSUME NEW c \in CPUs, Yield(c) PROVE CpuInv' /\ LockDiscipline'
  BY <1>7 DEF Yield
<1>8. ASSUME NEW c \in CPUs, Sleep(c) PROVE CpuInv' /\ LockDiscipline'
  BY <1>8 DEF Sleep
<1>9. ASSUME NEW p \in Slots, Wakeup(p) PROVE CpuInv' /\ LockDiscipline'
  BY <1>9 DEF Wakeup
<1> QED
  BY <1>1, <1>2, <1>3, <1>4, <1>5, <1>6, <1>7, <1>8, <1>9 DEF Next, Scheduler

-----------------------------------------------------------------------------
(* Who has passed whom.                                                    *)

(* A step that counts nothing, and takes no CPU beyond a process that goes *)
(* on waiting, preserves PassInv.                                          *)
LEMMA PassKept ==
  ASSUME IInv, UNCHANGED passed,
         \A p \in Slots : state'[p] = "RUNNABLE" => state[p] = "RUNNABLE",
         \A p, q \in Slots, c \in CPUs :
           p # q /\ state'[p] = "RUNNABLE" /\ Between(c, q, p) => Between(c, q, p)'
  PROVE  PassInv'
<1> SUFFICES ASSUME NEW p \in Slots, NEW q \in Slots, state'[p] = "RUNNABLE"
             PROVE  passed'[p][q] <= IF p = q THEN 0
                                     ELSE Cardinality(Runners(q, p)')
  BY DEF PassInv, Runners
<1>1. passed[p][q] \in Nat
  BY DEF IInv, TypeOK
<1>2. CASE p = q
  BY <1>2 DEF IInv, PassInv
<1>3. CASE p # q
  <2>1. Runners(q, p) \subseteq Runners(q, p)' /\ Runners(q, p)' \subseteq CPUs
    BY <1>3 DEF Runners
  <2>2. Cardinality(Runners(q, p)) <= Cardinality(Runners(q, p)')
    BY <2>1, RunnersGrow
  <2>3. Cardinality(Runners(q, p)) \in Nat /\ Cardinality(Runners(q, p)') \in Nat
    BY <2>1, RunnersFinite
  <2>4. passed[p][q] <= Cardinality(Runners(q, p))
    BY <1>3 DEF IInv, PassInv
  <2> QED
    BY <1>1, <1>3, <2>2, <2>3, <2>4
<1> QED
  BY <1>2, <1>3

(* A process that becomes RUNNABLE has not been passed, and the position   *)
(* of no CPU changes with respect to the others.                           *)
LEMMA PassForgotten ==
  ASSUME IInv, NEW r \in Slots, Forget(r),
         \A p \in Slots \ {r} : state'[p] = state[p],
         \A p, q \in Slots, c \in CPUs :
           p # r /\ state[p] = "RUNNABLE" /\ Between(c, q, p) => Between(c, q, p)'
  PROVE  PassInv'
<1> SUFFICES ASSUME NEW p \in Slots, NEW q \in Slots, state'[p] = "RUNNABLE"
             PROVE  passed'[p][q] <= IF p = q THEN 0
                                     ELSE Cardinality(Runners(q, p)')
  BY DEF PassInv, Runners
<1>1. passed[p][q] \in Nat /\ passed'[p][q] = IF p = r THEN 0 ELSE passed[p][q]
  BY DEF IInv, TypeOK, Forget
<1>2. Runners(q, p)' \subseteq CPUs
  BY DEF Runners
<1>3. Cardinality(Runners(q, p)') \in Nat
  BY <1>2, RunnersFinite
<1>4. CASE p = r
  BY <1>1, <1>3, <1>4
<1>5. CASE p # r
  <2>1. state[p] = "RUNNABLE"
    BY <1>5
  <2>2. Runners(q, p) \subseteq Runners(q, p)'
    BY <1>5, <2>1 DEF Runners
  <2>3. Cardinality(Runners(q, p)) <= Cardinality(Runners(q, p)')
    BY <1>2, <2>2, RunnersGrow
  <2>4. Cardinality(Runners(q, p)) \in Nat
    BY <1>2, <2>2, RunnersFinite
  <2>5. passed[p][q] <= IF p = q THEN 0 ELSE Cardinality(Runners(q, p))
    BY <2>1 DEF IInv, PassInv
  <2> QED
    BY <1>1, <1>3, <1>5, <2>3, <2>4, <2>5
<1> QED
  BY <1>4, <1>5

(* The CPU that runs q was not among those that had run it since p waits.  *)
LEMMA PassRun == ASSUME IInv, NEW c \in CPUs, Run(c) PROVE PassInv'
<1> USE SlotFacts DEF IInv, TypeOK
<1> DEFINE r == at[c]
<1>1. r \in Slots /\ mode[c] = "walk"
  BY DEF Run
<1> SUFFICES ASSUME NEW p \in Slots, NEW q \in Slots, state'[p] = "RUNNABLE"
             PROVE  passed'[p][q] <= IF p = q THEN 0
                                     ELSE Cardinality(Runners(q, p)')
  BY DEF PassInv, Runners
<1>2. p # r /\ state[p] = "RUNNABLE"
  BY <1>1 DEF Run
<1>3. /\ passed[p][q] \in Nat /\ passed'[p][q] \in Nat
      /\ passed'[p][q] <= passed[p][q] + 1
      /\ q # r => passed'[p][q] = passed[p][q]
      /\ p = q => passed'[p][q] = passed[p][q]
  BY <1>1, <1>2 DEF Run, Pass
<1>4. CASE p = q
  BY <1>2, <1>3, <1>4 DEF PassInv
<1>5. CASE p # q
  <2>1. Runners(q, p) \subseteq Runners(q, p)' /\ Runners(q, p)' \subseteq CPUs
    BY <1>1, <1>2, <1>5 DEF Runners, Between, Busy, Run
  <2>2. Cardinality(Runners(q, p)) \in Nat /\ Cardinality(Runners(q, p)') \in Nat
    BY <2>1, RunnersFinite
  <2>3. passed[p][q] <= Cardinality(Runners(q, p))
    BY <1>2, <1>5 DEF PassInv
  <2>4. CASE q = r
    <3>1. c \in Runners(q, p)' \ Runners(q, p)
      BY <1>1, <1>2, <2>4 DEF Runners, Between, Busy, Run
    <3>2. Cardinality(Runners(q, p)) + 1 <= Cardinality(Runners(q, p)')
      BY <2>1, <3>1, RunnersGrow
    <3> QED
      BY <1>3, <1>5, <2>2, <2>3, <2>4, <3>2
  <2>5. CASE q # r
    <3>1. Cardinality(Runners(q, p)) <= Cardinality(Runners(q, p)')
      BY <2>1, RunnersGrow
    <3> QED
      BY <1>3, <1>5, <2>2, <2>3, <2>5, <3>1
  <2> QED
    BY <2>4, <2>5
<1> QED
  BY <1>4, <1>5

(* Every step preserves PassInv: a CPU leaves the slot of a waiting process *)
(* only by running it.                                                     *)
LEMMA PassStep == IInv /\ Next => PassInv'
<1> SUFFICES ASSUME IInv, Next PROVE PassInv'
  OBVIOUS
<1> USE SlotFacts DEF TypeOK, CpuInv, Busy, Modes
<1>1. ASSUME NEW c \in CPUs, Skip(c) PROVE PassInv'
  <2>1. ASSUME NEW p \in Slots, NEW q \in Slots, NEW d \in CPUs,
               state'[p] = "RUNNABLE", Between(d, q, p)
        PROVE  Between(d, q, p)'
    <3>1. /\ at[d] \in Nat /\ at[c] \in Nat /\ p \in Nat /\ q \in Nat
          /\ at'[d] = IF d = c THEN at[c] + 1 ELSE at[d]
          /\ mode'[d] = IF d = c THEN "walk" ELSE mode[d]
      BY <1>1 DEF Skip, IInv
    <3>2. CASE d # c
      BY <2>1, <3>1, <3>2 DEF Between
    <3>3. CASE d = c
      <4>1. at[c] # p /\ mode[c] = "walk"
        BY <1>1, <2>1 DEF Skip
      <4> QED
        BY <2>1, <3>1, <3>3, <4>1 DEF Between
    <3> QED
      BY <3>2, <3>3
  <2> QED
    BY <1>1, <2>1, PassKept DEF Skip
<1>2. ASSUME NEW c \in CPUs, Run(c) PROVE PassInv'
  BY <1>2, PassRun
<1>3. ASSUME NEW c \in CPUs, Back(c) PROVE PassInv'
  <2>1. ASSUME NEW p \in Slots, NEW q \in Slots, NEW d \in CPUs, p # q,
               state'[p] = "RUNNABLE", Between(d, q, p)
        PROVE  Between(d, q, p)'
    <3>1. /\ at[d] \in Nat /\ at[c] \in Nat /\ p \in Nat /\ q \in Nat
          /\ at'[d] = IF d = c THEN at[c] + 1 ELSE at[d]
          /\ mode'[d] = IF d = c THEN "walk" ELSE mode[d]
      BY <1>3 DEF Back, IInv
    <3>2. CASE d # c
      BY <2>1, <3>1, <3>2 DEF Between
    <3>3. CASE d = c
      <4>1. mode[c] \in Busy
        BY <1>3 DEF Back
      <4> QED
        BY <2>1, <3>1, <3>3, <4>1 DEF Between
    <3> QED
      BY <3>2, <3>3
  <2> QED
    BY <1>3, <2>1, PassKept DEF Back
<1>4. ASSUME NEW c \in CPUs, EndOfWalk(c) PROVE PassInv'
  <2>1. ASSUME NEW p \in Slots, NEW q \in Slots, NEW d \in CPUs,
               Between(d, q, p)
        PROVE  Between(d, q, p)'
    BY <1>4, <2>1 DEF EndOfWalk, Between, IInv
  <2> QED
    BY <1>4, <2>1, PassKept DEF EndOfWalk
<1>5. ASSUME NEW c \in CPUs, Interrupt(c) PROVE PassInv'
  <2>1. ASSUME NEW p \in Slots, NEW q \in Slots, NEW d \in CPUs,
               Between(d, q, p)
        PROVE  Between(d, q, p)'
    BY <1>5, <2>1 DEF Interrupt, Between, IInv
  <2> QED
    BY <1>5, <2>1, PassKept DEF Interrupt
<1>6. ASSUME NEW c \in CPUs, Resume(c) PROVE PassInv'
  <2>1. ASSUME NEW p \in Slots, NEW q \in Slots, NEW d \in CPUs,
               Between(d, q, p)
        PROVE  Between(d, q, p)'
    BY <1>6, <2>1 DEF Resume, Between, IInv
  <2> QED
    BY <1>6, <2>1, PassKept DEF Resume
<1>7. ASSUME NEW c \in CPUs, Yield(c) PROVE PassInv'
  <2>1. cproc[c] \in Slots
    BY <1>7 DEF Yield, IInv
  <2>2. ASSUME NEW p \in Slots, NEW q \in Slots, NEW d \in CPUs,
               Between(d, q, p)
        PROVE  Between(d, q, p)'
    BY <1>7, <2>2 DEF Yield, Between, IInv
  <2> QED
    BY <1>7, <2>1, <2>2, PassForgotten DEF Yield, IInv
<1>8. ASSUME NEW c \in CPUs, Sleep(c) PROVE PassInv'
  <2>1. ASSUME NEW p \in Slots, NEW q \in Slots, NEW d \in CPUs,
               Between(d, q, p)
        PROVE  Between(d, q, p)'
    BY <1>8, <2>1 DEF Sleep, Between, IInv
  <2>2. \A p \in Slots : state'[p] = "RUNNABLE" => state[p] = "RUNNABLE"
    BY <1>8 DEF Sleep, IInv
  <2> QED
    BY <1>8, <2>1, <2>2, PassKept DEF Sleep
<1>9. ASSUME NEW r \in Slots, Wakeup(r) PROVE PassInv'
  <2>1. ASSUME NEW p \in Slots, NEW q \in Slots, NEW d \in CPUs,
               Between(d, q, p)
        PROVE  Between(d, q, p)'
    BY <1>9, <2>1 DEF Wakeup, Between
  <2> QED
    BY <1>9, <2>1, PassForgotten DEF Wakeup, IInv
<1> QED
  BY <1>1, <1>2, <1>3, <1>4, <1>5, <1>6, <1>7, <1>8, <1>9 DEF Next, Scheduler

-----------------------------------------------------------------------------
(* The invariant holds always. *)
THEOREM Invariance == Spec => []IInv
<1>1. IInv /\ [Next]_vars => IInv'
  <2> SUFFICES ASSUME IInv, [Next]_vars PROVE IInv'
    OBVIOUS
  <2>1. CASE Next
    BY <2>1, TypeStep, LockStep, PassStep DEF IInv
  <2>2. CASE UNCHANGED vars
    <3>1. TypeOK' /\ CpuInv' /\ LockDiscipline'
      BY <2>2 DEF IInv, TypeOK, CpuInv, LockDiscipline, vars
    <3>2. \A c \in CPUs, p, q \in Slots : Between(c, q, p)' <=> Between(c, q, p)
      BY <2>2 DEF Between, vars
    <3>3. PassInv'
      BY <2>2, <3>2, PassKept DEF vars
    <3> QED
      BY <3>1, <3>3 DEF IInv
  <2> QED
    BY <2>1, <2>2
<1> QED
  BY InitIInv, <1>1, PTL DEF Spec

(* The variables keep their types, at no index outside the table. *)
THEOREM TypeCorrect == Spec => []TypeOK
  BY Invariance, PTL DEF IInv

(* Locks are held on behalf of switching processes only, by the CPU that   *)
(* switches, and no process runs on two CPUs.                              *)
THEOREM LocksSafe == Spec => []LockDiscipline
  BY Invariance, PTL DEF IInv

(* The scheduler is a round robin: a waiting process is passed by any      *)
(* other at most once per CPU.                                             *)
THEOREM Fair == Spec => []RoundRobin
<1>1. IInv => RoundRobin
  <2> SUFFICES ASSUME IInv, NEW p \in Slots, NEW q \in Slots,
                      state[p] = "RUNNABLE"
               PROVE  passed[p][q] <= Cardinality(CPUs)
    BY DEF RoundRobin
  <2>1. passed[p][q] \in Nat
    BY DEF IInv, TypeOK
  <2>2. Runners(q, p) \subseteq CPUs
    BY DEF Runners
  <2>3. /\ Cardinality(Runners(q, p)) \in Nat /\ Cardinality(CPUs) \in Nat
        /\ Cardinality(Runners(q, p)) <= Cardinality(CPUs)
    BY <2>2, RunnersFinite, RunnersGrow
  <2>4. passed[p][q] <= IF p = q THEN 0 ELSE Cardinality(Runners(q, p))
    BY DEF IInv, PassInv
  <2> QED
    BY <2>1, <2>3, <2>4
<1> QED
  BY Invariance, <1>1, PTL
=============================================================================
