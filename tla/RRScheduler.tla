----------------------------- MODULE RRScheduler -----------------------------
(***************************************************************************)
(* scheduler() of the week 5 kernel (week5/proc.c): every CPU walks over   *)
(* the process table, runs each RUNNABLE process it meets until that       *)
(* process gives the CPU back, and goes on with the next slot; after a     *)
(* whole walk without work it waits for an interrupt.                      *)
(*                                                                         *)
(* A slot's lock is held from the swtch() to a process until the process   *)
(* releases it, and from the process's way back until the scheduler        *)
(* releases it; visits that release the lock at once are one step.         *)
(***************************************************************************)
EXTENDS Integers, FiniteSets

CONSTANTS
  NPROC,   (* number of slots                          *)
  CPUs,    (* the set of CPUs                          *)
  None     (* no process, and the owner of a free lock *)

Slots == 0 .. NPROC - 1

ASSUME SchedAssumption ==
  /\ NPROC \in Nat \ {0}
  /\ IsFiniteSet(CPUs)
  /\ None \notin Slots \cup CPUs

VARIABLES
  state,   (* state[p]: "SLEEPING", "RUNNABLE" or "RUNNING"               *)
  plock,   (* plock[p]: the CPU that holds p->lock                        *)
  cproc,   (* cproc[c]: c->proc                                           *)
  mode,    (* what CPU c executes: the walk, a process just resumed, a    *)
           (* process, the way back from it, or wfi                       *)
  at,      (* at[c]: the slot the walk of c has reached                   *)
  found,   (* found[c]: this walk of c has run a process                  *)
  passed   (* passed[p][q]: history, how often q was run since p last     *)
           (* became RUNNABLE                                             *)

vars == <<state, plock, cproc, mode, at, found, passed>>

Modes == {"walk", "resume", "run", "back", "wfi"}

TypeOK ==
  /\ state \in [Slots -> {"SLEEPING", "RUNNABLE", "RUNNING"}]
  /\ plock \in [Slots -> CPUs \cup {None}]
  /\ cproc \in [CPUs -> Slots \cup {None}]
  /\ mode \in [CPUs -> Modes]
  /\ at \in [CPUs -> 0 .. NPROC]
  /\ found \in [CPUs -> BOOLEAN]
  /\ passed \in [Slots -> [Slots -> Nat]]

Init ==
  /\ state \in [Slots -> {"SLEEPING", "RUNNABLE"}]
  /\ plock = [p \in Slots |-> None]
  /\ cproc = [c \in CPUs |-> None]
  /\ mode = [c \in CPUs |-> "walk"]
  /\ at = [c \in CPUs |-> 0]
  /\ found = [c \in CPUs |-> FALSE]
  /\ passed = [p \in Slots |-> [q \in Slots |-> 0]]

(* p becomes RUNNABLE: nobody has passed it yet. *)
Forget(p) == passed' = [passed EXCEPT ![p] = [q \in Slots |-> 0]]

(* Bound: passed stops counting above what RoundRobin allows. *)
MaxPassed == Cardinality(CPUs) + 1

(* q is run: it passes every process that stays RUNNABLE. *)
Pass(q) ==
  passed' = [p \in Slots |-> [passed[p] EXCEPT ![q] =
               IF p # q /\ state[p] = "RUNNABLE" /\ @ < MaxPassed
               THEN @ + 1 ELSE @]]

-----------------------------------------------------------------------------
(* scheduler() *)

(* The slot holds nothing to run. *)
Skip(c) ==
  /\ mode[c] = "walk"
  /\ at[c] < NPROC
  /\ plock[at[c]] = None
  /\ state[at[c]] # "RUNNABLE"
  /\ at' = [at EXCEPT ![c] = @ + 1]
  /\ UNCHANGED <<state, plock, cproc, mode, found, passed>>

(* Switch to the RUNNABLE process of the slot. *)
Run(c) ==
  /\ mode[c] = "walk"
  /\ at[c] < NPROC
  /\ plock[at[c]] = None
  /\ state[at[c]] = "RUNNABLE"
  /\ state' = [state EXCEPT ![at[c]] = "RUNNING"]
  /\ plock' = [plock EXCEPT ![at[c]] = c]
  /\ cproc' = [cproc EXCEPT ![c] = at[c]]
  /\ mode' = [mode EXCEPT ![c] = "resume"]
  /\ Pass(at[c])
  /\ UNCHANGED <<at, found>>

(* Mutant: the walk starts over after each process it has run. *)
Back_StartsOver(c) ==
  /\ mode[c] = "back"
  /\ plock' = [plock EXCEPT ![cproc[c]] = None]
  /\ cproc' = [cproc EXCEPT ![c] = None]
  /\ mode' = [mode EXCEPT ![c] = "walk"]
  /\ found' = [found EXCEPT ![c] = TRUE]
  /\ at' = [at EXCEPT ![c] = 0]
  /\ UNCHANGED <<state, passed>>

(* The process is done for now: on to the next slot. *)
Back(c) ==
  /\ mode[c] = "back"
  /\ plock' = [plock EXCEPT ![cproc[c]] = None]
  /\ cproc' = [cproc EXCEPT ![c] = None]
  /\ mode' = [mode EXCEPT ![c] = "walk"]
  /\ found' = [found EXCEPT ![c] = TRUE]
  /\ at' = [at EXCEPT ![c] = @ + 1]
  /\ UNCHANGED <<state, passed>>

(* The end of a walk: start over, or wait for an interrupt. *)
EndOfWalk(c) ==
  /\ mode[c] = "walk"
  /\ at[c] = NPROC
  /\ at' = [at EXCEPT ![c] = 0]
  /\ found' = [found EXCEPT ![c] = FALSE]
  /\ mode' = [mode EXCEPT ![c] = IF found[c] THEN "walk" ELSE "wfi"]
  /\ UNCHANGED <<state, plock, cproc, passed>>

(* The timer interrupt ends the wfi. *)
Interrupt(c) ==
  /\ mode[c] = "wfi"
  /\ mode' = [mode EXCEPT ![c] = "walk"]
  /\ UNCHANGED <<state, plock, cproc, at, found, passed>>

-----------------------------------------------------------------------------
(* The processes *)

(* The resumed process releases its lock. *)
Resume(c) ==
  /\ mode[c] = "resume"
  /\ plock' = [plock EXCEPT ![cproc[c]] = None]
  /\ mode' = [mode EXCEPT ![c] = "run"]
  /\ UNCHANGED <<state, cproc, at, found, passed>>

(* A timer interrupt: yield(). *)
Yield(c) ==
  /\ mode[c] = "run"
  /\ plock[cproc[c]] = None
  /\ plock' = [plock EXCEPT ![cproc[c]] = c]
  /\ state' = [state EXCEPT ![cproc[c]] = "RUNNABLE"]
  /\ mode' = [mode EXCEPT ![c] = "back"]
  /\ Forget(cproc[c])
  /\ UNCHANGED <<cproc, at, found>>

(* The process blocks: sleep(). *)
Sleep(c) ==
  /\ mode[c] = "run"
  /\ plock[cproc[c]] = None
  /\ plock' = [plock EXCEPT ![cproc[c]] = c]
  /\ state' = [state EXCEPT ![cproc[c]] = "SLEEPING"]
  /\ mode' = [mode EXCEPT ![c] = "back"]
  /\ UNCHANGED <<cproc, at, found, passed>>

(* wakeup() by a running process or an interrupt handler. *)
Wakeup(p) ==
  /\ plock[p] = None
  /\ state[p] = "SLEEPING"
  /\ state' = [state EXCEPT ![p] = "RUNNABLE"]
  /\ Forget(p)
  /\ UNCHANGED <<plock, cproc, mode, at, found>>

Scheduler(c) == Skip(c) \/ Run(c) \/ Back(c) \/ EndOfWalk(c) \/ Interrupt(c)

Next ==
  \/ \E c \in CPUs : Scheduler(c) \/ Resume(c) \/ Yield(c) \/ Sleep(c)
  \/ \E p \in Slots : Wakeup(p)

Spec == Init /\ [][Next]_vars

(* Timer interrupts keep coming: a running process gives up the CPU again   *)
(* and wfi ends.  A CPU that spins on a lock is not starved by the others   *)
(* for ever.                                                                *)
FairSpec ==
  /\ Spec
  /\ \A c \in CPUs : /\ SF_vars(Scheduler(c))
                     /\ WF_vars(Resume(c))
                     /\ WF_vars(Yield(c) \/ Sleep(c))
-----------------------------------------------------------------------------
(* Round robin: while a process waits RUNNABLE, every other process is run  *)
(* at most once by each CPU, so that none can overtake it again and again.  *)
RoundRobin ==
  \A p, q \in Slots : state[p] = "RUNNABLE" => passed[p][q] <= Cardinality(CPUs)

(* A lock is held only on behalf of the process that is switching, by the   *)
(* CPU it switches on or off, and no process is on two CPUs.                *)
LockDiscipline ==
  /\ \A c \in CPUs, p \in Slots :
       plock[p] = c <=> mode[c] \in {"resume", "back"} /\ cproc[c] = p
  /\ \A c, d \in CPUs : cproc[c] # None /\ cproc[c] = cproc[d] => c = d

(* Every RUNNABLE process gets to run, a process that becomes RUNNABLE      *)
(* behind the walk of a CPU on its way to wfi included.                     *)
NoStarvation ==
  \A p \in Slots : state[p] = "RUNNABLE" ~> state[p] = "RUNNING"
=============================================================================
