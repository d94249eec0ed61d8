-------------------------------- MODULE Pause --------------------------------
(***************************************************************************)
(* pause() of week7/sysproc.c with what it meets in week7/proc.c: the      *)
(* sleep() on the clock, the wakeup() of each tick, and kkill().  ticks    *)
(* is an unsigned number that wraps around.  clockintr() is in trap.c,     *)
(* which the repository does not hold: it counts the tick and wakes the    *)
(* sleepers, with tickslock.                                               *)
(*                                                                         *)
(* What is done under p->lock is one step.                                 *)
(***************************************************************************)
EXTENDS Integers

CONSTANTS
  Procs,    (* the processes                                              *)
  Modulus,  (* the number of values of ticks                              *)
  MaxCount, (* the largest argument of pause()                            *)
  Clock,    (* clockintr(), as an owner of tickslock                      *)
  None      (* the owner of a free lock                                   *)

(* A pause is shorter than one turn of the clock. *)
ASSUME PauseAssumption ==
  /\ Modulus \in Nat
  /\ MaxCount \in Nat /\ MaxCount < Modulus - 1
  /\ Clock \notin Procs /\ None \notin Procs /\ Clock # None

VARIABLES
  ticks, tickslock,
  pc,          (* what each process does                                  *)
  n, ticks0,   (* the locals of sys_pause()                               *)
  killed,      (* the processes whose p->killed is set                    *)
  todo,        (* the slots the wakeup() of clockintr() has still to visit *)
  elapsed,     (* history: the ticks since ticks0 was read                *)
  marked       (* history: the processes killed before the last tick      *)

local == <<n, ticks0>>
vars == <<ticks, tickslock, pc, local, killed, todo, elapsed, marked>>

(* Where a process is in sys_pause(), and where after its return. *)
Inside == {"test", "check", "sleep", "sleeping", "woken"}
Outside == {"user", "returned", "aborted", "exited"}

TypeOK ==
  /\ ticks \in 0 .. Modulus - 1
  /\ tickslock \in Procs \cup {Clock, None}
  /\ pc \in [Procs -> Inside \cup Outside]
  /\ n \in [Procs -> 0 .. MaxCount]
  /\ ticks0 \in [Procs -> 0 .. Modulus - 1]
  /\ killed \subseteq Procs
  /\ todo \subseteq Procs
  /\ elapsed \in [Procs -> 0 .. Modulus - 1]
  /\ marked \subseteq killed

Init ==
  /\ ticks \in 0 .. Modulus - 1
  /\ tickslock = None
  /\ pc = [p \in Procs |-> "user"]
  /\ n = [p \in Procs |-> 0]
  /\ ticks0 = [p \in Procs |-> 0]
  /\ killed = {} /\ todo = {}
  /\ elapsed = [p \in Procs |-> 0]
  /\ marked = {}

Goto(p, here, next) == pc[p] = here /\ pc' = [pc EXCEPT ![p] = next]

-----------------------------------------------------------------------------
(* sys_pause() *)

(* acquire(&tickslock), and ticks0 = ticks.  A negative count is none.  A    *)
(* kill() may have come since usertrap() looked.                            *)
Enter(p, k) ==
  /\ Goto(p, "user", "test")
  /\ tickslock = None /\ tickslock' = p
  /\ n' = [n EXCEPT ![p] = IF k < 0 THEN 0 ELSE k]
  /\ ticks0' = [ticks0 EXCEPT ![p] = ticks]
  /\ elapsed' = [elapsed EXCEPT ![p] = 0]
  /\ UNCHANGED <<ticks, killed, todo, marked>>

(* ticks - ticks0, which wraps. *)
Since(p) ==
  IF ticks >= ticks0[p] THEN ticks - ticks0[p] ELSE ticks - ticks0[p] + Modulus

(* Mutant: the end of the pause is computed, and compared with the clock.  *)
TimeLeft_Absolute(p) == ticks < (ticks0[p] + n[p]) % Modulus
TimeLeft(p) == Since(p) < n[p]

Test(p) ==
  /\ IF TimeLeft(p) THEN Goto(p, "test", "check") /\ UNCHANGED tickslock
                    ELSE Goto(p, "test", "returned") /\ tickslock' = None
  /\ UNCHANGED <<ticks, local, killed, todo, elapsed, marked>>

(* killed(myproc()). *)
CheckKilled(p) ==
  /\ IF p \in killed THEN Goto(p, "check", "aborted") /\ tickslock' = None
                     ELSE Goto(p, "check", "sleep") /\ UNCHANGED tickslock
  /\ UNCHANGED <<ticks, local, killed, todo, elapsed, marked>>

(* sleep(&ticks, &tickslock): p->lock is taken before tickslock is let go.  *)
Sleep(p) ==
  /\ Goto(p, "sleep", "sleeping")
  /\ tickslock' = None
  /\ UNCHANGED <<ticks, local, killed, todo, elapsed, marked>>

(* Mutant: sleep() does not take tickslock again. *)
Retake_Not(p) == UNCHANGED tickslock
Retake(p) == tickslock = None /\ tickslock' = p

(* The end of sleep(), once the process runs again. *)
Wake(p) ==
  /\ Goto(p, "woken", "test")
  /\ Retake(p)
  /\ UNCHANGED <<ticks, local, killed, todo, elapsed, marked>>

(* Back in user space, where a killed process exits (usertrap).             *)
Return(p) ==
  /\ \/ p \notin killed /\ Goto(p, "returned", "user")
     \/ p \in killed /\ \E l \in Outside \ {"exited"} : Goto(p, l, "exited")
  /\ n' = [n EXCEPT ![p] = 0] /\ ticks0' = [ticks0 EXCEPT ![p] = 0]
  /\ elapsed' = [elapsed EXCEPT ![p] = 0]
  /\ UNCHANGED <<ticks, tickslock, killed, todo, marked>>

(* With tickslock held, interrupts are off: nobody preempts the process.    *)
Holder(p) == Test(p) \/ CheckKilled(p) \/ Sleep(p)

Proc(p) == Holder(p) \/ Wake(p) \/ Return(p)

-----------------------------------------------------------------------------
(* The clock, and kill() *)

(* Bound: no process is kept from running for a whole turn of the clock.   *)
Tick ==
  /\ tickslock = None /\ tickslock' = Clock
  /\ \A p \in Procs : pc[p] \in Inside => elapsed[p] < Modulus - 1
  /\ ticks' = IF ticks = Modulus - 1 THEN 0 ELSE ticks + 1
  /\ todo' = Procs
  /\ elapsed' = [p \in Procs |-> IF pc[p] \in Inside THEN elapsed[p] + 1
                                                  ELSE elapsed[p]]
  /\ marked' = killed
  /\ UNCHANGED <<pc, local, killed>>

(* Mutant: wakeup() stops at the first sleeper. *)
LeftAfter_Woken(p) == IF pc[p] = "sleeping" THEN {} ELSE todo \ {p}
LeftAfter(p) == todo \ {p}

(* wakeup(&ticks), at the slot of p. *)
WakeUp(p) ==
  /\ p \in todo
  /\ todo' = LeftAfter(p)
  /\ pc' = IF pc[p] = "sleeping" THEN [pc EXCEPT ![p] = "woken"] ELSE pc
  /\ UNCHANGED <<ticks, tickslock, local, killed, elapsed, marked>>

TickEnd ==
  /\ tickslock = Clock /\ todo = {}
  /\ tickslock' = None
  /\ UNCHANGED <<ticks, pc, local, killed, todo, elapsed, marked>>

ClockIntr == Tick \/ TickEnd \/ \E p \in Procs : WakeUp(p)

(* kkill(), at the slot of p. *)
Kill(p) ==
  /\ pc[p] # "exited"
  /\ killed' = killed \cup {p}
  /\ pc' = IF pc[p] = "sleeping" THEN [pc EXCEPT ![p] = "woken"] ELSE pc
  /\ UNCHANGED <<ticks, tickslock, local, todo, elapsed, marked>>

Next ==
  \/ ClockIntr
  \/ \E p \in Procs : Proc(p) \/ Kill(p) \/ \E k \in -1 .. MaxCount : Enter(p, k)

Spec == Init /\ [][Next]_vars
-----------------------------------------------------------------------------
(* A pause is never too short, also when ticks wraps around meanwhile, and  *)
(* only a killed process is sent back early.                                *)
PauseOnTime ==
  \A p \in Procs :
    /\ pc[p] = "returned" => elapsed[p] >= n[p]
    /\ pc[p] = "aborted" => p \in killed

(* Nobody sleeps through the tick that ends its pause, or through a tick    *)
(* after it has been killed, even when the kill() comes between the test of *)
(* p->killed and the sleep().                                               *)
NoOversleep ==
  \A p \in Procs :
    tickslock = None /\ pc[p] = "sleeping" => elapsed[p] < n[p] /\ p \notin marked
=============================================================================
