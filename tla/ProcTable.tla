----------------------------- MODULE ProcTable -----------------------------
(***************************************************************************)
(* What the process table promises to user programs, in all three versions *)
(* of the kernel: a process is born to a living parent, an exiting process *)
(* leaves its children to init, and an exited process stays until its own  *)
(* parent reaps it.  Proc is shown to implement this.                      *)
(***************************************************************************)
EXTENDS Naturals, FiniteSets

CONSTANTS
  Slots,     (* the slots of the process table *)
  initproc,  (* the slot of the init process   *)
  None       (* the null pointer               *)

VARIABLES status, parent

vars == <<status, parent>>

Init ==
  /\ status = [i \in Slots |-> IF i = initproc THEN "live" ELSE "free"]
  /\ parent = [i \in Slots |-> None]

Children(p) == {i \in Slots : parent[i] = p}

(* fork(): q becomes a child of p. *)
Fork(p, q) ==
  /\ status[p] = "live"
  /\ status[q] = "free"
  /\ status' = [status EXCEPT ![q] = "live"]
  /\ parent' = [parent EXCEPT ![q] = p]

(* exit(), first part: init adopts the children of p. *)
Disown(p) ==
  /\ p # initproc
  /\ status[p] = "live"
  /\ parent' = [i \in Slots |-> IF parent[i] = p THEN initproc ELSE parent[i]]
  /\ UNCHANGED status

(* exit(), second part: p, without children, can be reaped. *)
Exit(p) ==
  /\ p # initproc
  /\ status[p] = "live"
  /\ Children(p) = {}
  /\ status' = [status EXCEPT ![p] = "zombie"]
  /\ UNCHANGED parent

(* wait(): p reaps its exited child q. *)
Reap(p, q) ==
  /\ status[p] = "live"
  /\ status[q] = "zombie"
  /\ parent[q] = p
  /\ status' = [status EXCEPT ![q] = "free"]
  /\ parent' = [parent EXCEPT ![q] = None]

Next ==
  \E p \in Slots :
    \/ Disown(p) \/ Exit(p)
    \/ \E q \in Slots : Fork(p, q) \/ Reap(p, q)

Spec == Init /\ [][Next]_vars
-----------------------------------------------------------------------------
Processes == {i \in Slots : status[i] # "free"}

(* The processes form one tree rooted at init: every set of processes that   *)
(* leaves init out has a member with its parent outside the set.  So there   *)
(* is no cycle and no dead end: following the parents of any process, exited *)
(* ones included, leads to init, and somebody alive will be able to reap it. *)
Rooted ==
  \A S \in SUBSET (Processes \ {initproc}) :
    S # {} => \E i \in S : parent[i] \in Processes \ S

(* Rooted is inductive together with this: init lives, and no exited process *)
(* has a child left.                                                         *)
Inv ==
  /\ status \in [Slots -> {"free", "live", "zombie"}]
  /\ parent \in [Slots -> Slots \cup {None}]
  /\ status[initproc] = "live"
  /\ \A i \in Processes : parent[i] # None => status[parent[i]] # "zombie"
  /\ Rooted
=============================================================================
