--------------------------- MODULE ProcRefinement ---------------------------
(***************************************************************************)
(* Proc implements ProcTable.  A child under construction is not yet in    *)
(* the abstract table; an exiting process loses its children at once when  *)
(* it takes wait_lock, although reparent() visits them one by one.         *)
(***************************************************************************)
EXTENDS Proc

statusBar ==
  [i \in Slots |-> IF state[i] \in {"UNUSED", "USED"} THEN "free"
                   ELSE IF state[i] = "ZOMBIE" THEN "zombie" ELSE "live"]

Disowning == {"reparent", "reparent_wakeup"}

parentBar ==
  [i \in Slots |->
     IF state[i] \in {"UNUSED", "USED"} THEN None
     ELSE IF parent[i] # None /\ pc[parent[i]] \in Disowning THEN initproc
     ELSE parent[i]]

Table == INSTANCE ProcTable WITH status <- statusBar, parent <- parentBar

(* The kernel gives its user programs the process table they are promised: *)
(* each step of fork(), wait(), exit() and kill() is one step of ProcTable *)
(* or none.                                                                *)
TableSpec == Table!Spec

(* The processes form one tree: following parents from any process, exited  *)
(* ones included, leads to init, however parents and children exit, are     *)
(* adopted and are reaped meanwhile; so somebody alive can reap it one day. *)
Rooted == Table!Rooted
=============================================================================
