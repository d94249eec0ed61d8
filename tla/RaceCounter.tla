---------------------------- MODULE RaceCounter ----------------------------
(***************************************************************************)
(* week1/race_amplified.c: threads that increment a shared counter ITERS   *)
(* times each, with an unprotected load and store.  The call of usleep()   *)
(* between them keeps the compiler from merging the two accesses, and each *)
(* access is one aligned word: a step.                                     *)
(***************************************************************************)
EXTENDS Integers

CONSTANTS
  Threads,   (* t1 and t2 *)
  ITERS

ASSUME RaceAssumption ==
  Threads # {} /\ ITERS \in Nat \ {0}

VARIABLES
  counter,
  pc,    (* pc[t]: "load", "store", or "done" *)
  i,     (* i[t]: finished iterations         *)
  tmp    (* tmp[t]: the value loaded          *)

vars == <<counter, pc, i, tmp>>

TypeOK ==
  /\ counter \in Nat
  /\ pc \in [Threads -> {"load", "store", "done"}]
  /\ i \in [Threads -> 0 .. ITERS]
  /\ tmp \in [Threads -> Nat]

Init ==
  /\ counter = 0
  /\ pc = [t \in Threads |-> "load"]
  /\ i = [t \in Threads |-> 0]
  /\ tmp = [t \in Threads |-> 0]

Load(t) ==
  /\ pc[t] = "load"
  /\ tmp' = [tmp EXCEPT ![t] = counter]
  /\ pc' = [pc EXCEPT ![t] = "store"]
  /\ UNCHANGED <<counter, i>>

(* Mutant: the sum is not computed from the value loaded. *)
Store_Forgets(t) ==
  /\ pc[t] = "store"
  /\ counter' = 1
  /\ i' = [i EXCEPT ![t] = @ + 1]
  /\ pc' = [pc EXCEPT ![t] = IF i[t] + 1 < ITERS THEN "load" ELSE "done"]
  /\ UNCHANGED tmp

Store(t) ==
  /\ pc[t] = "store"
  /\ counter' = tmp[t] + 1
  /\ i' = [i EXCEPT ![t] = @ + 1]
  /\ pc' = [pc EXCEPT ![t] = IF i[t] + 1 < ITERS THEN "load" ELSE "done"]
  /\ UNCHANGED tmp

Next == \E t \in Threads : Load(t) \/ Store(t)

Spec == Init /\ [][Next]_vars
-----------------------------------------------------------------------------
Done == \A t \in Threads : pc[t] = "done"

(* The race can eat all increments but two: whatever the interleaving, the  *)
(* last store of the program adds to a value its thread loaded after its    *)
(* own first store.                                                         *)
AtLeastTwo == Done /\ ITERS > 1 => counter >= 2

(* What the program's comment says ("losing one increment every iteration", *)
(* "counter is near ITERS"): two threads that stomp on each other lose one  *)
(* increment of two in each iteration, which leaves at least ITERS.         *)
HalfLost == Done => counter >= ITERS
=============================================================================
