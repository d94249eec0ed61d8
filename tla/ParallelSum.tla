---------------------------- MODULE ParallelSum ----------------------------
(***************************************************************************)
(* week2/parallel_sum_fixed.c: the threads cut an array into slices and    *)
(* add every element to a shared total under total_lock.  The size of the  *)
(* array is chosen once, so that a run covers sizes NUM_THREADS divides,   *)
(* others, and sizes below NUM_THREADS.                                    *)
(***************************************************************************)
EXTENDS Integers, FiniteSetsExt

CONSTANTS
  NUM_THREADS,
  Sizes,   (* the values of ARRAY_SIZE *)
  None     (* the owner of a free lock *)

ThreadIds == 0 .. NUM_THREADS - 1

SumAssumption ==
  /\ NUM_THREADS \in Nat \ {0}
  /\ Sizes \subseteq Nat
  /\ None \notin ThreadIds

VARIABLES
  size,         (* ARRAY_SIZE                                          *)
  total,        (* the shared accumulator                              *)
  total_lock,   (* the thread that holds the lock                      *)
  pc, i, tmp    (* each thread's control point, index and loaded total *)

vars == <<size, total, total_lock, pc, i, tmp>>

(* The elements: values whose sums tell which positions were added how     *)
(* often, as the 1s of the program would not.                              *)
array(k) == 3 ^ k

chunk == size \div NUM_THREADS
start_index(t) == t * chunk

end_index(t) == IF t = NUM_THREADS - 1 THEN size ELSE (t + 1) * chunk

Init ==
  /\ size \in Sizes
  /\ total = 0 /\ total_lock = None
  /\ pc = [t \in ThreadIds |-> "loop"]
  /\ i = [t \in ThreadIds |-> start_index(t)]
  /\ tmp = [t \in ThreadIds |-> 0]

(* Mutant: the lock excludes nobody. *)
Lock_Shared(t) ==
  /\ pc[t] = "loop"
  /\ i[t] < end_index(t)
  /\ total_lock' = t
  /\ pc' = [pc EXCEPT ![t] = "load"]
  /\ UNCHANGED <<size, total, i, tmp>>

Lock(t) ==
  /\ pc[t] = "loop"
  /\ i[t] < end_index(t)
  /\ total_lock = None
  /\ total_lock' = t
  /\ pc' = [pc EXCEPT ![t] = "load"]
  /\ UNCHANGED <<size, total, i, tmp>>

(* total += array[i] is a load and a store. *)
Load(t) ==
  /\ pc[t] = "load"
  /\ tmp' = [tmp EXCEPT ![t] = total]
  /\ pc' = [pc EXCEPT ![t] = "store"]
  /\ UNCHANGED <<size, total, total_lock, i>>

StoreUnlock(t) ==
  /\ pc[t] = "store"
  /\ total' = tmp[t] + array(i[t])
  /\ tmp' = [tmp EXCEPT ![t] = 0]
  /\ i' = [i EXCEPT ![t] = @ + 1]
  /\ pc' = [pc EXCEPT ![t] = "loop"]
  /\ total_lock' = None
  /\ UNCHANGED size

Finish(t) ==
  /\ pc[t] = "loop"
  /\ i[t] >= end_index(t)
  /\ pc' = [pc EXCEPT ![t] = "done"]
  /\ UNCHANGED <<size, total, total_lock, i, tmp>>

Next == \E t \in ThreadIds : Lock(t) \/ Load(t) \/ StoreUnlock(t) \/ Finish(t)

Spec == Init /\ [][Next]_vars
-----------------------------------------------------------------------------
SumTo(m, n) == MapThenSumSet(array, m .. n - 1)

(* Nothing is lost on the way: whenever the lock is free, the total is the  *)
(* sum of the elements the threads have passed, each counted once.  In the  *)
(* end it is the sum of the array: the slices cover it without overlap,     *)
(* whether NUM_THREADS divides its size or not.                             *)
TotalExact ==
  /\ total_lock = None =>
       total = MapThenSumSet(LAMBDA t : SumTo(start_index(t), i[t]), ThreadIds)
  /\ (\A t \in ThreadIds : pc[t] = "done") => total = SumTo(0, size)
=============================================================================
