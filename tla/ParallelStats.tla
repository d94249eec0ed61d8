--------------------------- MODULE ParallelStats ---------------------------
(***************************************************************************)
(* week3/parallel_stats.c: each worker sums its slice of data into a field *)
(* of its own, results[t].sum on the stack of main(), without a lock; main *)
(* creates the workers one by one and adds up the fields as it joins them. *)
(***************************************************************************)
EXTENDS Integers, FiniteSetsExt

CONSTANTS
  NUM_THREADS,
  Sizes        (* the values of ARRAY_SIZE: one is chosen for each run *)

ThreadIds == 0 .. NUM_THREADS - 1

StatsAssumption == NUM_THREADS \in Nat \ {0} /\ Sizes \subseteq Nat

VARIABLES
  size,            (* ARRAY_SIZE                                    *)
  start, end, sum, (* the fields of results[t]                      *)
  pc, i,           (* each worker's control point and index         *)
  mpc, n,          (* main's control point and loop counter         *)
  total_sum        (* main: the sum of the fields joined so far     *)

results == <<start, end, sum>>
vars == <<size, results, pc, i, mpc, n, total_sum>>

(* What a field holds before it is written. *)
Garbage == -1

(* The elements: values whose sums tell which positions were added. *)
data(k) == 3 ^ k

chunk_size == size \div NUM_THREADS

Init ==
  /\ size \in Sizes
  /\ start = [t \in ThreadIds |-> Garbage]
  /\ end = [t \in ThreadIds |-> Garbage]
  /\ sum = [t \in ThreadIds |-> Garbage]
  /\ pc = [t \in ThreadIds |-> "new"]
  /\ i = [t \in ThreadIds |-> 0]
  /\ mpc = "create" /\ n = 0
  /\ total_sum = 0

-----------------------------------------------------------------------------
(* main() *)

(* Fill in the slice of the next worker and create it. *)
Create ==
  /\ mpc = "create"
  /\ n < NUM_THREADS
  /\ start' = [start EXCEPT ![n] = n * chunk_size]
  /\ end' = [end EXCEPT ![n] =
               IF n = NUM_THREADS - 1 THEN size ELSE (n + 1) * chunk_size]
  /\ pc' = [pc EXCEPT ![n] = "start"]
  /\ n' = n + 1
  /\ UNCHANGED <<size, sum, i, mpc, total_sum>>

AllCreated ==
  /\ mpc = "create"
  /\ n = NUM_THREADS
  /\ n' = 0
  /\ mpc' = "join"
  /\ UNCHANGED <<size, results, pc, i, total_sum>>

(* Mutant: the field is read before the worker has been joined. *)
Join_Early ==
  /\ mpc = "join"
  /\ n < NUM_THREADS
  /\ total_sum' = total_sum + sum[n]
  /\ n' = n + 1
  /\ UNCHANGED <<size, results, pc, i, mpc>>

(* Join the next worker and add its field. *)
Join ==
  /\ mpc = "join"
  /\ n < NUM_THREADS
  /\ pc[n] = "done"
  /\ total_sum' = total_sum + sum[n]
  /\ n' = n + 1
  /\ UNCHANGED <<size, results, pc, i, mpc>>

AllJoined ==
  /\ mpc = "join"
  /\ n = NUM_THREADS
  /\ mpc' = "done"
  /\ UNCHANGED <<size, results, pc, i, n, total_sum>>

-----------------------------------------------------------------------------
(* worker() *)

Start(t) ==
  /\ pc[t] = "start"
  /\ sum' = [sum EXCEPT ![t] = 0]
  /\ i' = [i EXCEPT ![t] = start[t]]
  /\ pc' = [pc EXCEPT ![t] = "loop"]
  /\ UNCHANGED <<size, start, end, mpc, n, total_sum>>

Add(t) ==
  /\ pc[t] = "loop"
  /\ i[t] < end[t]
  /\ sum' = [sum EXCEPT ![t] = @ + data(i[t])]
  /\ i' = [i EXCEPT ![t] = @ + 1]
  /\ UNCHANGED <<size, start, end, pc, mpc, n, total_sum>>

Finish(t) ==
  /\ pc[t] = "loop"
  /\ i[t] >= end[t]
  /\ pc' = [pc EXCEPT ![t] = "done"]
  /\ UNCHANGED <<size, results, i, mpc, n, total_sum>>

Next ==
  \/ Create \/ AllCreated \/ Join \/ AllJoined
  \/ \E t \in ThreadIds : Start(t) \/ Add(t) \/ Finish(t)

Spec == Init /\ [][Next]_vars
-----------------------------------------------------------------------------
SumTo(m, k) == MapThenSumSet(data, m .. k - 1)

(* main() reads a field only after its worker has written it for the last   *)
(* time: at each point of its joining loop it has the exact sum of the part *)
(* of the array that belongs to the workers joined, and in the end that of  *)
(* the whole array, in whatever order the workers finish, and whether       *)
(* NUM_THREADS divides the size or not.                                     *)
JoinedExact ==
  mpc # "create" =>
    total_sum = SumTo(0, IF n = NUM_THREADS THEN size ELSE n * chunk_size)
=============================================================================
