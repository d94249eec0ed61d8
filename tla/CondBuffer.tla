----------------------------- MODULE CondBuffer -----------------------------
(***************************************************************************)
(* The bounded buffer of week2/bounded_buffer.c with the program around    *)
(* it: a mutex, a condition variable for each direction, producers,        *)
(* consumers, and a main thread that puts one STOP for each consumer once  *)
(* the producers have been joined.                                         *)
(*                                                                         *)
(* A thread in pthread_cond_wait() is at "put_wait" or "get_wait"; woken,  *)
(* it is where it locks the mutex, and tests again.  pthread_cond_wait()   *)
(* may also return without a signal.                                       *)
(***************************************************************************)
EXTENDS Integers, Sequences, FiniteSets, FiniteSetsExt

CONSTANTS
  capacity,       (* CAPACITY                                               *)
  NUM_PRODUCERS,
  NUM_CONSUMERS,
  PER_PRODUCER,   (* how many items each producer makes                     *)
  MaxSpurious,    (* bound on the wakeups without a signal                  *)
  None            (* the owner of a free mutex                              *)

main == <<"main", 0>>
Producers == {"producer"} \X (1 .. NUM_PRODUCERS)
Consumers == {"consumer"} \X (0 .. NUM_CONSUMERS - 1)
Threads == {main} \cup Producers \cup Consumers

CondBufferAssumption ==
  /\ capacity \in Nat \ {0}
  /\ NUM_PRODUCERS \in Nat /\ NUM_CONSUMERS \in Nat \ {0}
  /\ PER_PRODUCER \in 1 .. 1000
  /\ MaxSpurious \in Nat
  /\ None \notin Threads

VARIABLES
  buffer, count, in, out,   (* the buffer                                   *)
  mutex,                    (* the thread that holds the mutex              *)
  pc, i,                    (* each thread's control point and loop counter *)
  item,                     (* what a consumer has taken                    *)
  consumed_count, consumed_sum,
  spurious,                 (* how many wakeups without a signal there were *)
  sent, received            (* history: all items put, all items taken      *)

dataVars == <<buffer, count, in, out>>
statVars == <<item, consumed_count, consumed_sum>>
vars == <<dataVars, mutex, pc, i, statVars, spurious, sent, received>>

STOP == -1
Items == {STOP} \cup {n * 1000 + k : n \in 1 .. NUM_PRODUCERS,
                                     k \in 0 .. PER_PRODUCER - 1}
Garbage == 0   (* what malloc() leaves in the buffer *)

PCs == {"new", "create", "join_producers", "join_consumers", "done",
        "put_lock", "put_test", "put_wait", "put_leave",
        "get_lock", "get_test", "get_wait", "get_leave"}

Init ==
  /\ buffer = [k \in 0 .. capacity - 1 |-> Garbage]
  /\ count = 0 /\ in = 0 /\ out = 0
  /\ mutex = None
  /\ pc = [t \in Threads |-> IF t = main THEN "create" ELSE "new"]
  /\ i = [t \in Threads |-> 0]
  /\ item = [t \in Consumers |-> Garbage]
  /\ consumed_count = [t \in Consumers |-> 0]
  /\ consumed_sum = [t \in Consumers |-> 0]
  /\ spurious = 0
  /\ sent = <<>> /\ received = <<>>

Goto(t, l) == pc' = [pc EXCEPT ![t] = l]

-----------------------------------------------------------------------------
(* main() *)

(* The consumers are created first, then the producers. *)
Created(k) ==
  IF k < NUM_CONSUMERS THEN <<"consumer", k>>
  ELSE <<"producer", k - NUM_CONSUMERS + 1>>

Create ==
  /\ pc[main] = "create"
  /\ i[main] < NUM_CONSUMERS + NUM_PRODUCERS
  /\ LET t == Created(i[main])
     IN  Goto(t, IF t \in Consumers THEN "get_lock" ELSE "put_lock")
  /\ i' = [i EXCEPT ![main] = @ + 1]
  /\ UNCHANGED <<dataVars, mutex, statVars, spurious, sent, received>>

AllCreated ==
  /\ pc[main] = "create"
  /\ i[main] = NUM_CONSUMERS + NUM_PRODUCERS
  /\ Goto(main, "join_producers")
  /\ UNCHANGED <<dataVars, mutex, i, statVars, spurious, sent, received>>

ProducersDone_NotAwaited == TRUE   (* Mutant *)
ProducersDone == \A t \in Producers : pc[t] = "done"

JoinProducers ==
  /\ pc[main] = "join_producers"
  /\ ProducersDone
  /\ Goto(main, IF NUM_CONSUMERS > 0 THEN "put_lock" ELSE "join_consumers")
  /\ i' = [i EXCEPT ![main] = 0]
  /\ UNCHANGED <<dataVars, mutex, statVars, spurious, sent, received>>

JoinConsumers ==
  /\ pc[main] = "join_consumers"
  /\ \A t \in Consumers : pc[t] = "done"
  /\ Goto(main, "done")
  /\ UNCHANGED <<dataVars, mutex, i, statVars, spurious, sent, received>>

-----------------------------------------------------------------------------
(* pthread_mutex_lock(), pthread_cond_wait(), pthread_cond_signal() *)

Lock(t, here, next) ==
  /\ pc[t] = here
  /\ mutex = None
  /\ mutex' = t
  /\ Goto(t, next)
  /\ UNCHANGED <<dataVars, i, statVars, spurious, sent, received>>

cond_wait(t, here, waiting) ==
  /\ pc[t] = here
  /\ mutex = t
  /\ mutex' = None
  /\ Goto(t, waiting)
  /\ UNCHANGED <<dataVars, i, statVars, spurious, sent, received>>

Waiting(l) == {t \in Threads : pc[t] = l}

(* One waiting thread, if there is any, goes on to lock; t goes to next. *)
SignalAndGoto(waiting, lock, t, next) ==
  \/ \E u \in Waiting(waiting) : pc' = [pc EXCEPT ![u] = lock, ![t] = next]
  \/ Waiting(waiting) = {} /\ Goto(t, next)

(* A wakeup without a signal. *)
Spurious(t, waiting, lock) ==
  /\ pc[t] = waiting
  /\ spurious < MaxSpurious
  /\ spurious' = spurious + 1
  /\ Goto(t, lock)
  /\ UNCHANGED <<dataVars, mutex, i, statVars, sent, received>>

-----------------------------------------------------------------------------
(* buffer_put(), called by the producers and by main *)

Item(t) == IF t = main THEN STOP ELSE t[2] * 1000 + i[t]

(* How often t puts, and where it goes after the last put. *)
Puts_OneStop(t) == IF t = main THEN 1 ELSE PER_PRODUCER   (* Mutant *)
Puts(t) == IF t = main THEN NUM_CONSUMERS ELSE PER_PRODUCER
AfterPuts(t) == IF t = main THEN "join_consumers" ELSE "done"

PutLock(t) == Lock(t, "put_lock", "put_test")

PutWait(t) == count = capacity /\ cond_wait(t, "put_test", "put_wait")

PutStore(t) ==
  /\ pc[t] = "put_test"
  /\ count # capacity
  /\ buffer' = [buffer EXCEPT ![in] = Item(t)]
  /\ in' = (in + 1) % capacity
  /\ count' = count + 1
  /\ sent' = Append(sent, Item(t))
  /\ Goto(t, "put_leave")
  /\ UNCHANGED <<out, mutex, i, statVars, spurious, received>>

NextPut(t) == IF i[t] + 1 < Puts(t) THEN "put_lock" ELSE AfterPuts(t)

(* Mutant: buffer_put() signals only if the buffer was empty. *)
SignalGet_IfEmpty(t) ==
  IF count = 1 THEN SignalAndGoto("get_wait", "get_lock", t, NextPut(t))
               ELSE Goto(t, NextPut(t))

SignalGet(t) == SignalAndGoto("get_wait", "get_lock", t, NextPut(t))

(* pthread_cond_signal(&can_get) and unlock. *)
PutLeave(t) ==
  /\ pc[t] = "put_leave"
  /\ SignalGet(t)
  /\ i' = [i EXCEPT ![t] = @ + 1]
  /\ mutex' = None
  /\ UNCHANGED <<dataVars, statVars, spurious, sent, received>>

-----------------------------------------------------------------------------
(* buffer_get(), called by the consumers *)

GetLock(t) == Lock(t, "get_lock", "get_test")

GetWait(t) == count = 0 /\ cond_wait(t, "get_test", "get_wait")

MayTake_NoTest == TRUE   (* Mutant: a consumer trusts the signal. *)
MayTake == count # 0

GetFetch(t) ==
  /\ pc[t] = "get_test"
  /\ MayTake
  /\ item' = [item EXCEPT ![t] = buffer[out]]
  /\ out' = (out + 1) % capacity
  /\ count' = count - 1
  /\ received' = Append(received, buffer[out])
  /\ Goto(t, "get_leave")
  /\ UNCHANGED <<buffer, in, mutex, i, consumed_count, consumed_sum, spurious,
                 sent>>

(* pthread_cond_signal(&can_put), unlock, and what consumer() does with the *)
(* item.                                                                    *)
GetLeave(t) ==
  /\ pc[t] = "get_leave"
  /\ SignalAndGoto("put_wait", "put_lock", t,
                   IF item[t] = STOP THEN "done" ELSE "get_lock")
  /\ mutex' = None
  /\ IF item[t] = STOP
       THEN UNCHANGED <<consumed_count, consumed_sum>>
       ELSE /\ consumed_count' = [consumed_count EXCEPT ![t] = @ + 1]
            /\ consumed_sum' = [consumed_sum EXCEPT ![t] = @ + item[t]]
  /\ UNCHANGED <<dataVars, i, item, spurious, sent, received>>

-----------------------------------------------------------------------------
Main == Create \/ AllCreated \/ JoinProducers \/ JoinConsumers

Thread(t) ==
  \/ t = main /\ Main
  \/ PutLock(t) \/ PutWait(t) \/ PutStore(t) \/ PutLeave(t)
  \/ t \in Consumers /\ (GetLock(t) \/ GetWait(t) \/ GetFetch(t) \/ GetLeave(t))

Next == \E t \in Threads : \/ Thread(t)
                            \/ Spurious(t, "put_wait", "put_lock")
                            \/ Spurious(t, "get_wait", "get_lock")

Spec == Init /\ [][Next]_vars

-----------------------------------------------------------------------------
(* Threads that hold a permit to test: awake inside get or put. *)
AwakeIn(ls) == Cardinality({t \in Threads : pc[t] \in ls})

(* No wakeup is lost: while a consumer waits, every item in the buffer has  *)
(* an awake consumer on its way to it, or a signal that is about to be      *)
(* sent; and likewise for producers and free slots.  The stolen wakeup, in  *)
(* which a consumer that never waited takes the item of the one just woken, *)
(* is covered.                                                              *)
NoLostWakeup ==
  /\ Waiting("get_wait") # {} =>
       count <= AwakeIn({"get_lock", "get_test", "put_leave"})
  /\ Waiting("put_wait") # {} =>
       capacity - count <= AwakeIn({"put_lock", "put_test", "get_leave"})

Total(f) == MapThenSumSet(LAMBDA t : f[t], Consumers)

(* What main() prints at the end is PASS: as many items as were produced    *)
(* have been consumed, with the same sum, and the buffer is empty.          *)
Passes ==
  pc[main] = "done" =>
    /\ count = 0
    /\ Total(consumed_count) = NUM_PRODUCERS * PER_PRODUCER
    /\ Total(consumed_sum) = SumSet(Items \ {STOP})
=============================================================================
