----------------------------- MODULE SemBuffer -----------------------------
(***************************************************************************)
(* The bounded buffer of week3/sem_buffer.c with its program: a semaphore  *)
(* counts the empty slots, another one the full ones, a mutex guards the   *)
(* indices, and main() starts and joins the consumers and the producers.   *)
(***************************************************************************)
EXTENDS Integers, Sequences, FiniteSets, Functions

CONSTANTS
  capacity,            (* the argument of buffer_init()           *)
  NUM_PRODUCERS,
  NUM_CONSUMERS,
  ITEMS_PER_PRODUCER,  (* how often each thread calls put, or get *)
  None                 (* the owner of a free mutex               *)

main == <<"main", 0>>
Producers == {"producer"} \X (1 .. NUM_PRODUCERS)
Consumers == {"consumer"} \X (1 .. NUM_CONSUMERS)
Threads == {main} \cup Producers \cup Consumers

SemBufferAssumption ==
  /\ capacity \in Nat \ {0}
  /\ NUM_PRODUCERS \in Nat /\ NUM_CONSUMERS = NUM_PRODUCERS
  /\ ITEMS_PER_PRODUCER \in 1 .. 100
  /\ None \notin Threads

VARIABLES
  buffer, in, out,           (* the buffer                                   *)
  empty_slots, full_slots,   (* the values of the semaphores                 *)
  mutex,                     (* the thread that holds the mutex              *)
  thread_ids, id,            (* the ids main() leaves for the threads, and   *)
                             (* those they have read                         *)
  pc, i,                     (* each thread's control point and loop counter *)
  sent, received             (* history: all items put, all items taken      *)

bufferVars == <<buffer, in, out>>
semVars == <<empty_slots, full_slots>>
ids == <<thread_ids, id>>
history == <<sent, received>>
vars == <<bufferVars, semVars, mutex, ids, pc, i, history>>

Items == {n * 100 + k : n \in 1 .. NUM_PRODUCERS, k \in 0 .. ITEMS_PER_PRODUCER - 1}
Garbage == 0   (* what malloc() leaves in the buffer *)

TypeOK ==
  /\ buffer \in [0 .. capacity - 1 -> Items \cup {Garbage}]
  /\ in \in 0 .. capacity - 1 /\ out \in 0 .. capacity - 1
  /\ empty_slots \in 0 .. capacity /\ full_slots \in 0 .. capacity
  /\ mutex \in Threads \cup {None}
  /\ id \in [Threads -> 0 .. NUM_PRODUCERS]
  /\ pc \in [Threads -> {"new", "create", "join", "start", "wait", "lock",
                         "access", "index", "post", "done"}]

Init ==
  /\ buffer = [k \in 0 .. capacity - 1 |-> Garbage]
  /\ in = 0 /\ out = 0
  /\ empty_slots = capacity /\ full_slots = 0
  /\ mutex = None
  /\ thread_ids = [n \in 1 .. NUM_PRODUCERS |-> 0]
  /\ id = [t \in Threads |-> 0]
  /\ pc = [t \in Threads |-> IF t = main THEN "create" ELSE "new"]
  /\ i = [t \in Threads |-> 0]
  /\ sent = <<>> /\ received = <<>>

Step(t, here, next) == pc[t] = here /\ pc' = [pc EXCEPT ![t] = next]

-----------------------------------------------------------------------------
(* main(): the consumers are created first, then the producers; the ids of  *)
(* the producers overwrite those of the consumers, read or not.             *)

Created(k) == IF k < NUM_CONSUMERS THEN <<"consumer", k + 1>>
                                   ELSE <<"producer", k - NUM_CONSUMERS + 1>>

Create ==
  /\ i[main] < NUM_CONSUMERS + NUM_PRODUCERS
  /\ LET t == Created(i[main])
     IN  /\ Step(t, "new", "start")
         /\ thread_ids' = [thread_ids EXCEPT ![t[2]] = t[2]]
  /\ i' = [i EXCEPT ![main] = @ + 1]
  /\ UNCHANGED <<bufferVars, semVars, mutex, id, history>>

Join ==
  /\ i[main] = NUM_CONSUMERS + NUM_PRODUCERS
  /\ \A t \in Threads \ {main} : pc[t] = "done"
  /\ Step(main, "create", "done")
  /\ UNCHANGED <<bufferVars, semVars, mutex, ids, i, history>>

(* A thread begins: it reads its id through the pointer it was given. *)
Start(t) ==
  /\ Step(t, "start", "wait")
  /\ id' = [id EXCEPT ![t] = thread_ids[t[2]]]
  /\ UNCHANGED <<bufferVars, semVars, mutex, thread_ids, i, history>>

-----------------------------------------------------------------------------
(* The mutex, and the end of a call: the thread's loop goes on. *)

Lock(t) ==
  /\ Step(t, "lock", "access")
  /\ mutex = None
  /\ mutex' = t
  /\ UNCHANGED <<bufferVars, semVars, ids, i, history>>

NextCall(t) ==
  /\ Step(t, "post", IF i[t] + 1 < ITEMS_PER_PRODUCER THEN "wait" ELSE "done")
  /\ i' = [i EXCEPT ![t] = @ + 1]
  /\ UNCHANGED <<bufferVars, mutex, ids, history>>

(* buffer_put() *)

Item(t) == id[t] * 100 + i[t]

PutWait(t) ==
  /\ Step(t, "wait", "lock")
  /\ empty_slots > 0
  /\ empty_slots' = empty_slots - 1
  /\ UNCHANGED <<bufferVars, full_slots, mutex, ids, i, history>>

PutStore(t) ==
  /\ Step(t, "access", "index")
  /\ buffer' = [buffer EXCEPT ![in] = Item(t)]
  /\ sent' = Append(sent, Item(t))
  /\ UNCHANGED <<in, out, semVars, mutex, ids, i, received>>

PutAdvance(t) ==
  /\ Step(t, "index", "post")
  /\ in' = (in + 1) % capacity
  /\ mutex' = None
  /\ UNCHANGED <<buffer, out, semVars, ids, i, history>>

PutPost(t) ==
  /\ NextCall(t)
  /\ full_slots' = full_slots + 1
  /\ UNCHANGED empty_slots

(* buffer_get() *)

GetWait(t) ==
  /\ Step(t, "wait", "lock")
  /\ full_slots > 0
  /\ full_slots' = full_slots - 1
  /\ UNCHANGED <<bufferVars, empty_slots, mutex, ids, i, history>>

GetFetch(t) ==
  /\ Step(t, "access", "index")
  /\ received' = Append(received, buffer[out])
  /\ UNCHANGED <<bufferVars, semVars, mutex, ids, i, sent>>

GetAdvance(t) ==
  /\ Step(t, "index", "post")
  /\ out' = (out + 1) % capacity
  /\ mutex' = None
  /\ UNCHANGED <<buffer, in, semVars, ids, i, history>>

(* Mutant: a consumer does not hand the slot back. *)
GetPost_Forgotten(t) == NextCall(t) /\ UNCHANGED semVars

GetPost(t) ==
  /\ NextCall(t)
  /\ empty_slots' = empty_slots + 1
  /\ UNCHANGED full_slots

Put(t) == PutWait(t) \/ Lock(t) \/ PutStore(t) \/ PutAdvance(t) \/ PutPost(t)
Get(t) == GetWait(t) \/ Lock(t) \/ GetFetch(t) \/ GetAdvance(t) \/ GetPost(t)

Thread(t) ==
  \/ t = main /\ (Create \/ Join)
  \/ t # main /\ Start(t)
  \/ t \in Producers /\ Put(t)
  \/ t \in Consumers /\ Get(t)

Next == \E t \in Threads : Thread(t)

Spec == Init /\ [][Next]_vars
-----------------------------------------------------------------------------
(* Every slot is accounted for: it is counted by one of the semaphores, or  *)
(* claimed by exactly one thread between its sem_wait() and its sem_post(). *)
SlotsAccounted ==
  empty_slots + full_slots
    + Cardinality({t \in Threads : pc[t] \in {"lock", "access", "index", "post"}})
  = capacity

(* When main() ends, each producer has put its own items, although the ids  *)
(* of producers and consumers share their memory, and each of them has been *)
(* taken once.                                                              *)
Passes ==
  pc[main] = "done" =>
    Range(received) = Items /\ Len(received) = NUM_PRODUCERS * ITEMS_PER_PRODUCER
=============================================================================
