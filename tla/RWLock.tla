------------------------------- MODULE RWLock -------------------------------
(***************************************************************************)
(* The writer-preferring readers-writers lock of week3/rw_lock.c and its   *)
(* stress test: three counters guarded by rw_mutex, a condition variable   *)
(* for readers and one for writers, threads that read and modify           *)
(* shared_data under the lock, and main(), which creates and joins them.   *)
(*                                                                         *)
(* A thread in pthread_cond_wait() is at "r_wait" or "w_wait"; woken, it   *)
(* locks the mutex again, at "r_lock" or "w_relock".                       *)
(* pthread_cond_wait() may also return without a signal.                   *)
(***************************************************************************)
EXTENDS Integers, FiniteSets

CONSTANTS
  Readers, Writers,   (* the threads                                    *)
  READS, WRITES,      (* how often each reader reads, each writer writes *)
  MaxSpurious,        (* bound on the wakeups without a signal          *)
  None                (* the owner of a free mutex                      *)

Threads == Readers \cup Writers

ASSUME RWAssumption ==
  /\ IsFiniteSet(Readers) /\ IsFiniteSet(Writers)
  /\ Readers \cap Writers = {}
  /\ READS \in Nat \ {0} /\ WRITES \in Nat \ {0}
  /\ MaxSpurious \in Nat
  /\ None \notin Threads

VARIABLES
  rw_mutex,                                        (* its owner           *)
  active_readers, active_writers, waiting_writers,
  shared_data,
  mpc,       (* main(): "create", which includes joining, or "done"       *)
  pc, i,     (* each thread's control point and loop counter              *)
  data,      (* data[w]: the value of shared_data writer w adds 10 to     *)
  spurious   (* how many wakeups without a signal there were              *)

counters == <<active_readers, active_writers, waiting_writers>>
rest == <<i, data, spurious, mpc>>   (* what the lock does not touch *)
vars == <<rw_mutex, counters, shared_data, pc, rest>>

PCs == {"new", "r_lock", "r_test", "r_wait", "reading", "r_unlock",
        "w_lock", "w_register", "w_test", "w_wait", "w_relock",
        "writing", "adding", "w_leave", "w_unlock", "done"}

TypeOK ==
  /\ rw_mutex \in Threads \cup {None}
  /\ active_readers \in Nat /\ active_writers \in Nat /\ waiting_writers \in Nat
  /\ shared_data \in Nat
  /\ pc \in [Threads -> PCs]
  /\ i \in [Threads -> Nat]
  /\ data \in [Writers -> Nat]
  /\ spurious \in 0 .. MaxSpurious
  /\ mpc \in {"create", "done"}

Init ==
  /\ rw_mutex = None
  /\ active_readers = 0 /\ active_writers = 0 /\ waiting_writers = 0
  /\ shared_data = 0
  /\ mpc = "create"
  /\ pc = [t \in Threads |-> "new"]
  /\ i = [t \in Threads |-> 0]
  /\ data = [w \in Writers |-> 0]
  /\ spurious = 0

Waiting(l) == {t \in Threads : pc[t] = l}

-----------------------------------------------------------------------------
(* main(): the readers are created first, then the writers. *)

Create(t) ==
  /\ pc[t] = "new"
  /\ t \in Writers => \A r \in Readers : pc[r] # "new"
  /\ pc' = [pc EXCEPT ![t] = IF t \in Readers THEN "r_lock" ELSE "w_lock"]
  /\ UNCHANGED <<rw_mutex, counters, shared_data, rest>>

Join ==
  /\ mpc = "create"
  /\ \A t \in Threads : pc[t] = "done"
  /\ mpc' = "done"
  /\ UNCHANGED <<rw_mutex, counters, shared_data, pc, i, data, spurious>>

Main == Join \/ \E t \in Threads : Create(t)

-----------------------------------------------------------------------------
(* pthread_mutex_lock(), pthread_cond_wait() and a wakeup without a signal *)

Lock(t, here, next) ==
  /\ pc[t] = here
  /\ rw_mutex = None
  /\ rw_mutex' = t
  /\ pc' = [pc EXCEPT ![t] = next]
  /\ UNCHANGED <<counters, shared_data, rest>>

cond_wait(t, waiting) ==
  /\ rw_mutex' = None
  /\ pc' = [pc EXCEPT ![t] = waiting]
  /\ UNCHANGED <<counters, shared_data, rest>>

Spurious(t, waiting, lock) ==
  /\ pc[t] = waiting
  /\ spurious < MaxSpurious
  /\ spurious' = spurious + 1
  /\ pc' = [pc EXCEPT ![t] = lock]
  /\ UNCHANGED <<rw_mutex, counters, shared_data, i, data, mpc>>

(* t goes to next, and one waiting writer, if there is any, to lock. *)
SignalWriter(t, next) ==
  \/ \E w \in Waiting("w_wait") :
       pc' = [pc EXCEPT ![w] = "w_relock", ![t] = next]
  \/ Waiting("w_wait") = {} /\ pc' = [pc EXCEPT ![t] = next]

(* t goes to next, and all waiting readers to lock. *)
BroadcastReaders(t, next) ==
  pc' = [u \in Threads |-> IF u = t THEN next
                           ELSE IF pc[u] = "r_wait" THEN "r_lock" ELSE pc[u]]

-----------------------------------------------------------------------------
(* reader_lock() and reader_unlock() *)

(* Mutants: readers do not give way to waiting writers; they look for no    *)
(* others.                                                                  *)
Busy_Barges == active_writers > 0
Busy_IgnoresActive == waiting_writers > 0
Busy == active_writers > 0 \/ waiting_writers > 0

ReaderWait(r) == pc[r] = "r_test" /\ Busy /\ cond_wait(r, "r_wait")

ReaderEnter(r) ==
  /\ pc[r] = "r_test"
  /\ ~Busy
  /\ active_readers' = active_readers + 1
  /\ rw_mutex' = None
  /\ pc' = [pc EXCEPT ![r] = "reading"]
  /\ UNCHANGED <<active_writers, waiting_writers, shared_data, rest>>

NextRead(r) == IF i[r] + 1 < READS THEN "r_lock" ELSE "done"

LastReader_Forgotten == FALSE   (* Mutant *)
LastReader == active_readers = 1

(* The last reader wakes a writer. *)
ReaderLeave(r) ==
  /\ pc[r] = "r_unlock"
  /\ active_readers' = active_readers - 1
  /\ IF LastReader THEN SignalWriter(r, NextRead(r))
                   ELSE pc' = [pc EXCEPT ![r] = NextRead(r)]
  /\ i' = [i EXCEPT ![r] = @ + 1]
  /\ rw_mutex' = None
  /\ UNCHANGED <<active_writers, waiting_writers, shared_data, data, spurious, mpc>>

Reader(r) ==
  \/ Lock(r, "r_lock", "r_test") \/ ReaderWait(r) \/ ReaderEnter(r)
  \/ Lock(r, "reading", "r_unlock") \/ ReaderLeave(r)

-----------------------------------------------------------------------------
(* writer_lock() and writer_unlock() *)

WriterRegister(w) ==
  /\ pc[w] = "w_register"
  /\ waiting_writers' = waiting_writers + 1
  /\ pc' = [pc EXCEPT ![w] = "w_test"]
  /\ UNCHANGED <<rw_mutex, active_readers, active_writers, shared_data, rest>>

Taken_IgnoresWriters == active_readers > 0   (* Mutant *)
Taken == active_readers > 0 \/ active_writers > 0

WriterWait(w) ==
  /\ pc[w] = "w_test"
  /\ Taken
  /\ cond_wait(w, "w_wait")

(* Mutant: an active writer still counts as a waiting one. *)
WaitingNoMore_Forgotten == waiting_writers
WaitingNoMore == waiting_writers - 1

WriterEnter(w) ==
  /\ pc[w] = "w_test"
  /\ ~Taken
  /\ waiting_writers' = WaitingNoMore
  /\ active_writers' = active_writers + 1
  /\ rw_mutex' = None
  /\ pc' = [pc EXCEPT ![w] = "writing"]
  /\ UNCHANGED <<active_readers, shared_data, rest>>

(* shared_data += 10 is a load and a store. *)
WriterLoad(w) ==
  /\ pc[w] = "writing"
  /\ data' = [data EXCEPT ![w] = shared_data]
  /\ pc' = [pc EXCEPT ![w] = "adding"]
  /\ UNCHANGED <<rw_mutex, counters, shared_data, i, spurious, mpc>>

WriterStore(w) ==
  /\ pc[w] = "adding"
  /\ shared_data' = data[w] + 10
  /\ data' = [data EXCEPT ![w] = 0]
  /\ pc' = [pc EXCEPT ![w] = "w_leave"]
  /\ UNCHANGED <<rw_mutex, counters, i, spurious, mpc>>

NextWrite(w) == IF i[w] + 1 < WRITES THEN "w_lock" ELSE "done"

(* A waiting writer goes first, otherwise all waiting readers do. *)
WriterLeave(w) ==
  /\ pc[w] = "w_unlock"
  /\ active_writers' = active_writers - 1
  /\ IF waiting_writers > 0 THEN SignalWriter(w, NextWrite(w))
                            ELSE BroadcastReaders(w, NextWrite(w))
  /\ i' = [i EXCEPT ![w] = @ + 1]
  /\ rw_mutex' = None
  /\ UNCHANGED <<active_readers, waiting_writers, shared_data, data, spurious, mpc>>

Writer(w) ==
  \/ Lock(w, "w_lock", "w_register") \/ WriterRegister(w)
  \/ Lock(w, "w_relock", "w_test") \/ WriterWait(w) \/ WriterEnter(w)
  \/ WriterLoad(w) \/ WriterStore(w)
  \/ Lock(w, "w_leave", "w_unlock") \/ WriterLeave(w)

-----------------------------------------------------------------------------
Next ==
  \/ Main
  \/ \E r \in Readers : Reader(r) \/ Spurious(r, "r_wait", "r_lock")
  \/ \E w \in Writers : Writer(w) \/ Spurious(w, "w_wait", "w_relock")

Spec == Init /\ [][Next]_vars

(* Every thread that can go on does so in the end. *)
FairSpec ==
  /\ Spec
  /\ WF_vars(Main)
  /\ \A r \in Readers : WF_vars(Reader(r))
  /\ \A w \in Writers : WF_vars(Writer(w))
-----------------------------------------------------------------------------
(* Where a thread has the lock as a reader, and as a writer. *)
HasRead(t) == pc[t] \in {"reading", "r_unlock"}
HasWrite(t) == pc[t] \in {"writing", "adding", "w_leave", "w_unlock"}

(* A writer has the lock for itself, whatever mixture of readers and        *)
(* writers is about to enter, waiting, or just woken.                       *)
Exclusion ==
  \A t, u \in Threads :
    HasWrite(t) /\ (HasRead(u) \/ HasWrite(u)) => t = u

(* Writers are preferred: from the moment a writer has announced itself     *)
(* until it has written, no reader enters.                                  *)
WriterPreference ==
  [][\A r \in Readers, w \in Writers :
       ~HasRead(r) /\ HasRead(r)' =>
         pc[w] \notin {"w_test", "w_wait", "w_relock"} /\ ~HasWrite(w)]_vars

(* No wakeup is lost: a reader waits only while a writer is active or       *)
(* waiting, and a writer only while a thread has the lock or another writer *)
(* is on its way to take it; so somebody is left to do the waking.          *)
NoLostWakeup ==
  /\ Waiting("r_wait") # {} =>
       \E w \in Writers : HasWrite(w) \/ pc[w] \in {"w_test", "w_wait", "w_relock"}
  /\ Waiting("w_wait") # {} =>
       \E t \in Threads : HasRead(t) \/ HasWrite(t)
                          \/ pc[t] \in {"w_relock", "w_test"}

(* No update of shared_data is lost: it counts all completed writes.        *)
NoLostUpdate ==
  mpc = "done" => shared_data = 10 * WRITES * Cardinality(Writers)

(* The program ends: no reader and no writer waits for ever. *)
Termination == <>(mpc = "done")
=============================================================================
