------------------------------ MODULE RWProofs ------------------------------
(***************************************************************************)
(* Theorems about the readers-writers lock, for every number of readers,   *)
(* writers, rounds and wakeups without a signal.                           *)
(*                                                                         *)
(* The counters are the sizes of three sets of threads, and every step     *)
(* leaves the sets alone, puts one thread in, takes one out, or moves one  *)
(* from one to another: Effect.                                            *)
(***************************************************************************)
EXTENDS RWLock, FiniteSetTheorems, TLAPS

Reading == {t \in Threads : HasRead(t)}
Writing == {t \in Threads : HasWrite(t)}
Announced == {t \in Threads : pc[t] \in {"w_test", "w_wait", "w_relock"}}

PcInv ==
  /\ pc \in [Threads -> PCs]
  /\ \A t \in Threads : HasWrite(t) \/ pc[t] \in {"w_lock", "w_register"} => t \in Writers
  /\ Announced \subseteq Writers

CountInv ==
  /\ active_readers = Cardinality(Reading)
  /\ active_writers = Cardinality(Writing)
  /\ waiting_writers = Cardinality(Announced)

IInv == PcInv /\ CountInv /\ Exclusion /\ NoLostWakeup

-----------------------------------------------------------------------------
(* What a step does to the three sets *)

SameReading == Reading' = Reading /\ active_readers' = active_readers
SameWriting == Writing' = Writing /\ active_writers' = active_writers
SameAnnounced == Announced' = Announced /\ waiting_writers' = waiting_writers

Enters(t) ==
  /\ ~Busy
  /\ t \notin Reading /\ Reading' = Reading \cup {t}
  /\ active_readers' = active_readers + 1
  /\ SameWriting /\ SameAnnounced

Leaves(t) ==
  /\ t \in Reading /\ Reading' = Reading \ {t}
  /\ active_readers' = active_readers - 1
  /\ SameWriting /\ SameAnnounced

Registers(t) ==
  /\ t \notin Announced /\ Announced' = Announced \cup {t}
  /\ waiting_writers' = waiting_writers + 1
  /\ SameReading /\ SameWriting

TakesOver(t) ==
  /\ ~Taken
  /\ t \in Announced /\ Announced' = Announced \ {t}
  /\ waiting_writers' = waiting_writers - 1
  /\ t \notin Writing /\ Writing' = Writing \cup {t}
  /\ active_writers' = active_writers + 1
  /\ SameReading

GivesBack(t) ==
  /\ t \in Writing /\ Writing' = Writing \ {t}
  /\ active_writers' = active_writers - 1
  /\ SameReading /\ SameAnnounced

(* Thread t goes to l; others only from waiting to the lock they wait for.  *)
Moves(t, l) ==
  /\ pc' \in [Threads -> PCs]
  /\ pc'[t] = l
  /\ \A u \in Threads \ {t} :
       \/ pc'[u] = pc[u]
       \/ pc[u] = "w_wait" /\ pc'[u] = "w_relock"
       \/ pc[u] = "r_wait" /\ pc'[u] = "r_lock"

LEMMA SignalMoves ==
  ASSUME PcInv, NEW t \in Threads, NEW l \in PCs, pc[t] # "w_wait",
         SignalWriter(t, l)
  PROVE  Moves(t, l) /\ (Waiting("w_wait") # {} => \E w \in Threads : pc'[w] = "w_relock")
<1>1. CASE Waiting("w_wait") = {} /\ pc' = [pc EXCEPT ![t] = l]
  BY <1>1 DEF PcInv, Moves
<1>2. ASSUME NEW w \in Waiting("w_wait"), pc' = [pc EXCEPT ![w] = "w_relock", ![t] = l]
      PROVE  Moves(t, l) /\ pc'[w] = "w_relock" /\ w \in Threads
  <2>1. w \in Threads /\ w # t /\ pc[w] = "w_wait"
    BY <1>2 DEF Waiting
  <2>2. "w_relock" \in PCs
    BY DEF PCs
  <2> QED
    BY <1>2, <2>1, <2>2 DEF PcInv, Moves
<1> QED
  BY <1>1, <1>2 DEF SignalWriter

LEMMA BroadcastMoves ==
  ASSUME PcInv, NEW t \in Threads, NEW l \in PCs, l # "r_wait",
         BroadcastReaders(t, l)
  PROVE  Moves(t, l) /\ \A u \in Threads : pc'[u] # "r_wait"
BY DEF PcInv, Moves, BroadcastReaders, PCs

LEMMA AloneMoves ==
  ASSUME PcInv, NEW t \in Threads, NEW l \in PCs, pc' = [pc EXCEPT ![t] = l]
  PROVE  Moves(t, l)
BY DEF PcInv, Moves

(* A thread that moves within one of the classes changes no set.            *)
LEMMA MoveWithin ==
  ASSUME NEW t \in Threads, NEW l \in PCs, PcInv, Moves(t, l), UNCHANGED counters,
         pc[t] \in {"reading", "r_unlock"} <=> l \in {"reading", "r_unlock"},
         pc[t] \in {"writing", "adding", "w_leave", "w_unlock"}
           <=> l \in {"writing", "adding", "w_leave", "w_unlock"},
         pc[t] \in {"w_test", "w_wait", "w_relock"}
           <=> l \in {"w_test", "w_wait", "w_relock"}
  PROVE  SameReading /\ SameWriting /\ SameAnnounced
BY DEF Moves, Reading, Writing, Announced, HasRead, HasWrite, counters,
       SameReading, SameWriting, SameAnnounced

-----------------------------------------------------------------------------
(* Each step is one of five, or leaves the sets alone.                      *)

Untouched == SameReading /\ SameWriting /\ SameAnnounced

Effect ==
  \/ Untouched
  \/ \E r \in Readers : Enters(r)
  \/ \E t \in Threads : Leaves(t) \/ Registers(t) \/ TakesOver(t) \/ GivesBack(t)

LEMMA PCsAre ==
  /\ {"r_lock", "r_test", "r_wait", "reading", "r_unlock"} \subseteq PCs
  /\ {"w_lock", "w_register", "w_test", "w_wait", "w_relock"} \subseteq PCs
  /\ {"writing", "adding", "w_leave", "w_unlock", "done"} \subseteq PCs
BY DEF PCs

LEMMA ReaderEffect ==
  ASSUME PcInv, NEW r \in Readers, Reader(r) \/ Spurious(r, "r_wait", "r_lock")
  PROVE  Effect
<1>1. r \in Threads
  BY DEF Threads
<1>2. CASE Lock(r, "r_lock", "r_test")
  BY <1>1, <1>2, PCsAre, AloneMoves, MoveWithin DEF Lock, Effect, Untouched
<1>3. CASE ReaderWait(r)
  BY <1>1, <1>3, PCsAre, AloneMoves, MoveWithin
  DEF ReaderWait, cond_wait, Effect, Untouched
<1>4. CASE ReaderEnter(r)
  <2>1. /\ Moves(r, "reading") /\ pc[r] = "r_test" /\ ~Busy
        /\ active_readers' = active_readers + 1
        /\ UNCHANGED <<active_writers, waiting_writers>>
    BY <1>1, <1>4, PCsAre, AloneMoves DEF ReaderEnter
  <2>2. Enters(r)
    BY <1>1, <2>1 DEF Moves, Enters, Reading, Writing, Announced, HasRead,
                      HasWrite, SameWriting, SameAnnounced
  <2> QED
    BY <2>2 DEF Effect
<1>5. CASE Lock(r, "reading", "r_unlock")
  BY <1>1, <1>5, PCsAre, AloneMoves, MoveWithin DEF Lock, Effect, Untouched
<1>6. CASE ReaderLeave(r)
  <2>1. NextRead(r) \in {"r_lock", "done"}
    BY DEF NextRead
  <2>2. pc[r] = "r_unlock"
    BY <1>6 DEF ReaderLeave
  <2>3. Moves(r, NextRead(r))
    <3>1. CASE LastReader
      BY <1>1, <1>6, <2>1, <2>2, <3>1, PCsAre, SignalMoves DEF ReaderLeave
    <3>2. CASE ~LastReader
      BY <1>1, <1>6, <2>1, <3>2, PCsAre, AloneMoves DEF ReaderLeave
    <3> QED
      BY <3>1, <3>2
  <2>4. /\ active_readers' = active_readers - 1
        /\ UNCHANGED <<active_writers, waiting_writers>>
    BY <1>6 DEF ReaderLeave
  <2>5. Leaves(r)
    BY <1>1, <2>1, <2>2, <2>3, <2>4
    DEF Moves, Leaves, Reading, Writing, Announced, HasRead, HasWrite,
        SameWriting, SameAnnounced
  <2> QED
    BY <1>1, <2>5 DEF Effect
<1>7. CASE Spurious(r, "r_wait", "r_lock")
  BY <1>1, <1>7, PCsAre, AloneMoves, MoveWithin DEF Spurious, counters, Effect, Untouched
<1> QED
  BY <1>2, <1>3, <1>4, <1>5, <1>6, <1>7 DEF Reader

LEMMA WriterEffect ==
  ASSUME PcInv, NEW w \in Writers, Writer(w) \/ Spurious(w, "w_wait", "w_relock")
  PROVE  Effect
<1>1. w \in Threads
  BY DEF Threads
<1>2. CASE Lock(w, "w_lock", "w_register")
  BY <1>1, <1>2, PCsAre, AloneMoves, MoveWithin DEF Lock, Effect, Untouched
<1>3. CASE WriterRegister(w)
  <2>1. /\ Moves(w, "w_test") /\ pc[w] = "w_register"
        /\ waiting_writers' = waiting_writers + 1
        /\ UNCHANGED <<active_readers, active_writers>>
    BY <1>1, <1>3, PCsAre, AloneMoves DEF WriterRegister
  <2>2. Registers(w)
    BY <1>1, <2>1 DEF Moves, Registers, Reading, Writing, Announced, HasRead,
                      HasWrite, SameReading, SameWriting
  <2> QED
    BY <1>1, <2>2 DEF Effect
<1>4. CASE Lock(w, "w_relock", "w_test")
  BY <1>1, <1>4, PCsAre, AloneMoves, MoveWithin DEF Lock, Effect, Untouched
<1>5. CASE WriterWait(w)
  BY <1>1, <1>5, PCsAre, AloneMoves, MoveWithin
  DEF WriterWait, cond_wait, Effect, Untouched
<1>6. CASE WriterEnter(w)
  <2>1. /\ Moves(w, "writing") /\ pc[w] = "w_test" /\ ~Taken
        /\ waiting_writers' = waiting_writers - 1
        /\ active_writers' = active_writers + 1
        /\ UNCHANGED active_readers
    BY <1>1, <1>6, PCsAre, AloneMoves DEF WriterEnter, WaitingNoMore
  <2>2. TakesOver(w)
    BY <1>1, <2>1 DEF Moves, TakesOver, Reading, Writing, Announced, HasRead,
                      HasWrite, SameReading
  <2> QED
    BY <1>1, <2>2 DEF Effect
<1>7. CASE WriterLoad(w)
  BY <1>1, <1>7, PCsAre, AloneMoves, MoveWithin DEF WriterLoad, Effect, Untouched
<1>8. CASE WriterStore(w)
  BY <1>1, <1>8, PCsAre, AloneMoves, MoveWithin DEF WriterStore, Effect, Untouched
<1>9. CASE Lock(w, "w_leave", "w_unlock")
  BY <1>1, <1>9, PCsAre, AloneMoves, MoveWithin DEF Lock, Effect, Untouched
<1>10. CASE WriterLeave(w)
  <2>1. NextWrite(w) \in {"w_lock", "done"}
    BY DEF NextWrite
  <2>2. pc[w] = "w_unlock"
    BY <1>10 DEF WriterLeave
  <2>3. Moves(w, NextWrite(w))
    <3>1. CASE waiting_writers > 0
      BY <1>1, <1>10, <2>1, <2>2, <3>1, PCsAre, SignalMoves DEF WriterLeave
    <3>2. CASE ~(waiting_writers > 0)
      BY <1>1, <1>10, <2>1, <3>2, PCsAre, BroadcastMoves DEF WriterLeave
    <3> QED
      BY <3>1, <3>2
  <2>4. /\ active_writers' = active_writers - 1
        /\ UNCHANGED <<active_readers, waiting_writers>>
    BY <1>10 DEF WriterLeave
  <2>5. GivesBack(w)
    BY <1>1, <2>1, <2>2, <2>3, <2>4
    DEF Moves, GivesBack, Reading, Writing, Announced, HasRead, HasWrite,
        SameReading, SameAnnounced
  <2> QED
    BY <1>1, <2>5 DEF Effect
<1>11. CASE Spurious(w, "w_wait", "w_relock")
  BY <1>1, <1>11, PCsAre, AloneMoves, MoveWithin DEF Spurious, counters, Effect, Untouched
<1> QED
  BY <1>2, <1>3, <1>4, <1>5, <1>6, <1>7, <1>8, <1>9, <1>10, <1>11 DEF Writer

LEMMA StepEffect ==
  ASSUME PcInv, [Next]_vars
  PROVE  Effect
<1>1. ASSUME NEW t \in Threads, Create(t)
      PROVE  Effect
  <2>1. PICK l \in {"r_lock", "w_lock"} : pc' = [pc EXCEPT ![t] = l]
    BY <1>1 DEF Create
  <2> QED
    BY <1>1, <2>1, PCsAre, AloneMoves, MoveWithin DEF Create, Effect, Untouched
<1>2. CASE Join \/ UNCHANGED vars
  BY <1>2 DEF Join, vars, counters, Effect, Untouched, SameReading, SameWriting,
              SameAnnounced, Reading, Writing, Announced, HasRead, HasWrite
<1> QED
  BY <1>1, <1>2, ReaderEffect, WriterEffect DEF Next, Main

-----------------------------------------------------------------------------
(* Who moves where *)

WriterPCs == {"w_lock", "w_register", "w_test", "w_wait", "w_relock",
              "writing", "adding", "w_leave", "w_unlock"}

(* Where a thread is that will wake a waiting writer, or take its place.    *)
WakerPCs == {"reading", "r_unlock", "writing", "adding", "w_leave", "w_unlock",
             "w_relock", "w_test"}

StepOf(t, l) ==
  /\ Moves(t, l)
  /\ l \in WriterPCs => t \in Writers
  /\ l = "r_wait" => ReaderWait(t)
  /\ l = "w_wait" => WriterWait(t)
  /\ pc[t] \in WakerPCs /\ l \notin WakerPCs =>
       ReaderLeave(t) \/ WriterLeave(t) \/ WriterWait(t)

LEMMA ReaderStep ==
  ASSUME PcInv, NEW r \in Readers, Reader(r) \/ Spurious(r, "r_wait", "r_lock")
  PROVE  \E t \in Threads, l \in PCs : StepOf(t, l)
<1> USE PCsAre DEF StepOf, WriterPCs, WakerPCs
<1>1. r \in Threads
  BY DEF Threads
<1>2. CASE Lock(r, "r_lock", "r_test")
  BY <1>1, <1>2, AloneMoves DEF Lock
<1>3. CASE ReaderWait(r)
  BY <1>1, <1>3, AloneMoves DEF ReaderWait, cond_wait
<1>4. CASE ReaderEnter(r)
  BY <1>1, <1>4, AloneMoves DEF ReaderEnter
<1>5. CASE Lock(r, "reading", "r_unlock")
  BY <1>1, <1>5, AloneMoves DEF Lock
<1>6. CASE ReaderLeave(r)
  <2>1. NextRead(r) \in {"r_lock", "done"}
    BY DEF NextRead
  <2>2. Moves(r, NextRead(r))
    BY <1>1, <1>6, <2>1, SignalMoves, AloneMoves DEF ReaderLeave
  <2> QED
    BY <1>1, <1>6, <2>1, <2>2
<1>7. CASE Spurious(r, "r_wait", "r_lock")
  BY <1>1, <1>7, AloneMoves DEF Spurious
<1> QED
  BY <1>2, <1>3, <1>4, <1>5, <1>6, <1>7 DEF Reader

LEMMA WriterStep ==
  ASSUME PcInv, NEW w \in Writers, Writer(w) \/ Spurious(w, "w_wait", "w_relock")
  PROVE  \E t \in Threads, l \in PCs : StepOf(t, l)
<1> USE PCsAre DEF StepOf, WriterPCs, WakerPCs
<1>1. w \in Threads
  BY DEF Threads
<1>2. CASE Lock(w, "w_lock", "w_register")
  BY <1>1, <1>2, AloneMoves DEF Lock
<1>3. CASE WriterRegister(w)
  BY <1>1, <1>3, AloneMoves DEF WriterRegister
<1>4. CASE Lock(w, "w_relock", "w_test")
  BY <1>1, <1>4, AloneMoves DEF Lock
<1>5. CASE WriterWait(w)
  BY <1>1, <1>5, AloneMoves DEF WriterWait, cond_wait
<1>6. CASE WriterEnter(w)
  BY <1>1, <1>6, AloneMoves DEF WriterEnter
<1>7. CASE WriterLoad(w)
  BY <1>1, <1>7, AloneMoves DEF WriterLoad
<1>8. CASE WriterStore(w)
  BY <1>1, <1>8, AloneMoves DEF WriterStore
<1>9. CASE Lock(w, "w_leave", "w_unlock")
  BY <1>1, <1>9, AloneMoves DEF Lock
<1>10. CASE WriterLeave(w)
  <2>1. NextWrite(w) \in {"w_lock", "done"}
    BY DEF NextWrite
  <2>2. Moves(w, NextWrite(w))
    BY <1>1, <1>10, <2>1, SignalMoves, BroadcastMoves DEF WriterLeave
  <2> QED
    BY <1>1, <1>10, <2>1, <2>2
<1>11. CASE Spurious(w, "w_wait", "w_relock")
  BY <1>1, <1>11, AloneMoves DEF Spurious
<1> QED
  BY <1>2, <1>3, <1>4, <1>5, <1>6, <1>7, <1>8, <1>9, <1>10, <1>11 DEF Writer

LEMMA NextMoves ==
  ASSUME PcInv, [Next]_vars
  PROVE  UNCHANGED pc \/ \E t \in Threads, l \in PCs : StepOf(t, l)
<1>1. ASSUME NEW t \in Threads, Create(t)
      PROVE  \E l \in PCs : StepOf(t, l)
  <2>1. pc[t] = "new"
    BY <1>1 DEF Create
  <2>2. CASE t \in Readers
    BY <1>1, <2>1, <2>2, PCsAre, AloneMoves DEF Create, StepOf, WriterPCs, WakerPCs
  <2>3. CASE t \notin Readers
    BY <1>1, <2>1, <2>3, PCsAre, AloneMoves
    DEF Create, StepOf, WriterPCs, WakerPCs, Threads
  <2> QED
    BY <2>2, <2>3
<1>2. CASE Join \/ UNCHANGED vars
  BY <1>2 DEF Join, vars
<1> QED
  BY <1>1, <1>2, ReaderStep, WriterStep DEF Next, Main

-----------------------------------------------------------------------------
(* The invariant *)

LEMMA Finite ==
  /\ IsFiniteSet(Threads)
  /\ IsFiniteSet(Reading) /\ IsFiniteSet(Writing) /\ IsFiniteSet(Announced)
<1>1. IsFiniteSet(Threads)
  BY RWAssumption, FS_Union DEF RWAssumption, Threads
<1> QED
  BY <1>1, FS_Subset DEF Reading, Writing, Announced

LEMMA InitIInv == Init => IInv
<1> SUFFICES ASSUME Init PROVE IInv
  OBVIOUS
<1>1. PcInv
  BY DEF Init, PcInv, PCs, HasWrite, Announced
<1>2. Reading = {} /\ Writing = {} /\ Announced = {}
  BY DEF Init, Reading, Writing, Announced, HasRead, HasWrite
<1>3. CountInv
  BY <1>2, FS_EmptySet DEF Init, CountInv
<1>4. Exclusion
  BY DEF Init, Exclusion, HasWrite
<1>5. NoLostWakeup
  BY DEF Init, NoLostWakeup, Waiting
<1> QED
  BY <1>1, <1>3, <1>4, <1>5 DEF IInv

LEMMA PcStep == ASSUME PcInv, [Next]_vars PROVE PcInv'
<1>1. CASE UNCHANGED pc
  BY <1>1 DEF PcInv, HasWrite, Announced
<1>2. ASSUME NEW t \in Threads, NEW l \in PCs, StepOf(t, l)
      PROVE  PcInv'
  BY <1>2 DEF StepOf, Moves, PcInv, HasWrite, Announced, WriterPCs
<1> QED
  BY <1>1, <1>2, NextMoves

LEMMA CountStep == ASSUME PcInv, CountInv, Effect PROVE CountInv'
<1> USE Finite, FS_AddElement, FS_RemoveElement DEF CountInv
<1>1. CASE Untouched
  BY <1>1 DEF Untouched, SameReading, SameWriting, SameAnnounced
<1>2. ASSUME NEW t \in Threads, Enters(t) PROVE CountInv'
  BY <1>2 DEF Enters, SameWriting, SameAnnounced
<1>3. ASSUME NEW t \in Threads, Leaves(t) PROVE CountInv'
  BY <1>3 DEF Leaves, SameWriting, SameAnnounced
<1>4. ASSUME NEW t \in Threads, Registers(t) PROVE CountInv'
  BY <1>4 DEF Registers, SameReading, SameWriting
<1>5. ASSUME NEW t \in Threads, TakesOver(t) PROVE CountInv'
  BY <1>5 DEF TakesOver, SameReading
<1>6. ASSUME NEW t \in Threads, GivesBack(t) PROVE CountInv'
  BY <1>6 DEF GivesBack, SameReading, SameAnnounced
<1> QED
  BY <1>1, <1>2, <1>3, <1>4, <1>5, <1>6 DEF Effect, Threads

(* What the tests of the counters say of the sets.                          *)
LEMMA Tests ==
  ASSUME CountInv
  PROVE  /\ active_readers \in Nat /\ active_writers \in Nat /\ waiting_writers \in Nat
         /\ active_readers > 0 <=> Reading # {}
         /\ active_writers > 0 <=> Writing # {}
         /\ waiting_writers > 0 <=> Announced # {}
BY Finite, FS_EmptySet, FS_CardinalityType DEF CountInv

LEMMA ExclusionMeans ==
  Exclusion <=> \A t \in Writing, u \in Reading \cup Writing : t = u
BY DEF Exclusion, Reading, Writing

LEMMA ExclusionStep == ASSUME CountInv, Exclusion, Effect PROVE Exclusion'
<1> DEFINE Alone == \A t \in Writing, u \in Reading \cup Writing : t = u
<1>1. Alone
  BY ExclusionMeans
<1>2. ASSUME Untouched PROVE Alone'
  BY <1>1, <1>2 DEF Untouched, SameReading, SameWriting
<1>3. ASSUME NEW t \in Readers, Enters(t) PROVE Alone'
  BY <1>3, Tests DEF Enters, Busy, SameWriting
<1>4. ASSUME NEW t \in Threads, Leaves(t) PROVE Alone'
  BY <1>1, <1>4 DEF Leaves, SameWriting
<1>5. ASSUME NEW t \in Threads, Registers(t) PROVE Alone'
  BY <1>1, <1>5 DEF Registers, SameReading, SameWriting
<1>6. ASSUME NEW t \in Threads, TakesOver(t) PROVE Alone'
  BY <1>6, Tests DEF TakesOver, Taken, SameReading
<1>7. ASSUME NEW t \in Threads, GivesBack(t) PROVE Alone'
  BY <1>1, <1>7 DEF GivesBack, SameReading
<1>8. Alone'
  BY <1>2, <1>3, <1>4, <1>5, <1>6, <1>7 DEF Effect
<1>9. Exclusion' <=> Alone'
  BY DEF Exclusion, Reading, Writing, HasRead, HasWrite
<1> QED
  BY <1>8, <1>9

-----------------------------------------------------------------------------
(* Wakeups *)

ReadersWaitFor == Waiting("r_wait") # {} => Writing # {} \/ Announced # {}

Wakers == {t \in Threads : pc[t] \in WakerPCs}
WritersWaitFor == Waiting("w_wait") # {} => Wakers # {}

LEMMA NoLostWakeupMeans ==
  ASSUME PcInv
  PROVE  NoLostWakeup <=> ReadersWaitFor /\ WritersWaitFor
<1>1. (\E w \in Writers : HasWrite(w) \/ pc[w] \in {"w_test", "w_wait", "w_relock"})
        <=> Writing # {} \/ Announced # {}
  BY DEF PcInv, Writing, Announced, Threads
<1>2. (\E t \in Threads : HasRead(t) \/ HasWrite(t) \/ pc[t] \in {"w_relock", "w_test"})
        <=> Wakers # {}
  BY DEF Wakers, WakerPCs, HasRead, HasWrite
<1> QED
  BY <1>1, <1>2 DEF NoLostWakeup, ReadersWaitFor, WritersWaitFor

LEMMA OnlyWriterLeaves ==
  ASSUME [Next]_vars, \A w \in Writers : ~WriterLeave(w)
  PROVE  active_writers' = active_writers \/ active_writers' = active_writers + 1
<1>1. ASSUME NEW r \in Readers, Reader(r) \/ Spurious(r, "r_wait", "r_lock")
      PROVE  active_writers' = active_writers
  BY <1>1 DEF Reader, Lock, ReaderWait, cond_wait, ReaderEnter, ReaderLeave, Spurious,
              counters
<1>2. ASSUME NEW w \in Writers, Writer(w) \/ Spurious(w, "w_wait", "w_relock")
      PROVE  active_writers' = active_writers \/ active_writers' = active_writers + 1
  BY <1>2 DEF Writer, Lock, WriterRegister, WriterWait, cond_wait, WriterEnter,
              WriterLoad, WriterStore, Spurious, counters
<1>3. CASE Main \/ UNCHANGED vars
  BY <1>3 DEF Main, Create, Join, vars, counters
<1> QED
  BY <1>1, <1>2, <1>3 DEF Next

(* The thread that begins to wait has tested the counters; the writer that  *)
(* leaves and finds no other wakes all readers.                             *)
LEMMA ReadersStep ==
  ASSUME IInv, ReadersWaitFor, [Next]_vars
  PROVE  ReadersWaitFor'
<1>1. PcInv /\ CountInv /\ Effect
  BY StepEffect DEF IInv
<1>2. ASSUME NEW r \in Threads, ReaderWait(r) PROVE ReadersWaitFor'
  <2>1. Writing # {} \/ Announced # {}
    BY <1>1, <1>2, Tests DEF ReaderWait, Busy
  <2>2. pc[r] = "r_test" /\ pc' = [pc EXCEPT ![r] = "r_wait"]
    BY <1>2 DEF ReaderWait, cond_wait
  <2>3. Writing' = Writing /\ Announced' = Announced
    BY <1>1, <2>2 DEF PcInv, Writing, Announced, HasWrite
  <2> QED
    BY <2>1, <2>3 DEF ReadersWaitFor
<1>3. ASSUME NEW w \in Writers, WriterLeave(w) PROVE ReadersWaitFor'
  <2>1. CASE waiting_writers > 0
    <3>1. Announced # {} /\ Announced' # {}
      <4>1. NextWrite(w) \in PCs /\ pc[w] = "w_unlock"
        BY <1>3, PCsAre DEF NextWrite, WriterLeave
      <4>2. Moves(w, NextWrite(w))
        BY <1>1, <1>3, <2>1, <4>1, SignalMoves DEF WriterLeave, Threads
      <4>3. PICK u \in Threads : pc[u] \in {"w_test", "w_wait", "w_relock"}
        BY <1>1, <2>1, Tests DEF Announced
      <4> QED
        BY <4>1, <4>2, <4>3 DEF Moves, Announced
    <3> QED
      BY <3>1 DEF ReadersWaitFor
  <2>2. CASE ~(waiting_writers > 0)
    BY <1>1, <1>3, <2>2, BroadcastMoves, PCsAre
    DEF WriterLeave, NextWrite, Threads, ReadersWaitFor, Waiting
  <2> QED
    BY <2>1, <2>2
<1>4. ASSUME \A t \in Threads : ~ReaderWait(t), \A w \in Writers : ~WriterLeave(w)
      PROVE  ReadersWaitFor'
  <2>1. Waiting("r_wait")' \subseteq Waiting("r_wait")
    BY <1>1, <1>4, NextMoves DEF StepOf, Moves, Waiting
  <2>2. \A t \in Threads : ~GivesBack(t)
    BY <1>1, <1>4, OnlyWriterLeaves, Tests DEF GivesBack
  <2>3. Writing # {} \/ Announced # {} => Writing' # {} \/ Announced' # {}
    BY <1>1, <2>2 DEF Effect, Untouched, Enters, Leaves, Registers, TakesOver,
                      SameReading, SameWriting, SameAnnounced
  <2> QED
    BY <2>1, <2>3 DEF ReadersWaitFor
<1> QED
  BY <1>2, <1>3, <1>4

(* A waiting writer is left behind by nobody who would wake it.             *)
LEMMA WritersStep ==
  ASSUME IInv, WritersWaitFor, [Next]_vars
  PROVE  WritersWaitFor'
<1>1. PcInv /\ CountInv
  BY DEF IInv
<1>2. CASE UNCHANGED pc
  BY <1>2 DEF WritersWaitFor, Waiting, Wakers
<1>3. ASSUME NEW t \in Threads, NEW l \in PCs, StepOf(t, l)
      PROVE  WritersWaitFor'
  <2>1. Moves(t, l)
    BY <1>3 DEF StepOf
  <2>2. CASE WriterWait(t)
    <3>1. PICK u \in Reading \cup Writing : TRUE
      BY <1>1, <2>2, Tests DEF WriterWait, Taken
    <3>2. pc[t] = "w_test" /\ pc' = [pc EXCEPT ![t] = "w_wait"]
      BY <2>2 DEF WriterWait, cond_wait
    <3>3. u \in Threads /\ u # t /\ pc'[u] = pc[u] /\ pc[u] \in WakerPCs
      BY <1>1, <3>1, <3>2 DEF PcInv, Reading, Writing, HasRead, HasWrite, WakerPCs
    <3> QED
      BY <3>3 DEF WritersWaitFor, Wakers
  <2>3. CASE l \in WakerPCs
    BY <2>1, <2>3 DEF Moves, WritersWaitFor, Wakers
  <2>4. CASE ~WriterWait(t) /\ pc[t] \notin WakerPCs
    <3>1. l # "w_wait"
      BY <1>3, <2>4 DEF StepOf
    <3>2. Waiting("w_wait")' \subseteq Waiting("w_wait")
      BY <2>1, <3>1 DEF Moves, Waiting
    <3>3. Wakers \subseteq Wakers'
      BY <2>1, <2>4 DEF Moves, Wakers, WakerPCs
    <3> QED
      BY <3>2, <3>3 DEF WritersWaitFor
  <2>5. CASE ReaderLeave(t)
    <3>1. NextRead(t) \in {"r_lock", "done"} /\ pc[t] = "r_unlock"
      BY <2>5 DEF NextRead, ReaderLeave
    <3>2. CASE LastReader
      BY <1>1, <2>5, <3>1, <3>2, SignalMoves, PCsAre
      DEF ReaderLeave, Moves, WritersWaitFor, Waiting, Wakers, WakerPCs
    <3>3. CASE ~LastReader
      <4>1. pc' = [pc EXCEPT ![t] = NextRead(t)]
        BY <2>5, <3>3 DEF ReaderLeave
      <4>2. t \in Reading
        BY <3>1 DEF Reading, HasRead
      <4>3. Reading \ {t} # {}
        BY <1>1, <3>3, <4>2, Finite, FS_RemoveElement, FS_EmptySet, FS_CardinalityType
        DEF CountInv, LastReader
      <4>4. PICK u \in Reading : u # t
        BY <4>3
      <4>5. u \in Threads /\ pc'[u] = pc[u] /\ pc[u] \in WakerPCs
        BY <1>1, <4>1, <4>4 DEF PcInv, Reading, HasRead, WakerPCs
      <4> QED
        BY <4>5 DEF WritersWaitFor, Wakers
    <3> QED
      BY <3>2, <3>3
  <2>6. CASE WriterLeave(t)
    <3>1. NextWrite(t) \in {"w_lock", "done"} /\ pc[t] = "w_unlock"
      BY <2>6 DEF NextWrite, WriterLeave
    <3>2. CASE waiting_writers > 0
      BY <1>1, <2>6, <3>1, <3>2, SignalMoves, PCsAre
      DEF WriterLeave, Moves, WritersWaitFor, Waiting, Wakers, WakerPCs
    <3>3. CASE ~(waiting_writers > 0)
      <4>1. Announced = {}
        BY <1>1, <3>3, Tests
      <4>2. Moves(t, NextWrite(t))
        BY <1>1, <2>6, <3>1, <3>3, BroadcastMoves, PCsAre DEF WriterLeave
      <4>3. Waiting("w_wait")' = {}
        BY <3>1, <4>1, <4>2 DEF Announced, Moves, Waiting
      <4> QED
        BY <4>3 DEF WritersWaitFor
    <3> QED
      BY <3>2, <3>3
  <2> QED
    BY <1>3, <2>2, <2>3, <2>4, <2>5, <2>6 DEF StepOf
<1> QED
  BY <1>1, <1>2, <1>3, NextMoves

LEMMA NextIInv == IInv /\ [Next]_vars => IInv'
<1> SUFFICES ASSUME IInv, [Next]_vars PROVE IInv'
  OBVIOUS
<1>1. PcInv'
  BY PcStep DEF IInv
<1>2. CountInv' /\ Exclusion'
  BY StepEffect, CountStep, ExclusionStep DEF IInv
<1>3. ReadersWaitFor' /\ WritersWaitFor'
  BY NoLostWakeupMeans, ReadersStep, WritersStep DEF IInv
<1>4. NoLostWakeup'
  <2>1. (\E w \in Writers : HasWrite(w) \/ pc[w] \in {"w_test", "w_wait", "w_relock"})'
          <=> (Writing # {} \/ Announced # {})'
    BY <1>1 DEF PcInv, Writing, Announced, Threads
  <2>2. (\E t \in Threads : HasRead(t) \/ HasWrite(t) \/ pc[t] \in {"w_relock", "w_test"})'
          <=> (Wakers # {})'
    BY DEF Wakers, WakerPCs, HasRead, HasWrite
  <2> QED
    BY <1>3, <2>1, <2>2 DEF NoLostWakeup, ReadersWaitFor, WritersWaitFor
<1> QED
  BY <1>1, <1>2, <1>4 DEF IInv

THEOREM Invariance == Spec => []IInv
BY InitIInv, NextIInv, PTL DEF Spec

CountersAreNat ==
  active_readers \in Nat /\ active_writers \in Nat /\ waiting_writers \in Nat

LEMMA OtherTypesStep == TypeOK /\ Next =>
  /\ rw_mutex' \in Threads \cup {None} /\ shared_data' \in Nat
  /\ i' \in [Threads -> Nat] /\ data' \in [Writers -> Nat]
  /\ spurious' \in 0 .. MaxSpurious /\ mpc' \in {"create", "done"}
<1> DEFINE Others ==
      /\ rw_mutex \in Threads \cup {None} /\ shared_data \in Nat
      /\ i \in [Threads -> Nat] /\ data \in [Writers -> Nat]
      /\ spurious \in 0 .. MaxSpurious /\ mpc \in {"create", "done"}
<1> SUFFICES ASSUME TypeOK, Next PROVE Others'
  OBVIOUS
<1>0. Others
  BY DEF TypeOK
<1>1. CASE Main
  BY <1>0, <1>1 DEF Main, Join, Create, rest
<1>2. ASSUME NEW t \in Threads, NEW here, NEW next, Lock(t, here, next) PROVE Others'
  BY <1>0, <1>2 DEF Lock, rest
<1>3. ASSUME NEW t \in Threads, NEW here, cond_wait(t, here) PROVE Others'
  BY <1>0, <1>3 DEF cond_wait, rest
<1>4. ASSUME NEW t \in Threads, NEW here, NEW next, Spurious(t, here, next) PROVE Others'
  BY <1>0, <1>4, RWAssumption DEF Spurious, RWAssumption
<1>5. ASSUME NEW r \in Readers, Reader(r) PROVE Others'
  <2>1. r \in Threads
    BY DEF Threads
  <2>2. CASE ReaderEnter(r)
    BY <1>0, <2>2 DEF ReaderEnter, rest
  <2>3. CASE ReaderLeave(r)
    BY <1>0, <2>1, <2>3 DEF ReaderLeave
  <2> QED
    BY <1>2, <1>3, <1>5, <2>1, <2>2, <2>3 DEF Reader, ReaderWait
<1>6. ASSUME NEW w \in Writers, Writer(w) PROVE Others'
  <2>1. w \in Threads
    BY DEF Threads
  <2>2. CASE WriterRegister(w)
    BY <1>0, <2>2 DEF WriterRegister, rest
  <2>3. CASE WriterEnter(w)
    BY <1>0, <2>3 DEF WriterEnter, rest
  <2>4. CASE WriterLoad(w)
    BY <1>0, <2>4 DEF WriterLoad
  <2>5. CASE WriterStore(w)
    BY <1>0, <2>5 DEF WriterStore
  <2>6. CASE WriterLeave(w)
    BY <1>0, <2>1, <2>6 DEF WriterLeave
  <2> QED
    BY <1>2, <1>3, <1>6, <2>1, <2>2, <2>3, <2>4, <2>5, <2>6 DEF Writer, WriterWait
<1> QED
  BY <1>1, <1>4, <1>5, <1>6 DEF Next, Threads

(* The mutex has one owner, no counter falls below zero, and every thread   *)
(* stays inside its program.                                                *)
THEOREM TypeCorrect == Spec => []TypeOK
<1>1. Init => TypeOK
  BY RWAssumption DEF RWAssumption, Init, TypeOK, PCs
<1>2. IInv => CountersAreNat
  BY Finite, FS_CardinalityType DEF IInv, CountInv, CountersAreNat
<1>3. IInv' /\ CountersAreNat' /\ TypeOK /\ [Next]_vars => TypeOK'
  <2> SUFFICES ASSUME IInv', CountersAreNat', TypeOK, [Next]_vars PROVE TypeOK'
    OBVIOUS
  <2>1. CASE Next
    <3>1. pc' \in [Threads -> PCs]
      BY DEF IInv, PcInv
    <3> QED
      BY <2>1, <3>1, OtherTypesStep DEF TypeOK, CountersAreNat
  <2>2. CASE UNCHANGED vars
    BY <2>2 DEF TypeOK, vars, counters, rest
  <2> QED
    BY <2>1, <2>2
<1> QED
  BY <1>1, <1>2, <1>3, Invariance, PTL DEF Spec

(* However many readers and writers there are, a writer has the lock for    *)
(* itself.                                                                  *)
THEOREM ExclusionSafe == Spec => []Exclusion
<1>1. IInv => Exclusion
  BY DEF IInv
<1> QED
  BY <1>1, Invariance, PTL

(* Whoever waits, somebody is left to do the waking.                        *)
THEOREM WakeupSafe == Spec => []NoLostWakeup
<1>1. IInv => NoLostWakeup
  BY DEF IInv
<1> QED
  BY <1>1, Invariance, PTL

(* No reader overtakes a writer that has announced itself.                  *)
THEOREM PreferenceSafe == Spec => WriterPreference
<1> DEFINE Preference ==
      \A r \in Readers, w \in Writers :
        ~HasRead(r) /\ HasRead(r)' =>
          pc[w] \notin {"w_test", "w_wait", "w_relock"} /\ ~HasWrite(w)
<1>1. IInv /\ [Next]_vars => [Preference]_vars
  <2> SUFFICES ASSUME IInv, [Next]_vars,
                      NEW r \in Readers, NEW w \in Writers, ~HasRead(r), HasRead(r)'
               PROVE  pc[w] \notin {"w_test", "w_wait", "w_relock"} /\ ~HasWrite(w)
    OBVIOUS
  <2>1. Effect /\ CountInv
    BY StepEffect DEF IInv
  <2>2. r \notin Reading /\ r \in Reading'
    BY DEF Reading, Threads
  <2>3. PICK s \in Readers : Enters(s)
    BY <2>1, <2>2 DEF Effect, Untouched, Leaves, Registers, TakesOver, GivesBack,
                      SameReading
  <2>4. Writing = {} /\ Announced = {}
    BY <2>1, <2>3, Tests DEF Enters, Busy
  <2> QED
    BY <2>4 DEF Writing, Announced, Threads
<1> QED
  BY <1>1, Invariance, PTL DEF Spec, WriterPreference
-----------------------------------------------------------------------------
(* shared_data: it counts the writes that were completed, each of which is a *)
(* writer with the number of its round.                                      *)

Stored(w) == pc[w] \in {"w_leave", "w_unlock"}

Writes == Writers \X (0 .. WRITES - 1)

Written ==
  {e \in Writes : e[2] < i[e[1]] \/ (e[2] = i[e[1]] /\ Stored(e[1]))}

UpdateInv ==
  /\ shared_data = 10 * Cardinality(Written)
  /\ \A w \in Writers :
       /\ pc[w] = "adding" => data[w] = shared_data
       /\ IF pc[w] = "done" THEN i[w] = WRITES ELSE i[w] < WRITES
  /\ mpc = "done" => \A t \in Threads : pc[t] = "done"

(* A step that neither loads nor stores shared_data nor ends a round.        *)
Quiet ==
  /\ shared_data' = shared_data
  /\ \A w \in Writers :
       /\ i'[w] = i[w]
       /\ Stored(w)' <=> Stored(w)
       /\ pc'[w] = "done" <=> pc[w] = "done"
       /\ pc'[w] = "adding" => pc[w] = "adding" /\ data'[w] = data[w]
  /\ \A t \in Threads : pc[t] = "done" => pc'[t] = "done"
  /\ mpc' = mpc \/ \A t \in Threads : pc[t] = "done"

LEMMA QuietMoves ==
  ASSUME PcInv, NEW t \in Threads, NEW l \in PCs, Moves(t, l),
         pc[t] # "done",
         t \in Writers =>
           /\ pc[t] \in {"w_leave", "w_unlock"} <=> l \in {"w_leave", "w_unlock"}
           /\ l \notin {"adding", "done"},
         UNCHANGED <<shared_data, data, mpc>>,
         \A w \in Writers : i'[w] = i[w]
  PROVE  Quiet
BY DEF Quiet, Moves, Stored, Threads, PcInv

LEMMA ReaderQuiet ==
  ASSUME PcInv, i \in [Threads -> Nat], NEW r \in Readers,
         Reader(r) \/ Spurious(r, "r_wait", "r_lock")
  PROVE  Quiet
<1> USE PCsAre DEF rest
<1>1. r \in Threads /\ r \notin Writers
  BY RWAssumption DEF Threads, RWAssumption
<1>2. CASE Lock(r, "r_lock", "r_test") \/ Lock(r, "reading", "r_unlock")
  BY <1>1, <1>2, AloneMoves, QuietMoves DEF Lock
<1>3. CASE ReaderWait(r)
  BY <1>1, <1>3, AloneMoves, QuietMoves DEF ReaderWait, cond_wait
<1>4. CASE ReaderEnter(r)
  BY <1>1, <1>4, AloneMoves, QuietMoves DEF ReaderEnter
<1>5. CASE ReaderLeave(r)
  <2>1. NextRead(r) \in {"r_lock", "done"} /\ pc[r] = "r_unlock"
    BY <1>5 DEF NextRead, ReaderLeave
  <2>2. Moves(r, NextRead(r))
    BY <1>1, <1>5, <2>1, SignalMoves, AloneMoves DEF ReaderLeave
  <2>3. \A w \in Writers : i'[w] = i[w]
    BY <1>1, <1>5 DEF ReaderLeave
  <2>4. UNCHANGED <<shared_data, data, mpc>>
    BY <1>5 DEF ReaderLeave
  <2> QED
    BY <1>1, <2>1, <2>2, <2>3, <2>4, QuietMoves
<1>6. CASE Spurious(r, "r_wait", "r_lock")
  BY <1>1, <1>6, AloneMoves, QuietMoves DEF Spurious
<1> QED
  BY <1>2, <1>3, <1>4, <1>5, <1>6 DEF Reader

LEMMA WriterQuiet ==
  ASSUME PcInv, NEW w \in Writers, Writer(w) \/ Spurious(w, "w_wait", "w_relock")
  PROVE  Quiet \/ WriterLoad(w) \/ WriterStore(w) \/ WriterLeave(w)
<1> USE PCsAre DEF rest
<1>1. w \in Threads
  BY DEF Threads
<1>2. CASE Lock(w, "w_lock", "w_register") \/ Lock(w, "w_relock", "w_test")
           \/ Lock(w, "w_leave", "w_unlock")
  BY <1>1, <1>2, AloneMoves, QuietMoves DEF Lock
<1>3. CASE WriterRegister(w)
  BY <1>1, <1>3, AloneMoves, QuietMoves DEF WriterRegister
<1>4. CASE WriterWait(w)
  BY <1>1, <1>4, AloneMoves, QuietMoves DEF WriterWait, cond_wait
<1>5. CASE WriterEnter(w)
  BY <1>1, <1>5, AloneMoves, QuietMoves DEF WriterEnter
<1>6. CASE Spurious(w, "w_wait", "w_relock")
  BY <1>1, <1>6, AloneMoves, QuietMoves DEF Spurious
<1> QED
  BY <1>2, <1>3, <1>4, <1>5, <1>6 DEF Writer

LEMMA StepQuiet ==
  ASSUME PcInv, i \in [Threads -> Nat], [Next]_vars
  PROVE  Quiet \/ \E w \in Writers : WriterLoad(w) \/ WriterStore(w) \/ WriterLeave(w)
<1>1. ASSUME NEW t \in Threads, Create(t) PROVE Quiet
  <2>1. PICK l \in {"r_lock", "w_lock"} : pc' = [pc EXCEPT ![t] = l]
    BY <1>1 DEF Create
  <2> QED
    BY <1>1, <2>1, PCsAre, AloneMoves, QuietMoves DEF Create, rest
<1>2. CASE Join \/ UNCHANGED vars
  BY <1>2 DEF Join, vars, rest, Quiet, Stored
<1> QED
  BY <1>1, <1>2, ReaderQuiet, WriterQuiet DEF Next, Main

LEMMA WritesFinite == /\ IsFiniteSet(Writes) /\ IsFiniteSet(Written)
                      /\ Cardinality(Writes) = Cardinality(Writers) * WRITES
<1>1. IsFiniteSet(0 .. WRITES - 1) /\ Cardinality(0 .. WRITES - 1) = WRITES
  BY RWAssumption, FS_Interval DEF RWAssumption
<1>2. IsFiniteSet(Writes) /\ Cardinality(Writes) = Cardinality(Writers) * WRITES
  BY RWAssumption, <1>1, FS_Product DEF RWAssumption, Writes
<1> QED
  BY <1>2, FS_Subset DEF Written

LEMMA QuietUpdate == ASSUME UpdateInv, Quiet PROVE UpdateInv'
<1>1. Written' = Written
  BY DEF Written, Writes, Quiet
<1> QED
  BY <1>1 DEF UpdateInv, Quiet

(* A store adds the round of its writer to the completed ones: nobody else   *)
(* was adding, and the value it had loaded is still that of shared_data.     *)
LEMMA StoreUpdate ==
  ASSUME PcInv, Exclusion, UpdateInv, i \in [Threads -> Nat],
         data \in [Writers -> Nat], NEW w \in Writers, WriterStore(w)
  PROVE  UpdateInv'
<1>1. /\ w \in Threads /\ pc[w] = "adding" /\ pc' = [pc EXCEPT ![w] = "w_leave"]
      /\ i' = i /\ mpc' = mpc /\ shared_data' = data[w] + 10
      /\ data' = [data EXCEPT ![w] = 0]
  BY DEF WriterStore, Threads
<1>2. \A u \in Writers \ {w} : pc[u] # "adding" /\ pc'[u] # "adding"
  BY <1>1 DEF Exclusion, HasWrite, Threads, PcInv
<1>3. DOMAIN pc = Threads /\ \A u \in Threads : pc'[u] = IF u = w THEN "w_leave" ELSE pc[u]
  BY <1>1 DEF PcInv
<1>4. Written' = Written \cup {<<w, i[w]>>} /\ <<w, i[w]>> \notin Written
  <2>1. <<w, i[w]>> \in Writes
    BY <1>1, RWAssumption DEF UpdateInv, Writes, RWAssumption
  <2>2. \A u \in Writers : Stored(u)' <=> (u = w \/ Stored(u))
    BY <1>3 DEF Stored, Threads
  <2>3. ~Stored(w)
    BY <1>1 DEF Stored
  <2> QED
    BY <1>1, <2>1, <2>2, <2>3 DEF Written, Writes
<1>5. Cardinality(Written') = Cardinality(Written) + 1
  BY <1>4, WritesFinite, FS_AddElement
<1>6. shared_data' = 10 * Cardinality(Written')
  BY <1>1, <1>5, WritesFinite, FS_CardinalityType DEF UpdateInv
<1>7. \A u \in Writers : /\ pc'[u] # "adding"
                         /\ IF pc'[u] = "done" THEN i'[u] = WRITES ELSE i'[u] < WRITES
  BY <1>1, <1>2, <1>3 DEF UpdateInv, Threads
<1>8. mpc' # "done"
  BY <1>1 DEF UpdateInv
<1> QED
  BY <1>6, <1>7, <1>8 DEF UpdateInv

(* At the end of a round it stays completed: the loop counter moves past it. *)
LEMMA LeaveUpdate ==
  ASSUME PcInv, UpdateInv, i \in [Threads -> Nat], NEW w \in Writers, WriterLeave(w)
  PROVE  UpdateInv'
<1>1. w \in Threads /\ pc[w] = "w_unlock"
  BY DEF WriterLeave, Threads
<1>2. NextWrite(w) \in {"w_lock", "done"}
  BY DEF NextWrite
<1>3. Moves(w, NextWrite(w))
  BY <1>1, <1>2, PCsAre, SignalMoves, BroadcastMoves DEF WriterLeave
<1>4. /\ i' = [i EXCEPT ![w] = @ + 1]
      /\ UNCHANGED <<shared_data, data, mpc>>
  BY DEF WriterLeave
<1>5. \A u \in Writers \ {w} :
        /\ i'[u] = i[u] /\ (Stored(u)' <=> Stored(u))
        /\ pc'[u] = "done" <=> pc[u] = "done"
        /\ pc'[u] = "adding" <=> pc[u] = "adding"
  BY <1>3, <1>4 DEF Moves, Stored, Threads
<1>6. i'[w] = i[w] + 1 /\ Stored(w) /\ ~Stored(w)' /\ pc'[w] # "adding"
  BY <1>1, <1>2, <1>3, <1>4 DEF Moves, Stored
<1>7. Written' = Written
  BY <1>5, <1>6, RWAssumption DEF Written, Writes, RWAssumption, Threads
<1>8. IF pc'[w] = "done" THEN i'[w] = WRITES ELSE i'[w] < WRITES
  BY <1>1, <1>3, <1>6, RWAssumption DEF Moves, NextWrite, UpdateInv, RWAssumption, Threads
<1>9. mpc' # "done"
  BY <1>1, <1>4 DEF UpdateInv
<1> QED
  BY <1>4, <1>5, <1>6, <1>7, <1>8, <1>9 DEF UpdateInv

LEMMA LoadUpdate ==
  ASSUME PcInv, UpdateInv, data \in [Writers -> Nat], NEW w \in Writers, WriterLoad(w)
  PROVE  UpdateInv'
<1>1. /\ w \in Threads /\ pc[w] = "writing" /\ pc' = [pc EXCEPT ![w] = "adding"]
      /\ i' = i /\ mpc' = mpc /\ shared_data' = shared_data
      /\ data' = [data EXCEPT ![w] = shared_data]
  BY DEF WriterLoad, Threads
<1>2. \A u \in Writers : Stored(u)' <=> Stored(u)
  BY <1>1 DEF Stored, PcInv, Threads
<1>3. Written' = Written
  BY <1>1, <1>2 DEF Written, Writes
<1> QED
  BY <1>1, <1>3 DEF UpdateInv, PcInv, Threads

(* No update of shared_data is lost, for every number of threads and rounds. *)
THEOREM UpdatesKept == Spec => []NoLostUpdate
<1>1. Init => UpdateInv
  <2> SUFFICES ASSUME Init PROVE UpdateInv
    OBVIOUS
  <2>1. Written = {}
    BY RWAssumption DEF Init, Written, Writes, Stored, Threads, RWAssumption
  <2> QED
    BY <2>1, FS_EmptySet, RWAssumption DEF Init, UpdateInv, Threads, RWAssumption
<1>2. IInv /\ TypeOK /\ UpdateInv /\ [Next]_vars => UpdateInv'
  BY StepQuiet, QuietUpdate, StoreUpdate, LeaveUpdate, LoadUpdate DEF IInv, TypeOK
<1>3. UpdateInv /\ TypeOK => NoLostUpdate
  <2> SUFFICES ASSUME UpdateInv, TypeOK, mpc = "done"
               PROVE  shared_data = 10 * WRITES * Cardinality(Writers)
    BY DEF NoLostUpdate
  <2>1. \A w \in Writers : i[w] = WRITES
    BY DEF UpdateInv, Threads
  <2>2. Written = Writes
    BY <2>1, RWAssumption DEF Written, Writes, RWAssumption
  <2> QED
    BY <2>2, WritesFinite, RWAssumption, FS_CardinalityType DEF UpdateInv, RWAssumption
<1> QED
  BY <1>1, <1>2, <1>3, Invariance, TypeCorrect, PTL DEF Spec
=============================================================================
