----------------------------- MODULE MCBuffers -----------------------------
(***************************************************************************)
(* An instance for TLC of the two bounded buffers.  They share nothing: a  *)
(* behaviour is a run of one of the programs, while the variables of the   *)
(* other keep their initial values.  Both are shown to implement Channel.  *)
(***************************************************************************)
EXTENDS Integers, Sequences

CONSTANTS
  capacity, None,
  NUM_PRODUCERS, NUM_CONSUMERS, PER_PRODUCER, MaxSpurious,  (* CondBuffer  *)
  SEM_PRODUCERS, SEM_CONSUMERS, ITEMS_PER_PRODUCER          (* SemBuffer   *)

VARIABLES
  program,                                   (* "cond" or "sem"            *)
  buffer, in, out, mutex, pc, i,             (* of both                    *)
  sent, received,
  count, item, consumed_count, consumed_sum, (* CondBuffer                 *)
  spurious,
  empty_slots, full_slots, thread_ids, id    (* SemBuffer                  *)

condVars == <<count, item, consumed_count, consumed_sum, spurious>>
semVars == <<empty_slots, full_slots, thread_ids, id>>
vars == <<program, buffer, in, out, mutex, pc, i, sent, received,
          condVars, semVars>>

Cond == INSTANCE CondBuffer
Sem == INSTANCE SemBuffer WITH NUM_PRODUCERS <- SEM_PRODUCERS,
                               NUM_CONSUMERS <- SEM_CONSUMERS

ASSUME BuffersAssumption ==
  Cond!CondBufferAssumption /\ Sem!SemBufferAssumption

Init ==
  \/ /\ program = "cond" /\ Cond!Init
     /\ empty_slots = 0 /\ full_slots = 0 /\ thread_ids = <<>> /\ id = <<>>
  \/ /\ program = "sem" /\ Sem!Init
     /\ count = 0 /\ item = <<>> /\ consumed_count = <<>> /\ consumed_sum = <<>>
     /\ spurious = 0

RunCond(step) == program = "cond" /\ step /\ UNCHANGED <<program, semVars>>
RunSem(step) == program = "sem" /\ step /\ UNCHANGED <<program, condVars>>

Next == RunCond(Cond!Next) \/ RunSem(Sem!Next)

(* Every thread that can go on does so in the end: the scheduler of the     *)
(* machine, its mutexes and its semaphores starve nobody for ever.          *)
FairSpec ==
  /\ Init /\ [][Next]_vars
  /\ \A t \in Cond!Threads : WF_vars(RunCond(Cond!Thread(t)))
  /\ \A t \in Sem!Threads : WF_vars(RunSem(Sem!Thread(t)))
-----------------------------------------------------------------------------
(* buffer_put() and buffer_get() of both programs implement a bounded FIFO  *)
(* channel.                                                                 *)
Chan == INSTANCE Channel WITH Items <- Cond!Items \cup Sem!Items,
                              Capacity <- capacity
ChannelSpec == Chan!Spec

(* bounded_buffer.c: pthread_cond_signal() always finds the right sleeper.  *)
NoLostWakeup == program = "cond" => Cond!NoLostWakeup

(* sem_buffer.c: the semaphores and the threads account for every slot.     *)
SlotsAccounted == program = "sem" => Sem!SlotsAccounted

(* What the programs print at the end is right: everything that was put has *)
(* been taken, once.                                                        *)
Passes == IF program = "cond" THEN Cond!Passes ELSE Sem!Passes

(* The programs end: every consumer gets its STOP, nobody waits for ever on *)
(* a condition, a semaphore or a mutex.                                     *)
Termination == <>(pc[Cond!main] = "done")
=============================================================================
