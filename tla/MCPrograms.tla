----------------------------- MODULE MCPrograms -----------------------------
(***************************************************************************)
(* Instances for TLC of the programs that only start threads and wait for  *)
(* them: the racing counter, the bank, the parallel sum, the parallel      *)
(* statistics and the linked list, which is shown to implement ListSpec.   *)
(* They share nothing: a behaviour is a run of one of them, while the      *)
(* variables of the others keep their initial values.                      *)
(***************************************************************************)
EXTENDS RaceCounter

CONSTANTS
  Customers, ATTEMPTS, AMOUNT, Balances,   (* Bank                         *)
  NUM_THREADS, Sizes,                      (* ParallelSum, ParallelStats   *)
  Workers, main, OPS, Nodes, Values,       (* SafeList                     *)
  Fresh, Absent,
  None

VARIABLES
  program,                             (* which of them runs               *)
  opening, balance,                    (* Bank                             *)
  successful, rejected,
  total, total_lock, loaded,           (* ParallelSum                      *)
  start, end, sum, mpc, n, total_sum,  (* ParallelStats                    *)
  head, value, next, allocated,        (* SafeList                         *)
  val, curr, prev, answer,
  size, lock, wpc, wi                  (* the array, the lock, the threads'*)
                                       (* control points and counters      *)

bankVars == <<opening, balance, successful, rejected>>
sumVars == <<total, total_lock, loaded>>
statsVars == <<start, end, sum, mpc, n, total_sum>>
listVars == <<head, value, next, allocated, val, curr, prev, answer>>
allVars == <<program, vars, bankVars, sumVars, statsVars, listVars,
             size, lock, wpc, wi>>

Account == INSTANCE Bank WITH pc <- wpc, i <- wi
Sum == INSTANCE ParallelSum WITH pc <- wpc, i <- wi, tmp <- loaded
Stats == INSTANCE ParallelStats WITH pc <- wpc, i <- wi
Linked == INSTANCE SafeList WITH pc <- wpc, i <- wi, NULL <- None

ASSUME ProgramsAssumption ==
  /\ Account!BankAssumption /\ Sum!SumAssumption /\ Stats!StatsAssumption
  /\ Linked!ListAssumption

NoBank == opening = 0 /\ balance = 0 /\ successful = <<>> /\ rejected = <<>>
NoSum == total = 0 /\ total_lock = None /\ loaded = <<>>
NoStats == start = <<>> /\ end = <<>> /\ sum = <<>>
           /\ mpc = "create" /\ n = 0 /\ total_sum = 0
NoList == /\ head = None /\ value = <<>> /\ next = <<>> /\ allocated = {}
          /\ val = <<>> /\ curr = <<>> /\ prev = <<>>
          /\ answer = [t \in Linked!Callers |-> FALSE]
NoThreads == wpc = <<>> /\ wi = <<>>

ProgramInit ==
  /\ Init
  /\ \/ /\ program = "race" /\ NoBank /\ NoSum /\ NoStats /\ NoList /\ NoThreads
        /\ size = 0 /\ lock = None
     \/ /\ program = "bank" /\ Account!Init /\ NoSum /\ NoStats /\ NoList
        /\ size = 0
     \/ /\ program = "sum" /\ Sum!Init /\ NoBank /\ NoStats /\ NoList
        /\ lock = None
     \/ /\ program = "stats" /\ Stats!Init /\ NoBank /\ NoSum /\ NoList
        /\ lock = None
     \/ /\ program = "list" /\ Linked!Init /\ NoBank /\ NoSum /\ NoStats
        /\ size = 0

(* A step of the program called name. *)
Run(name, step) == program = name /\ step /\ UNCHANGED program

RunList(step) ==
  Run("list", step /\ UNCHANGED <<vars, bankVars, sumVars, statsVars, size>>)

ProgramNext ==
  \/ Run("race", Next /\ UNCHANGED <<bankVars, sumVars, statsVars, listVars,
                                     size, lock, wpc, wi>>)
  \/ Run("bank", Account!Next /\ UNCHANGED <<vars, sumVars, statsVars, listVars, size>>)
  \/ Run("sum", Sum!Next /\ UNCHANGED <<vars, bankVars, statsVars, listVars, lock>>)
  \/ Run("stats", Stats!Next /\ UNCHANGED <<vars, bankVars, sumVars, listVars, lock>>)
  \/ RunList(Linked!Next)

ProgramSpec == ProgramInit /\ [][ProgramNext]_allVars

(* Every thread that can go on does so in the end. *)
Thread(t) ==
  \/ Linked!Operation(t)
  \/ t = main /\ Linked!Main
  \/ t \in Workers /\ (Linked!Worker(t) \/ Linked!WorkerDone(t))

FairSpec ==
  ProgramSpec /\ \A t \in Linked!Callers : WF_allVars(RunList(Thread(t)))
-----------------------------------------------------------------------------
(* bank_chaos_fixed.c: the account is never overdrawn and its books agree.  *)
BooksAgree == program = "bank" => Account!BooksAgree

(* parallel_sum_fixed.c and parallel_stats.c: every element of the array    *)
(* comes into the total exactly once, and main() adds up only fields whose  *)
(* workers are done with them.                                              *)
SumsExact ==
  /\ program = "sum" => Sum!TotalExact
  /\ program = "stats" => Stats!JoinedExact

(* safe_list.c: no thread follows a dangling pointer, and no node leaks.    *)
NoDangling == program = "list" => Linked!NoDangling
NoLeak == program = "list" => Linked!NoLeak

(* safe_list.c: main() finds the value it inserted last, and not the one    *)
(* that was never inserted.                                                 *)
ChecksPass == program = "list" => Linked!ChecksPass

(* safe_list.c: every operation is atomic.  Each insert, lookup, removal    *)
(* and the final destruction takes effect once, in one step between its     *)
(* call and its return, with the value the caller has passed; a lookup      *)
(* answers whether that value is in the list at this moment.                *)
Abstract == INSTANCE ListSpec
              WITH list <- IF program = "list" THEN Linked!listBar ELSE <<>>,
                   call <- IF program = "list" THEN Linked!callBar
                           ELSE [t \in Linked!Callers |-> <<>>],
                   Threads <- Linked!Callers, Values <- Linked!AllValues
ListBehaves == Abstract!Spec

(* safe_list.c ends: no walk runs in circles, nobody waits for ever.        *)
Termination == <>(program = "list" => wpc[main] = "done")
=============================================================================
