----------------------------- MODULE MCSyscalls -----------------------------
(***************************************************************************)
(* An instance for TLC of what the system calls do besides scheduling:     *)
(* pause(), the memory of processes, and the programs that report on their *)
(* own process.  The three share nothing: a behaviour is a run of one of   *)
(* them, while the variables of the others keep their initial values.      *)
(***************************************************************************)
EXTENDS Pause

CONSTANTS
  NPROC, NFRAMES, PGSIZE, AddrMod, TRAPFRAME, Word, Counts,   (* UserMem       *)
  SLOTS, Lengths, MaxLines                                    (* UserPrograms  *)

VARIABLES
  subject,                                     (* which of them runs      *)
  state,                                       (* of the two others       *)
  free, trapframe, tables, pages, sz,          (* UserMem                 *)
  mpc, np, goal,
  pid, parent, syscalls, tgid, is_thread,      (* UserPrograms            *)
  nextpid, prog, rest, child_pid, parent_pid,
  a0, made, lines

memVars == <<free, trapframe, tables, pages, sz, mpc, np, goal>>
userVars == <<pid, parent, syscalls, tgid, is_thread, nextpid, prog, rest,
              child_pid, parent_pid, a0, made, lines>>
allVars == <<subject, vars, state, memVars, userVars>>

Mem == INSTANCE UserMem WITH pc <- mpc
User == INSTANCE UserPrograms WITH NPROC <- SLOTS

ASSUME CallsAssumption == Mem!UserMemAssumption /\ User!ProgramsAssumption

NoMem == free = 0 /\ trapframe = <<>> /\ tables = <<>> /\ pages = <<>>
         /\ sz = <<>> /\ mpc = <<>> /\ np = <<>> /\ goal = <<>>
NoUser == pid = <<>> /\ parent = <<>> /\ syscalls = <<>> /\ tgid = <<>>
          /\ is_thread = <<>> /\ nextpid = 0 /\ prog = <<>> /\ rest = <<>>
          /\ child_pid = <<>> /\ parent_pid = <<>> /\ a0 = <<>> /\ made = <<>>
          /\ lines = 0

CallsInit ==
  /\ Init
  /\ \/ subject = "pause" /\ NoMem /\ NoUser /\ state = <<>>
     \/ subject = "memory" /\ Mem!Init /\ NoUser /\ ticks = 0
     \/ subject = "programs" /\ User!Init /\ NoMem /\ ticks = 0

RunPause(step) ==
  subject = "pause" /\ step /\ UNCHANGED <<subject, state, memVars, userVars>>
RunMem(step) ==
  subject = "memory" /\ step /\ UNCHANGED <<subject, vars, userVars>>
RunUser(step) ==
  subject = "programs" /\ step /\ UNCHANGED <<subject, vars, memVars>>

CallsNext == RunPause(Next) \/ RunMem(Mem!Next) \/ RunUser(User!Next)

CallsSpec == CallsInit /\ [][CallsNext]_allVars

(* The clock keeps ticking and gets tickslock, for which the processes      *)
(* compete, in the end; and a process that holds it goes on, because it is  *)
(* not preempted.  That a process is ever run after it has been woken is    *)
(* not assumed: that is the matter of the scheduler.                        *)
FairSpec ==
  /\ CallsSpec
  /\ SF_allVars(RunPause(ClockIntr))
  /\ \A p \in Procs : WF_allVars(RunPause(Holder(p)))
-----------------------------------------------------------------------------
(* The scheduler runs p, which has been woken in its pause(), before the    *)
(* clock starves it, and p gets tickslock.  Week 5's round robin does so    *)
(* (NoStarvation of RRScheduler); the scheduler of weeks 6 and 7 promises   *)
(* it to a process preferable to all others only (TopRuns).                 *)
IsRun(p) == SF_allVars(RunPause(Wake(p)))

(* pause(): every pause ends, if the processes that are woken are run.      *)
PauseEnds ==
  (\A p \in Procs : IsRun(p)) =>
    \A p \in Procs : pc[p] \in Inside ~> pc[p] \notin Inside

(* fork(), sbrk(), exit(): no page frame is lost or freed twice.            *)
PagesAccounted == subject = "memory" => Mem!PagesAccounted

(* sbrk(), fetchaddr(): memory ends below the trapframe, and only words     *)
(* that lie in it are fetched.                                              *)
FetchSound == subject = "memory" => Mem!FetchSound

(* fork_chain, syscall_spy, getsyscallcount, threadinfo_test: what they     *)
(* print is true.                                                           *)
ReportsTrue == subject = "programs" => User!ReportsTrue
=============================================================================
