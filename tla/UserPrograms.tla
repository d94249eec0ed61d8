---------------------------- MODULE UserPrograms ----------------------------
(***************************************************************************)
(* The user programs that come with the kernels - week4/fork_chain.c and   *)
(* syscall_spy.c, week5/getsyscallcount.c, week7/threadinfo_test.c - run   *)
(* one after another by the shell on the kernel of week 7, where the slots *)
(* of the process table are used again and again.                          *)
(*                                                                         *)
(* A system call is one step; Proc has what happens inside of fork(),      *)
(* wait() and exit().  The characters of a printf() are one write().       *)
(***************************************************************************)
EXTENDS Integers, Sequences, FiniteSetsExt

CONSTANTS
  NPROC,     (* number of slots of the process table                       *)
  Lengths,   (* the arguments of fork_chain                                *)
  MaxLines   (* bound: how many programs the shell starts                  *)

Slots == 0 .. NPROC - 1
init == 0
sh == 1

ProgramsAssumption ==
  NPROC \in Nat /\ NPROC > 2 /\ Lengths \subseteq Nat /\ MaxLines \in Nat

VARIABLES
  state, pid, parent, syscalls, tgid, is_thread,   (* struct proc          *)
  nextpid,
  prog,         (* the program in each slot, with n and currDepth          *)
  rest,         (* the system calls it has still to make                   *)
  child_pid,    (* what its fork() returned                                *)
  parent_pid,   (* the variable of fork_chain                              *)
  a0,           (* its last system call, and the result                    *)
  made,         (* history: the system calls made by it                    *)
  lines         (* how many programs the shell has started                 *)

procVars == <<state, pid, parent, syscalls, tgid, is_thread, nextpid>>
userVars == <<prog, rest, child_pid, parent_pid, lines>>
vars == <<procVars, userVars, a0, made>>

-----------------------------------------------------------------------------
(* The calls of each program.  What follows a fork() is the parent's side.  *)

Chain(n, d) ==
  IF d >= n THEN <<"write", "exit">>
  ELSE <<"getpid", "write">> \o
       IF d = n - 1 THEN <<"write", "write", "exit">>
       ELSE <<"parent_pid = getpid", "fork", "wait", "exit">>

Text(program) ==
  CASE program[1] = "sh" -> <<"fork", "wait">>
    [] program[1] = "fork_chain" -> Chain(program[2], program[3])
    [] program[1] = "syscall_spy" ->
         <<"getpid", "write", "getpid", "write", "uptime", "write", "fork", "write",
           "wait", "write", "write", "sleep", "write", "write", "write", "dup",
           "write", "exit">>
    [] program[1] = "getsyscallcount" ->
         <<"write", "getpid", "uptime", "getsyscount", "write", "exit">>
    [] program[1] = "threadinfo_test" ->
         <<"getthreadinfo", "write", "write", "fork", "getthreadinfo", "write",
           "write", "wait", "exit">>

(* The child's side, which in fork_chain is the next turn of the loop.      *)
ChildProg(program) ==
  IF program[1] = "fork_chain" THEN [program EXCEPT ![3] = @ + 1] ELSE program

ChildText(program) ==
  CASE program[1] = "sh" -> <<"exec">>
    [] program[1] = "fork_chain" -> Text(ChildProg(program))
    [] program[1] = "syscall_spy" -> <<"getpid", "write", "write", "exit">>
    [] program[1] = "threadinfo_test" -> <<"getthreadinfo", "write", "write", "exit">>

(* threadinfo_test does not test for a fork() that fails. *)
AfterFailure(p) ==
  CASE prog[p][1] = "sh" -> Text(prog[p])
    [] prog[p][1] = "threadinfo_test" -> Tail(rest[p])
    [] OTHER -> <<"write", "exit">>

Programs ==
  {<<name, 0, 0>> : name \in {"syscall_spy", "getsyscallcount", "threadinfo_test"}}
    \cup {<<"fork_chain", n, 0>> : n \in Lengths}

Init ==
  /\ state = [p \in Slots |-> IF p \in {init, sh} THEN "LIVE" ELSE "UNUSED"]
  /\ pid = [p \in Slots |-> IF p \in {init, sh} THEN p + 1 ELSE 0]
  /\ parent = [p \in Slots |-> init]
  /\ syscalls = [p \in Slots |-> 0] /\ made = syscalls
  /\ tgid = pid /\ is_thread = [p \in Slots |-> 0]
  /\ nextpid = 3
  /\ prog = [p \in Slots |-> <<"sh", 0, 0>>]
  /\ rest = [p \in Slots |-> IF p = sh THEN Text(prog[p]) ELSE <<>>]
  /\ child_pid = [p \in Slots |-> 0]
  /\ parent_pid = [p \in Slots |-> 2]
  /\ a0 = [p \in Slots |-> <<"none", 0>>]
  /\ lines = 0

-----------------------------------------------------------------------------
(* syscall(): the call is counted and carried out.  The shell makes many    *)
(* more calls than the two here, and does not ask how many.                 *)
Syscall(p, name) ==
  /\ state[p] = "LIVE" /\ rest[p] # <<>> /\ Head(rest[p]) = name
  /\ p = sh => lines <= MaxLines

Counted(p) == IF p = sh THEN syscalls ELSE [syscalls EXCEPT ![p] = @ + 1]

Returns(p, name, result) ==
  /\ a0' = [a0 EXCEPT ![p] = <<name, result>>]
  /\ made' = IF p = sh THEN made ELSE [made EXCEPT ![p] = @ + 1]

Advance(p) == rest' = [rest EXCEPT ![p] = Tail(@)]

(* sys_getpid(), sys_getsyscount(), sys_getthreadinfo().  sleep() is not in *)
(* the table of this kernel, and returns -1; other results do not matter.   *)
Result(p, name) ==
  CASE name \in {"getpid", "parent_pid = getpid"} -> pid[p]
    [] name = "getsyscount" -> syscalls'[p]
    [] name = "getthreadinfo" -> <<pid[p], tgid[p], is_thread[p]>>
    [] name = "sleep" -> -1
    [] OTHER -> 0

Simple == {"getpid", "parent_pid = getpid", "uptime", "write", "dup", "sleep",
           "getsyscount", "getthreadinfo"}

Call(p, name) ==
  /\ Syscall(p, name)
  /\ syscalls' = Counted(p)
  /\ Returns(p, name, Result(p, name))
  /\ parent_pid' = IF name = "parent_pid = getpid"
                   THEN [parent_pid EXCEPT ![p] = pid[p]] ELSE parent_pid
  /\ Advance(p)
  /\ UNCHANGED <<state, pid, parent, tgid, is_thread, nextpid, prog, child_pid, lines>>

(* Mutant: a slot keeps the count of the process it held before. *)
NewCount_Kept(p, q) == Counted(p)
(* allocproc() starts to count again. *)
NewCount(p, q) == [Counted(p) EXCEPT ![q] = 0]

Fork(p) ==
  /\ Syscall(p, "fork")
  /\ \E q \in Slots :
       /\ state[q] = "UNUSED" /\ \A r \in 0 .. q - 1 : state[r] # "UNUSED"
       /\ state' = [state EXCEPT ![q] = "LIVE"]
       /\ pid' = [pid EXCEPT ![q] = nextpid]
       /\ tgid' = [tgid EXCEPT ![q] = pid'[q]]
       /\ is_thread' = [is_thread EXCEPT ![q] = 0]
       /\ syscalls' = NewCount(p, q)
       /\ parent' = [parent EXCEPT ![q] = p]
       /\ prog' = [prog EXCEPT ![q] = ChildProg(prog[p])]
       /\ rest' = [rest EXCEPT ![p] = Tail(@), ![q] = ChildText(prog[p])]
       /\ parent_pid' = [parent_pid EXCEPT ![q] = parent_pid[p]]
       /\ child_pid' = [child_pid EXCEPT ![p] = nextpid, ![q] = 0]
       /\ a0' = [a0 EXCEPT ![p] = <<"fork", nextpid>>, ![q] = <<"fork", 0>>]
       /\ made' = [made EXCEPT ![p] = IF p = sh THEN 0 ELSE @ + 1, ![q] = 0]
  /\ nextpid' = nextpid + 1
  /\ lines' = IF p = sh THEN lines + 1 ELSE lines

(* There is no slot, or no memory: then a pid is spent. *)
ForkFails(p) ==
  /\ Syscall(p, "fork")
  /\ \/ UNCHANGED nextpid /\ \A q \in Slots : state[q] # "UNUSED"
     \/ nextpid' = nextpid + 1 /\ \E q \in Slots : state[q] = "UNUSED"
  /\ syscalls' = Counted(p)
  /\ Returns(p, "fork", -1)
  /\ child_pid' = [child_pid EXCEPT ![p] = -1]
  /\ rest' = [rest EXCEPT ![p] = AfterFailure(p)]
  /\ lines' = IF p = sh THEN lines + 1 ELSE lines
  /\ UNCHANGED <<state, pid, parent, tgid, is_thread, prog, parent_pid>>

(* kexec(), not in the repository: the process stays the same. *)
Exec(p) ==
  /\ Syscall(p, "exec")
  /\ \E program \in Programs :
       /\ prog' = [prog EXCEPT ![p] = program]
       /\ rest' = [rest EXCEPT ![p] = Text(program)]
  /\ parent_pid' = [parent_pid EXCEPT ![p] = 2]
  /\ child_pid' = [child_pid EXCEPT ![p] = 0]
  /\ syscalls' = Counted(p)
  /\ Returns(p, "exec", 0)
  /\ UNCHANGED <<state, pid, parent, tgid, is_thread, nextpid, lines>>

Children(p) == {q \in Slots \ {init} : state[q] # "UNUSED" /\ parent[q] = p}

(* wait() of a child that has exited, or of none.  The shell prompts again. *)
Wait(p) ==
  /\ Syscall(p, "wait")
  /\ syscalls' = Counted(p)
  /\ rest' = [rest EXCEPT ![p] = IF p = sh THEN Text(prog[p]) ELSE Tail(@)]
  /\ \/ /\ Children(p) = {}
        /\ Returns(p, "wait", -1)
        /\ UNCHANGED <<state, pid>>
     \/ \E q \in Children(p) :
          /\ state[q] = "ZOMBIE"
          /\ \A r \in Children(p) : r < q => state[r] # "ZOMBIE"
          /\ state' = [state EXCEPT ![q] = "UNUSED"]
          /\ pid' = [pid EXCEPT ![q] = 0]
          /\ Returns(p, "wait", pid[q])
  /\ UNCHANGED <<parent, tgid, is_thread, nextpid, prog, child_pid, parent_pid, lines>>

(* exit(), which gives what children there are to init. *)
Exit(p) ==
  /\ Syscall(p, "exit")
  /\ state' = [state EXCEPT ![p] = "ZOMBIE"]
  /\ parent' = [q \in Slots |-> IF q \in Children(p) THEN init ELSE parent[q]]
  /\ rest' = [rest EXCEPT ![p] = <<>>]
  /\ syscalls' = Counted(p)
  /\ Returns(p, "exit", 0)
  /\ UNCHANGED <<pid, tgid, is_thread, nextpid, prog, child_pid, parent_pid, lines>>

Next ==
  \E p \in Slots :
    \/ Fork(p) \/ ForkFails(p) \/ Exec(p) \/ Wait(p) \/ Exit(p)
    \/ \E name \in Simple : Call(p, name)

Spec == Init /\ [][Next]_vars
-----------------------------------------------------------------------------
(* What the programs print is true of the processes they run in, whatever   *)
(* their slots held before: getsyscount() counts the calls of this process, *)
(* getthreadinfo() shows a process of its own, with tgid = pid, wait()      *)
(* returns the child that was forked, and in the chain the parent's pid is  *)
(* that of the live parent.  When the shell prompts, no process of a        *)
(* program is left.                                                         *)
ReportsTrue ==
  /\ \A p \in Slots : state[p] = "LIVE" =>
       /\ a0[p][1] = "getsyscount" => a0[p][2] = made[p]
       /\ a0[p][1] = "getthreadinfo" => a0[p][2] = <<pid[p], pid[p], 0>>
       /\ a0[p][1] = "wait" => a0[p][2] = child_pid[p]
       /\ prog[p][1] = "fork_chain" /\ a0[p][1] = "getpid" =>
            state[parent[p]] = "LIVE" /\ parent_pid[p] = pid[parent[p]]
  /\ Head(rest[sh]) = "fork" => \A p \in Slots \ {init, sh} : state[p] = "UNUSED"
=============================================================================
