------------------------------- MODULE UserMem -------------------------------
(***************************************************************************)
(* User memory of the week 7 kernel: what allocproc(), kfork(), freeproc() *)
(* and growproc() of week7/proc.c, sys_sbrk() of week7/sysproc.c and       *)
(* fetchaddr() of week7/syscall.c do with the page frames of the machine.  *)
(* vm.c and kalloc.c are not in the repository; uvmcopy(), uvmalloc(),     *)
(* uvmdealloc(), vmfault() and the frame counter stand for them.           *)
(*                                                                         *)
(* Frames are counted, not named.  An address is a number below AddrMod,   *)
(* and sums of addresses wrap.                                             *)
(***************************************************************************)
EXTENDS Integers, FiniteSetsExt

CONSTANTS
  NPROC,      (* number of slots of the process table                      *)
  NFRAMES,    (* number of page frames                                     *)
  PGSIZE, AddrMod,
  TRAPFRAME,  (* the end of what user memory may reach                     *)
  Word,       (* sizeof(uint64)                                            *)
  Counts      (* the arguments of sbrk(), up to their sign                 *)

Slots == 0 .. NPROC - 1

UserMemAssumption ==
  /\ NPROC \in Nat \ {0}
  /\ NFRAMES \in Nat /\ NFRAMES >= 3   (* userinit() has what it allocates *)
  /\ PGSIZE \in Nat \ {0} /\ TRAPFRAME \in Nat
  /\ Word \in Nat \ {0} /\ AddrMod \in Nat
  /\ Counts \subseteq 0 .. AddrMod - 1
  /\ TRAPFRAME + Word <= AddrMod
  /\ \A n \in Counts : TRAPFRAME + n < AddrMod

VARIABLES
  free,         (* how many frames kalloc() has left                       *)
  state,
  trapframe,    (* does the slot have a trapframe                          *)
  tables,       (* the nodes of its page table: the root, and what is      *)
                (* below it for the kernel's and for the user's pages      *)
  pages,        (* the numbers of the user pages mapped by it              *)
  sz,
  pc, np, goal  (* the call a process is in, and its locals                *)

slotVars == <<state, trapframe, tables, pages, sz>>
callVars == <<pc, np, goal>>
vars == <<free, slotVars, callVars>>

Addrs == 0 .. AddrMod - 1
Add(a, n) ==
  LET s == a + n IN IF s < 0 THEN s + AddrMod
                    ELSE IF s >= AddrMod THEN s - AddrMod ELSE s

NumPages(s) == (s + PGSIZE - 1) \div PGSIZE        (* PGROUNDUP, in pages *)

TypeOK ==
  /\ free \in Int
  /\ state \in [Slots -> {"UNUSED", "USED", "LIVE", "ZOMBIE"}]
  /\ trapframe \in [Slots -> BOOLEAN]
  /\ tables \in [Slots -> SUBSET {"root", "kernel", "user"}]
  /\ pages \in [Slots -> SUBSET Nat]
  /\ sz \in [Slots -> Addrs]
  /\ pc \in [Slots -> {"user", "table", "copy", "grow"}]
  /\ np \in [Slots -> Slots]
  /\ goal \in [Slots -> Addrs]

(* After userinit(): one process, with no memory of its own.                *)
Init ==
  /\ free = NFRAMES - 3
  /\ state = [q \in Slots |-> IF q = 0 THEN "LIVE" ELSE "UNUSED"]
  /\ trapframe = [q \in Slots |-> q = 0]
  /\ tables = [q \in Slots |-> IF q = 0 THEN {"root", "kernel"} ELSE {}]
  /\ pages = [q \in Slots |-> {}]
  /\ sz = [q \in Slots |-> 0]
  /\ pc = [q \in Slots |-> "user"]
  /\ np = [q \in Slots |-> 0]
  /\ goal = [q \in Slots |-> 0]

At(p, l) == state[p] = "LIVE" /\ pc[p] = l

Goto(p, l) == pc' = [pc EXCEPT ![p] = l]

(* Back to user space, without what the call kept. *)
Return(p) ==
  /\ Goto(p, "user")
  /\ np' = [np EXCEPT ![p] = 0] /\ goal' = [goal EXCEPT ![p] = 0]

-----------------------------------------------------------------------------
(* Frames *)

Held(q) ==
  (IF trapframe[q] THEN 1 ELSE 0) + Cardinality(tables[q]) + Cardinality(pages[q])

(* What mappages() of a user page takes: the page, and the node above it if *)
(* there is none yet.                                                       *)
Cost(q) == IF "user" \in tables[q] THEN 1 ELSE 2

Map(q, v) ==
  /\ free >= Cost(q)
  /\ free' = free - Cost(q)
  /\ tables' = [tables EXCEPT ![q] = @ \cup {"user"}]
  /\ pages' = [pages EXCEPT ![q] = @ \cup {v}]
  /\ UNCHANGED <<state, trapframe, sz>>

(* uvmunmap() of the pages from number m on: what it leaves, what it frees. *)
KeptBelow(q, m) == {v \in pages[q] : v < m}
FreedFrom(q, m) == Cardinality({v \in pages[q] : v >= m})

(* freeproc(q) with q's table and gone frames already given back.           *)
Clear(q) ==
  /\ state' = [state EXCEPT ![q] = "UNUSED"]
  /\ trapframe' = [trapframe EXCEPT ![q] = FALSE]
  /\ tables' = [tables EXCEPT ![q] = {}]
  /\ pages' = [pages EXCEPT ![q] = {}]
  /\ sz' = [sz EXCEPT ![q] = 0]

(* Mutant: the trapframe is not freed. *)
Freed_NotTrapframe(q) ==
  Cardinality(tables[q]) + Cardinality(KeptBelow(q, NumPages(sz[q])))
(* What freeproc(q) frees: of the pages, those below p->sz. *)
Freed(q) ==
  (IF trapframe[q] THEN 1 ELSE 0)
    + Cardinality(tables[q]) + Cardinality(KeptBelow(q, NumPages(sz[q])))

freeproc(q) == free' = free + Freed(q) /\ Clear(q)

-----------------------------------------------------------------------------
(* kfork() of process p *)

(* allocproc(): the slot and its trapframe.  If there is none of one of     *)
(* them, nothing has changed.                                               *)
AllocSlot(p) ==
  /\ At(p, "user")
  /\ \E q \in Slots :
       /\ state[q] = "UNUSED" /\ \A r \in 0 .. q - 1 : state[r] # "UNUSED"
       /\ free > 0 /\ free' = free - 1
       /\ state' = [state EXCEPT ![q] = "USED"]
       /\ trapframe' = [trapframe EXCEPT ![q] = TRUE]
       /\ np' = [np EXCEPT ![p] = q]
  /\ Goto(p, "table")
  /\ UNCHANGED <<tables, pages, sz, goal>>

(* proc_pagetable(): the root, and the node above TRAMPOLINE and TRAPFRAME. *)
AllocTable(p) ==
  /\ At(p, "table")
  /\ free >= 2 /\ free' = free - 2
  /\ tables' = [tables EXCEPT ![np[p]] = {"root", "kernel"}]
  /\ Goto(p, "copy")
  /\ UNCHANGED <<state, trapframe, pages, sz, np, goal>>

AllocTableFails(p) ==
  /\ At(p, "table") /\ free < 2
  /\ freeproc(np[p])
  /\ Return(p)

ToCopy(p) == KeptBelow(p, NumPages(sz[p])) \ pages[np[p]]

(* uvmcopy(), page after page. *)
CopyPage(p) ==
  /\ At(p, "copy") /\ ToCopy(p) # {}
  /\ Map(np[p], Min(ToCopy(p)))
  /\ UNCHANGED callVars

(* It fails, and unmaps what it has copied; p->sz of the child is still 0.  *)
CopyFails(p) ==
  /\ At(p, "copy") /\ ToCopy(p) # {} /\ free < Cost(np[p])
  /\ free' = free + Freed(np[p]) + FreedFrom(np[p], 0)
  /\ Clear(np[p])
  /\ Return(p)

ForkEnd(p) ==
  /\ At(p, "copy") /\ ToCopy(p) = {}
  /\ sz' = [sz EXCEPT ![np[p]] = sz[p]]
  /\ state' = [state EXCEPT ![np[p]] = "LIVE"]
  /\ Return(p)
  /\ UNCHANGED <<free, trapframe, tables, pages>>

-----------------------------------------------------------------------------
(* sys_sbrk() of process p *)

(* Mutant: a lazy sbrk() may go past the trapframe. *)
LazyFits_Anything(p, n) == Add(sz[p], n) >= sz[p]
LazyFits(p, n) == Add(sz[p], n) >= sz[p] /\ Add(sz[p], n) <= TRAPFRAME

SbrkLazy(p, n) ==
  /\ At(p, "user")
  /\ LazyFits(p, n)
  /\ sz' = [sz EXCEPT ![p] = Add(@, n)]
  /\ UNCHANGED <<free, state, trapframe, tables, pages, callVars>>

(* growproc(-n): uvmdealloc() does nothing if the sum is no smaller.        *)
SbrkShrink(p, n) ==
  LET newsz == Add(sz[p], -n)
  IN  /\ At(p, "user")
      /\ newsz < sz[p]
      /\ free' = free + FreedFrom(p, NumPages(newsz))
      /\ pages' = [pages EXCEPT ![p] = KeptBelow(p, NumPages(newsz))]
      /\ sz' = [sz EXCEPT ![p] = newsz]
      /\ UNCHANGED <<state, trapframe, tables, callVars>>

(* growproc(n) *)
SbrkGrow(p, n) ==
  /\ At(p, "user")
  /\ n > 0 /\ Add(sz[p], n) <= TRAPFRAME
  /\ goal' = [goal EXCEPT ![p] = Add(sz[p], n)]
  /\ Goto(p, "grow")
  /\ UNCHANGED <<free, slotVars, np>>

ToAlloc(p) == (NumPages(sz[p]) .. NumPages(goal[p]) - 1) \ pages[p]

(* uvmalloc(), page after page.                                             *)
GrowPage(p) ==
  /\ At(p, "grow") /\ ToAlloc(p) # {}
  /\ Map(p, Min(ToAlloc(p)))
  /\ UNCHANGED callVars

(* It fails, and unmaps what it has mapped. *)
GrowFails(p) ==
  /\ At(p, "grow") /\ ToAlloc(p) # {} /\ free < Cost(p)
  /\ free' = free + FreedFrom(p, NumPages(sz[p]))
  /\ pages' = [pages EXCEPT ![p] = KeptBelow(p, NumPages(sz[p]))]
  /\ Return(p)
  /\ UNCHANGED <<state, trapframe, tables, sz>>

GrowEnd(p) ==
  /\ At(p, "grow") /\ ToAlloc(p) = {}
  /\ sz' = [sz EXCEPT ![p] = goal[p]]
  /\ Return(p)
  /\ UNCHANGED <<free, state, trapframe, tables, pages>>

-----------------------------------------------------------------------------
(* vmfault() maps a page of p's memory when it is first used.              *)
Touch(p, v) ==
  /\ At(p, "user")
  /\ v < NumPages(sz[p]) /\ v \notin pages[p]
  /\ Map(p, v)
  /\ UNCHANGED callVars

(* Mutant: only the sum is tested. *)
FetchInRange_SumOnly(p, addr) == Add(addr, Word) <= sz[p]
FetchInRange(p, addr) == addr < sz[p] /\ Add(addr, Word) <= sz[p]

(* fetchaddr(): its copyin() touches the pages that hold the word.          *)
Fetch(p, addr) ==
  /\ FetchInRange(p, addr)
  /\ \E v \in {addr \div PGSIZE, Add(addr, Word - 1) \div PGSIZE} : Touch(p, v)

(* kexit() gives no memory back; freeproc() does, in kwait().               *)
Exit(p) ==
  /\ At(p, "user") /\ p # 0
  /\ state' = [state EXCEPT ![p] = "ZOMBIE"]
  /\ UNCHANGED <<free, trapframe, tables, pages, sz, callVars>>

Reap(q) == state[q] = "ZOMBIE" /\ freeproc(q) /\ UNCHANGED callVars

Fork(p) ==
  \/ AllocSlot(p) \/ AllocTable(p) \/ AllocTableFails(p)
  \/ CopyPage(p) \/ CopyFails(p) \/ ForkEnd(p)

Sbrk(p) ==
  \/ \E n \in Counts : SbrkLazy(p, n) \/ SbrkShrink(p, n) \/ SbrkGrow(p, n)
  \/ GrowPage(p) \/ GrowFails(p) \/ GrowEnd(p)

Next ==
  \E p \in Slots :
    \/ Fork(p) \/ Sbrk(p) \/ Exit(p) \/ Reap(p)
    \/ \E v \in 0 .. NumPages(TRAPFRAME) - 1 : Touch(p, v)
    \/ \E addr \in Addrs : Fetch(p, addr)

Spec == Init /\ [][Next]_vars
-----------------------------------------------------------------------------
(* No frame is lost or freed twice, whichever call fails half-way: every    *)
(* one is free or held by a process, a free slot holds none, and a slot     *)
(* that is not yet a process belongs to a fork() still under way.           *)
PagesAccounted ==
  /\ free >= 0 /\ free + MapThenSumSet(Held, Slots) = NFRAMES
  /\ \A q \in Slots :
       /\ state[q] = "UNUSED" => Held(q) = 0
       /\ state[q] = "USED" <=>
            \E p \in Slots : (At(p, "table") \/ At(p, "copy")) /\ np[p] = q

(* User memory stays below the trapframe, however sbrk() is called, and     *)
(* fetchaddr() lets through exactly the words that lie in it, also where    *)
(* the sum wraps at the top of the address space.                           *)
FetchSound ==
  \A p \in Slots :
    /\ sz[p] <= TRAPFRAME
    /\ \A addr \in Addrs : FetchInRange(p, addr) <=> addr + Word <= sz[p]
=============================================================================
