--------------------------- MODULE SyscallProofs ---------------------------
(***************************************************************************)
(* Theorems about the system calls.  Of pause(): for every set of          *)
(* processes, every width of the tick counter and every count below it.    *)
(* Of the memory of processes: for every number of slots and frames, every *)
(* page size and every width of an address.  Of the programs that report   *)
(* on their process: for every number of slots, every length of a chain.   *)
(***************************************************************************)
EXTENDS MCSyscalls, Sums, SequenceTheorems

-----------------------------------------------------------------------------
(* pause()                                                                  *)

Holding == {"test", "check", "sleep"}

(* tickslock is held by the process that is between its acquire and its    *)
(* release, and by the clock while sleepers are left to wake.              *)
LockInv ==
  /\ \A p \in Procs : pc[p] \in Holding <=> tickslock = p
  /\ todo # {} => tickslock = Clock

(* Across the wrap of ticks, the difference that sys_pause() computes is    *)
(* the number of ticks that have passed.                                    *)
TimeInv == \A p \in Procs : pc[p] \in Inside => Since(p) = elapsed[p]

(* A process that goes to sleep has time left and has seen no kill; one     *)
(* that sleeps although it has not is about to be woken.                    *)
Due(p) == elapsed[p] >= n[p] \/ p \in marked
SleepInv ==
  \A p \in Procs :
    /\ pc[p] \in {"check", "sleep"} => elapsed[p] < n[p]
    /\ pc[p] = "sleep" => p \notin marked
    /\ pc[p] = "sleeping" /\ Due(p) => tickslock = Clock /\ p \in todo

PauseInv == TypeOK /\ LockInv /\ TimeInv /\ SleepInv /\ PauseOnTime

-----------------------------------------------------------------------------
LEMMA ConstantFacts ==
  /\ Modulus \in Nat /\ Modulus > 1 /\ MaxCount \in Nat
  /\ Clock \notin Procs /\ None \notin Procs /\ Clock # None
  /\ 0 \in 0 .. Modulus - 1
  BY PauseAssumption

(* Every process is in user space, and ticks is anything. *)
LEMMA PauseInit == Init => PauseInv
  BY ConstantFacts
     DEF Init, PauseInv, TypeOK, LockInv, TimeInv, SleepInv, PauseOnTime, Holding,
         Inside, Outside

(* Every step keeps the types. *)
LEMMA TypeStep == PauseInv /\ Next => TypeOK'
<1> SUFFICES ASSUME PauseInv, Next PROVE TypeOK'
  OBVIOUS
<1> USE ConstantFacts DEF PauseInv, TypeOK, Inside, Outside, Goto
<1>1. ASSUME NEW p \in Procs, NEW k \in -1 .. MaxCount, Enter(p, k) PROVE TypeOK'
  BY <1>1 DEF Enter
<1>2. ASSUME NEW p \in Procs, Test(p) PROVE TypeOK'
  BY <1>2 DEF Test, local
<1>3. ASSUME NEW p \in Procs, CheckKilled(p) PROVE TypeOK'
  BY <1>3 DEF CheckKilled, local
<1>4. ASSUME NEW p \in Procs, Sleep(p) \/ Wake(p) PROVE TypeOK'
  BY <1>4 DEF Sleep, Wake, Retake, local
<1>5. ASSUME NEW p \in Procs, Return(p) PROVE TypeOK'
  BY <1>5 DEF Return
<1>6. CASE Tick
  <2>1. elapsed' \in [Procs -> 0 .. Modulus - 1]
    BY <1>6 DEF Tick
  <2>2. ticks' \in 0 .. Modulus - 1
    BY <1>6 DEF Tick
  <2> QED
    BY <1>6, <2>1, <2>2 DEF Tick, local
<1>7. CASE TickEnd
  BY <1>7 DEF TickEnd, local
<1>8. ASSUME NEW p \in Procs, WakeUp(p) \/ Kill(p) PROVE TypeOK'
  BY <1>8 DEF WakeUp, LeftAfter, Kill, local
<1> QED
  BY <1>1, <1>2, <1>3, <1>4, <1>5, <1>6, <1>7, <1>8 DEF Next, ClockIntr, Proc, Holder

(* Every step keeps tickslock with the one that uses it. *)
LEMMA LockStep == PauseInv /\ Next => LockInv'
<1> SUFFICES ASSUME PauseInv, Next PROVE LockInv'
  OBVIOUS
<1> USE ConstantFacts DEF PauseInv, TypeOK, LockInv, Holding, Goto
<1>1. ASSUME NEW p \in Procs, NEW k \in -1 .. MaxCount, Enter(p, k) PROVE LockInv'
  BY <1>1 DEF Enter
<1>2. ASSUME NEW p \in Procs, Test(p) \/ CheckKilled(p) PROVE LockInv'
  BY <1>2 DEF Test, CheckKilled
<1>3. ASSUME NEW p \in Procs, Sleep(p) \/ Wake(p) PROVE LockInv'
  BY <1>3 DEF Sleep, Wake, Retake
<1>4. ASSUME NEW p \in Procs, Return(p) PROVE LockInv'
  BY <1>4 DEF Return, Outside
<1>5. CASE Tick \/ TickEnd
  BY <1>5 DEF Tick, TickEnd
<1>6. ASSUME NEW p \in Procs, WakeUp(p) \/ Kill(p) PROVE LockInv'
  BY <1>6 DEF WakeUp, LeftAfter, Kill
<1> QED
  BY <1>1, <1>2, <1>3, <1>4, <1>5, <1>6 DEF Next, ClockIntr, Proc, Holder

(* Every step keeps the clock arithmetic right. *)
LEMMA TimeStep == PauseInv /\ Next => TimeInv'
<1> SUFFICES ASSUME PauseInv, Next, NEW p \in Procs, pc'[p] \in Inside
             PROVE  Since(p)' = elapsed'[p]
  BY DEF TimeInv
<1> USE DEF PauseInv, TypeOK, Inside, Goto
<1>1. ASSUME UNCHANGED <<ticks, ticks0, elapsed>>, pc[p] \in Inside
      PROVE  Since(p)' = elapsed'[p]
  BY <1>1 DEF TimeInv, Since
<1>2. ASSUME NEW q \in Procs, NEW k \in -1 .. MaxCount, Enter(q, k)
      PROVE  Since(p)' = elapsed'[p]
  <2>1. CASE p = q
    BY <1>2, <2>1 DEF Enter, Since
  <2>2. CASE p # q
    BY <1>2, <2>2 DEF Enter, Since, TimeInv
  <2> QED
    BY <2>1, <2>2
<1>3. ASSUME NEW q \in Procs, Test(q) \/ CheckKilled(q) \/ Sleep(q) \/ Wake(q)
      PROVE  Since(p)' = elapsed'[p]
  <2>1. UNCHANGED <<ticks, ticks0, elapsed>>
    BY <1>3 DEF Test, CheckKilled, Sleep, Wake, local
  <2>2. pc[p] \in Inside
    BY <1>3 DEF Test, CheckKilled, Sleep, Wake
  <2> QED
    BY <1>1, <2>1, <2>2
<1>4. ASSUME NEW q \in Procs, Return(q) PROVE Since(p)' = elapsed'[p]
  <2>1. p # q /\ UNCHANGED ticks /\ pc[p] \in Inside
        /\ ticks0'[p] = ticks0[p] /\ elapsed'[p] = elapsed[p]
    BY <1>4 DEF Return, Outside
  <2> QED
    BY <2>1 DEF Since, TimeInv
<1>5. CASE Tick
  <2>1. /\ pc[p] \in Inside
        /\ elapsed[p] < Modulus - 1 /\ elapsed'[p] = elapsed[p] + 1
        /\ ticks' = IF ticks = Modulus - 1 THEN 0 ELSE ticks + 1
        /\ ticks0'[p] = ticks0[p]
    BY <1>5 DEF Tick, local
  <2>2. /\ Since(p) = elapsed[p]
        /\ ticks \in 0 .. Modulus - 1 /\ ticks0[p] \in 0 .. Modulus - 1
        /\ Modulus \in Nat /\ Modulus > 1
    BY <2>1, ConstantFacts DEF TimeInv
  <2> HIDE DEF PauseInv, TypeOK, Inside, Goto
  <2> QED
    BY <2>1, <2>2 DEF Since
<1>6. CASE TickEnd
  BY <1>1, <1>6 DEF TickEnd, local
<1>7. ASSUME NEW q \in Procs, WakeUp(q) \/ Kill(q) PROVE Since(p)' = elapsed'[p]
  <2>1. UNCHANGED <<ticks, ticks0, elapsed>> /\ pc[p] \in Inside
    BY <1>7 DEF WakeUp, Kill, local
  <2> QED
    BY <1>1, <2>1
<1> QED
  BY <1>2, <1>3, <1>4, <1>5, <1>6, <1>7 DEF Next, ClockIntr, Proc, Holder

(* Every step keeps the sleepers right: while a process is between its test *)
(* and its sleep it holds tickslock, so there is no tick.                   *)
LEMMA SleepStep == PauseInv /\ Next => SleepInv'
<1> SUFFICES ASSUME PauseInv, Next PROVE SleepInv'
  OBVIOUS
<1> USE ConstantFacts DEF PauseInv, TypeOK, LockInv, SleepInv, Due, Holding, Goto
<1>1. ASSUME NEW p \in Procs, NEW k \in -1 .. MaxCount, Enter(p, k) PROVE SleepInv'
  BY <1>1 DEF Enter
<1>2. ASSUME NEW p \in Procs, Test(p) PROVE SleepInv'
  <2>1. pc[p] \in Inside /\ Since(p) = elapsed[p]
    BY <1>2 DEF Test, TimeInv, Inside
  <2>2. pc'[p] = "check" => elapsed[p] < n[p]
    BY <1>2, <2>1 DEF Test, TimeLeft
  <2>3. /\ UNCHANGED <<n, elapsed, marked, todo>> /\ tickslock # Clock
        /\ \A q \in Procs : pc'[q] = IF q = p THEN pc'[p] ELSE pc[q]
        /\ pc'[p] \in {"check", "returned"}
    BY <1>2 DEF Test, local
  <2> QED
    BY <2>2, <2>3
<1>3. ASSUME NEW p \in Procs, CheckKilled(p) PROVE SleepInv'
  BY <1>3 DEF CheckKilled, local
<1>4. ASSUME NEW p \in Procs, Sleep(p) PROVE SleepInv'
  BY <1>4 DEF Sleep, local
<1>5. ASSUME NEW p \in Procs, Wake(p) PROVE SleepInv'
  BY <1>5 DEF Wake, Retake, local
<1>6. ASSUME NEW p \in Procs, Return(p) PROVE SleepInv'
  BY <1>6 DEF Return, Outside
<1>7. CASE Tick
  BY <1>7 DEF Tick, local
<1>8. CASE TickEnd
  BY <1>8 DEF TickEnd, local
<1>9. ASSUME NEW p \in Procs, WakeUp(p) \/ Kill(p) PROVE SleepInv'
  BY <1>9 DEF WakeUp, LeftAfter, Kill, local
<1> QED
  BY <1>1, <1>2, <1>3, <1>4, <1>5, <1>6, <1>7, <1>8, <1>9 DEF Next, ClockIntr, Proc, Holder

(* Every step keeps the promise to those that have returned. *)
LEMMA OnTimeStep == PauseInv /\ Next => PauseOnTime'
<1> SUFFICES ASSUME PauseInv, Next PROVE PauseOnTime'
  OBVIOUS
<1> USE DEF PauseInv, TypeOK, PauseOnTime, Goto
<1>1. ASSUME NEW p \in Procs, NEW k \in -1 .. MaxCount, Enter(p, k)
      PROVE  PauseOnTime'
  BY <1>1 DEF Enter
<1>2. ASSUME NEW p \in Procs, Test(p) PROVE PauseOnTime'
  <2>1. Since(p) = elapsed[p]
    BY <1>2 DEF Test, TimeInv, Inside
  <2>2. pc'[p] = "returned" => elapsed[p] >= n[p]
    BY <1>2, <2>1 DEF Test, TimeLeft
  <2>3. UNCHANGED <<n, elapsed, killed>> /\ pc'[p] # "aborted"
        /\ \A q \in Procs : pc'[q] = IF q = p THEN pc'[p] ELSE pc[q]
    BY <1>2 DEF Test, local
  <2> QED
    BY <2>2, <2>3
<1>3. ASSUME NEW p \in Procs, CheckKilled(p) PROVE PauseOnTime'
  BY <1>3 DEF CheckKilled, local
<1>4. ASSUME NEW p \in Procs, Sleep(p) \/ Wake(p) PROVE PauseOnTime'
  BY <1>4 DEF Sleep, Wake, local
<1>5. ASSUME NEW p \in Procs, Return(p) PROVE PauseOnTime'
  BY <1>5 DEF Return
<1>6. CASE Tick
  BY <1>6 DEF Tick, local, Inside
<1>7. CASE TickEnd
  BY <1>7 DEF TickEnd, local
<1>8. ASSUME NEW p \in Procs, WakeUp(p) \/ Kill(p) PROVE PauseOnTime'
  BY <1>8 DEF WakeUp, Kill, local
<1> QED
  BY <1>1, <1>2, <1>3, <1>4, <1>5, <1>6, <1>7, <1>8 DEF Next, ClockIntr, Proc, Holder

-----------------------------------------------------------------------------
(* The invariant holds always. *)
THEOREM PauseAlways == Spec => []PauseInv
<1>1. PauseInv /\ [Next]_vars => PauseInv'
  <2> SUFFICES ASSUME PauseInv, [Next]_vars PROVE PauseInv'
    OBVIOUS
  <2>1. CASE Next
    BY <2>1, TypeStep, LockStep, TimeStep, SleepStep, OnTimeStep DEF PauseInv
  <2>2. CASE UNCHANGED vars
    BY <2>2 DEF PauseInv, TypeOK, LockInv, TimeInv, SleepInv, Due, Since, PauseOnTime,
                vars, local
  <2> QED
    BY <2>1, <2>2
<1> QED
  BY PauseInit, <1>1, PTL DEF Spec

(* A pause is never too short, whatever the clock shows when it begins.     *)
THEOREM NeverShort == Spec => []PauseOnTime
  BY PauseAlways, PTL DEF PauseInv

(* Nobody sleeps through its last tick, or past a kill and a tick.          *)
THEOREM NeverLong == Spec => []NoOversleep
<1>1. PauseInv => NoOversleep
  BY ConstantFacts DEF PauseInv, TypeOK, SleepInv, Due, NoOversleep
<1> QED
  BY PauseAlways, <1>1, PTL
-----------------------------------------------------------------------------
(* The memory of processes                                                  *)

MemSlots == Mem!Slots
Held == [q \in MemSlots |-> Mem!Held(q)]
Pages(s) == Mem!NumPages(s)

FrameTypes ==
  /\ free \in Nat
  /\ state \in [MemSlots -> {"UNUSED", "USED", "LIVE", "ZOMBIE"}]
  /\ trapframe \in [MemSlots -> BOOLEAN]
  /\ tables \in [MemSlots -> SUBSET {"root", "kernel", "user"}]
  /\ pages \in [MemSlots -> {P \in SUBSET Nat : IsFiniteSet(P)}]
  /\ sz \in [MemSlots -> 0 .. TRAPFRAME]

CallTypes ==
  /\ mpc \in [MemSlots -> {"user", "table", "copy", "grow"}]
  /\ np \in [MemSlots -> MemSlots]
  /\ goal \in [MemSlots -> 0 .. TRAPFRAME]

Forking(p) == mpc[p] \in {"table", "copy"}

(* A fork() under way has a slot of its own, whose memory is still of size  *)
(* 0; a slot that is no process holds nothing.                              *)
SlotInv ==
  /\ \A p \in MemSlots : mpc[p] # "user" => state[p] = "LIVE"
  /\ \A p \in MemSlots : Forking(p) => state[np[p]] = "USED"
  /\ \A p, r \in MemSlots : Forking(p) /\ Forking(r) /\ np[p] = np[r] => p = r
  /\ \A q \in MemSlots : state[q] = "USED" => \E p \in MemSlots : Forking(p) /\ np[p] = q
  /\ \A q \in MemSlots : state[q] \in {"UNUSED", "USED"} => sz[q] = 0
  /\ \A q \in MemSlots :
       state[q] = "UNUSED" => ~trapframe[q] /\ tables[q] = {} /\ pages[q] = {}
  /\ \A p \in MemSlots :
       mpc[p] = "table" => tables[np[p]] = {} /\ pages[np[p]] = {}

(* No page lies past the end of the memory, whatever it is at the moment:   *)
(* so freeproc(), which looks only there, finds them all.                   *)
PageInv ==
  /\ \A q \in MemSlots :
       mpc[q] # "grow" /\ state[q] # "USED" => \A v \in pages[q] : v < Pages(sz[q])
  /\ \A q \in MemSlots :
       mpc[q] = "grow" => /\ sz[q] <= goal[q]
                          /\ \A v \in pages[q] : v < Pages(goal[q])
  /\ \A p \in MemSlots :
       mpc[p] = "copy" => \A v \in pages[np[p]] : v < Pages(sz[p])

FrameInv == free + SumOf(Held, MemSlots) = NFRAMES   (* none is lost *)

MemInv == FrameTypes /\ CallTypes /\ SlotInv /\ PageInv /\ FrameInv

-----------------------------------------------------------------------------
(* Pages and frames                                                         *)

LEMMA MemConstants ==
  /\ NPROC \in Nat \ {0} /\ MemSlots = 0 .. NPROC - 1 /\ 0 \in MemSlots
  /\ MemSlots \subseteq Nat /\ IsFiniteSet(MemSlots)
  /\ PGSIZE \in Nat \ {0} /\ TRAPFRAME \in Nat /\ AddrMod \in Nat
  /\ Word \in Nat \ {0} /\ TRAPFRAME + Word <= AddrMod
  /\ Counts \subseteq Nat /\ \A k \in Counts : TRAPFRAME + k < AddrMod
  /\ NFRAMES \in Nat /\ NFRAMES >= 3
<1>1. Mem!UserMemAssumption
  BY CallsAssumption
<1>2. NPROC \in Nat \ {0} /\ MemSlots = 0 .. NPROC - 1
  BY <1>1 DEF Mem!UserMemAssumption, MemSlots, Mem!Slots
<1>3. IsFiniteSet(MemSlots)
  BY <1>2, FS_Interval
<1> QED
  BY <1>1, <1>2, <1>3 DEF Mem!UserMemAssumption

(* More memory takes no fewer pages, and no memory takes none.              *)
LEMMA DivMonotone ==
  ASSUME NEW d \in Nat \ {0}, NEW a \in Nat, NEW b \in Nat, a <= b
  PROVE  a \div d \in Nat /\ a \div d <= b \div d
<1> DEFINE k == a \div d
           m == b \div d
<1>1. k \in Nat /\ m \in Nat /\ d * k <= a /\ b < d * (m + 1)
  OBVIOUS
<1>2. ASSUME m + 1 <= k PROVE FALSE
  <2> HIDE DEF k, m
  <2>1. d * (m + 1) <= d * k
    BY <1>1, <1>2
  <2> QED
    BY <1>1, <2>1
<1> QED
  BY <1>1, <1>2

LEMMA PagesMonotone ==
  ASSUME NEW s \in Nat, NEW t \in Nat, s <= t
  PROVE  Pages(s) \in Nat /\ Pages(s) <= Pages(t)
<1>1. PGSIZE \in Nat \ {0}
  BY MemConstants
<1>2. s + PGSIZE - 1 \in Nat /\ t + PGSIZE - 1 \in Nat
  BY <1>1
<1> QED
  BY <1>1, <1>2, DivMonotone DEF Pages, Mem!NumPages

LEMMA PagesZero == Pages(0) = 0
<1>1. PGSIZE \in Nat \ {0}
  BY MemConstants
<1>2. \A d \in Nat \ {0} : (0 + d - 1) \div d = 0
  OBVIOUS
<1> QED
  BY <1>1, <1>2 DEF Pages, Mem!NumPages

(* The next page that a loop maps is one of those still to map.             *)
LEMMA MinIn ==
  ASSUME NEW S \in SUBSET Nat, IsFiniteSet(S), S # {}
  PROVE  Mem!Min(S) \in S
<1> DEFINE Upto(m) == {y \in S : y <= m}
           B == {Upto(m) : m \in S}
<1>1. B \in SUBSET SUBSET S /\ B # {}
  OBVIOUS
<1>2. PICK U \in B : \A V \in SUBSET U : V # U => V \notin B
  <2> HIDE DEF B
  <2> QED
    BY <1>1, Minimal
<1>3. PICK m \in S : U = Upto(m)
  OBVIOUS
<1>4. ASSUME NEW y \in S, ~ (m <= y)
      PROVE  FALSE
  <2>1. y \in Nat /\ m \in Nat /\ y < m
    BY <1>4
  <2>2. Upto(y) \in B /\ m \in U /\ m \notin Upto(y)
    BY <1>3, <2>1
  <2>3. \A x \in Upto(y) : x \in Upto(m)
    <3>1. \A x \in S : x \in Nat
      OBVIOUS
    <3>2. \A x \in Nat : x <= y => x <= m
      BY <2>1
    <3> QED
      BY <3>1, <3>2
  <2> HIDE DEF B, Upto
  <2> QED
    BY <1>2, <1>3, <2>2, <2>3
<1>5. \A y \in S : m <= y
  BY <1>4
<1> QED
  BY <1>5 DEF Mem!Min

Weight(t, T, P) == (IF t THEN 1 ELSE 0) + Cardinality(T) + Cardinality(P)
Load(q) == Weight(trapframe[q], tables[q], pages[q])
Nodes == {"root", "kernel", "user"}

LEMMA NodesFinite == ASSUME NEW T \in SUBSET Nodes PROVE IsFiniteSet(T)
<1>1. IsFiniteSet({"root"}) /\ IsFiniteSet({"root"} \cup {"kernel"})
  BY FS_Singleton, FS_AddElement
<1>2. IsFiniteSet(({"root"} \cup {"kernel"}) \cup {"user"})
  BY <1>1, FS_AddElement
<1>3. T \in SUBSET (({"root"} \cup {"kernel"}) \cup {"user"})
  BY DEF Nodes
<1> QED
  BY <1>2, <1>3, FS_Subset

LEMMA WeightNat ==
  ASSUME NEW t \in BOOLEAN, NEW T \in SUBSET Nodes, NEW P, IsFiniteSet(P)
  PROVE  Weight(t, T, P) \in Nat /\ (Weight(t, T, P) = 0 <=> ~t /\ T = {} /\ P = {})
<1>1. Cardinality(T) \in Nat /\ Cardinality(P) \in Nat
  BY NodesFinite, FS_CardinalityType
<1>2. (Cardinality(T) = 0 <=> T = {}) /\ (Cardinality(P) = 0 <=> P = {})
  BY NodesFinite, FS_EmptySet
<1> QED
  BY <1>1, <1>2 DEF Weight

LEMMA WeightMap ==
  ASSUME NEW t \in BOOLEAN, NEW T \in SUBSET Nodes, NEW P, IsFiniteSet(P), NEW v, v \notin P
  PROVE  /\ Weight(t, T \cup {"user"}, P \cup {v})
              = Weight(t, T, P) + (IF "user" \in T THEN 1 ELSE 2)
         /\ IsFiniteSet(P \cup {v})
<1>1. /\ Cardinality(P \cup {v}) = Cardinality(P) + 1 /\ IsFiniteSet(P \cup {v})
      /\ Cardinality(T \cup {"user"})
           = IF "user" \in T THEN Cardinality(T) ELSE Cardinality(T) + 1
  BY NodesFinite, FS_AddElement
<1>2. Cardinality(T) \in Nat /\ Cardinality(P) \in Nat
  BY NodesFinite, FS_CardinalityType
<1> QED
  BY <1>1, <1>2 DEF Weight

LEMMA WeightCut ==
  ASSUME NEW t \in BOOLEAN, NEW T \in SUBSET Nodes,
         NEW P \in SUBSET Nat, IsFiniteSet(P), NEW m \in Nat
  PROVE  /\ Weight(t, T, P) = Weight(t, T, {v \in P : v < m})
                                + Cardinality({v \in P : v >= m})
         /\ IsFiniteSet({v \in P : v < m}) /\ Cardinality({v \in P : v >= m}) \in Nat
<1> DEFINE A == {v \in P : v < m}
           B == {v \in P : v >= m}
<1>1. IsFiniteSet(A) /\ IsFiniteSet(B) /\ A \cap B = {} /\ A \cup B = P
  <2>1. \A v \in P : v < m <=> ~ (v >= m)
    <3>1. \A v \in Nat : v < m <=> ~ (v >= m)
      OBVIOUS
    <3> QED
      BY <3>1
  <2>2. A \in SUBSET P /\ B \in SUBSET P /\ A \cap B = {} /\ A \cup B = P
    BY <2>1, Zenon
  <2> HIDE DEF A, B
  <2> QED
    BY <2>2, FS_Subset
<1>2. Cardinality(P) = Cardinality(A) + Cardinality(B) - Cardinality({})
  <2> HIDE DEF A, B
  <2> QED
    BY <1>1, FS_Union
<1>3. /\ Cardinality({}) = 0 /\ Cardinality(A) \in Nat /\ Cardinality(B) \in Nat
      /\ Cardinality(T) \in Nat
  BY <1>1, NodesFinite, FS_EmptySet, FS_CardinalityType
<1> HIDE DEF A, B
<1>4. Weight(t, T, P) = Weight(t, T, A) + Cardinality(B)
  BY <1>2, <1>3 DEF Weight
<1> QED
  BY <1>1, <1>3, <1>4 DEF A, B

LEMMA WeightTable ==
  ASSUME NEW t \in BOOLEAN, NEW P, IsFiniteSet(P)
  PROVE  Weight(t, {"root", "kernel"}, P) = Weight(t, {}, P) + 2
<1>1. Cardinality({"root"} \cup {"kernel"}) = 2 /\ Cardinality({}) = 0
  <2>1. IsFiniteSet({"root"}) /\ Cardinality({"root"}) = 1 /\ "kernel" \notin {"root"}
    BY FS_Singleton
  <2>2. Cardinality({"root"} \cup {"kernel"}) = Cardinality({"root"}) + 1
    BY <2>1, FS_AddElement
  <2> QED
    BY <2>1, <2>2, FS_EmptySet
<1>2. {"root", "kernel"} = {"root"} \cup {"kernel"} /\ Cardinality(P) \in Nat
  BY FS_CardinalityType
<1> QED
  BY <1>1, <1>2 DEF Weight

LEMMA WeightFrame ==
  ASSUME NEW T \in SUBSET Nodes, NEW P, IsFiniteSet(P)
  PROVE  Weight(TRUE, T, P) = Weight(FALSE, T, P) + 1
<1>1. Cardinality(T) \in Nat /\ Cardinality(P) \in Nat
  BY NodesFinite, FS_CardinalityType
<1> QED
  BY <1>1 DEF Weight

LEMMA MemCardinality == ASSUME NEW S PROVE Mem!Cardinality(S) = Cardinality(S)
BY DEF Mem!Cardinality, Cardinality, Mem!IsFiniteSet, IsFiniteSet

LEMMA HeldIs == \A q \in MemSlots : Mem!Held(q) = Load(q) /\ Held[q] = Load(q)
BY MemCardinality DEF Held, Mem!Held, Load, Weight

LEMMA LoadNat ==
  ASSUME FrameTypes, NEW q \in MemSlots
  PROVE  Load(q) \in Nat /\ (Load(q) = 0 <=> ~trapframe[q] /\ tables[q] = {} /\ pages[q] = {})
BY WeightNat DEF FrameTypes, Load, Nodes

(* What a step takes for one slot, or gives back from it, comes from the     *)
(* free frames, or goes to them.                                            *)
LEMMA Accounted ==
  ASSUME FrameTypes, FrameInv, NEW q \in MemSlots,
         \A r \in MemSlots \ {q} :
           trapframe'[r] = trapframe[r] /\ tables'[r] = tables[r] /\ pages'[r] = pages[r],
         Load(q)' \in Nat, free' \in Int, free' + Load(q)' = free + Load(q)
  PROVE  FrameInv'
<1> DEFINE h == Held
           e == Held'
           S == MemSlots
<1>1. IsFiniteSet(S) /\ S' = S /\ NFRAMES' = NFRAMES
  BY MemConstants DEF MemSlots, Mem!Slots
<1>2. \A x \in S : h[x] \in Int /\ h[x] = Load(x)
  BY LoadNat, HeldIs
<1>3. e = [x \in S |-> Load(x)']
  BY MemCardinality DEF Held, Mem!Held, Load, Weight, MemSlots, Mem!Slots
<1>4. \A x \in S \ {q} : e[x] = h[x]
  BY <1>2, <1>3 DEF Load
<1>5. e[q] \in Int /\ e[q] = Load(q)'
  BY <1>3
<1>6. free + SumOf(h, S) = NFRAMES /\ free \in Int
  BY DEF FrameInv, FrameTypes
<1>7. free' + SumOf(e, S) = NFRAMES
  <2>1. e[q] = Load(q)' /\ h[q] = Load(q) /\ q \in S
    BY <1>2, <1>5
  <2> HIDE DEF h, e, S
  <2>2. SumOf(e, S) = SumOf(h, S) - h[q] + e[q] /\ SumOf(h, S) \in Int
    BY <1>1, <1>2, <1>4, <1>5, <2>1, SumUpdate, SumInt
  <2>3. h[q] \in Int /\ e[q] \in Int /\ free' + e[q] = free + h[q]
    BY <1>2, <1>5, <2>1
  <2> QED
    BY <1>6, <2>2, <2>3
<1> QED
  BY <1>1, <1>7 DEF FrameInv

LEMMA NothingTaken ==
  ASSUME FrameInv, UNCHANGED <<free, trapframe, tables, pages>>
  PROVE  FrameInv'
<1>1. Held' = Held /\ MemSlots' = MemSlots
  BY DEF Held, Mem!Held, MemSlots, Mem!Slots
<1> QED
  BY <1>1 DEF FrameInv

(* mappages() of one more page *)
LEMMA MapStep ==
  ASSUME FrameTypes, FrameInv, NEW q \in MemSlots, NEW v \in Nat, v \notin pages[q],
         Mem!Map(q, v)
  PROVE  FrameTypes' /\ FrameInv'
<1>1. /\ trapframe[q] \in BOOLEAN /\ tables[q] \in SUBSET Nodes
      /\ pages[q] \in SUBSET Nat /\ IsFiniteSet(pages[q]) /\ free \in Nat
  BY DEF FrameTypes, Nodes
<1>2. /\ tables' = [tables EXCEPT ![q] = @ \cup {"user"}]
      /\ pages' = [pages EXCEPT ![q] = @ \cup {v}]
      /\ UNCHANGED <<state, trapframe, sz>>
      /\ free >= Mem!Cost(q) /\ free' = free - Mem!Cost(q)
  BY DEF Mem!Map
<1>3. Mem!Cost(q) = IF "user" \in tables[q] THEN 1 ELSE 2
  BY DEF Mem!Cost
<1>4. /\ trapframe'[q] = trapframe[q] /\ tables'[q] = tables[q] \cup {"user"}
      /\ pages'[q] = pages[q] \cup {v}
  BY <1>2 DEF FrameTypes
<1>5. /\ Load(q)' = Load(q) + (IF "user" \in tables[q] THEN 1 ELSE 2)
      /\ IsFiniteSet(pages[q] \cup {v})
  <2> DEFINE t == trapframe[q]
             T == tables[q]
             P == pages[q]
  <2>1. t \in BOOLEAN /\ T \in SUBSET Nodes /\ IsFiniteSet(P) /\ v \notin P
    BY <1>1
  <2>2. /\ Weight(t, T \cup {"user"}, P \cup {v})
             = Weight(t, T, P) + (IF "user" \in T THEN 1 ELSE 2)
        /\ IsFiniteSet(P \cup {v})
    <3> HIDE DEF t, T, P
    <3> QED
      BY <2>1, WeightMap
  <2> QED
    BY <1>4, <2>2 DEF Load
<1>6. FrameTypes'
  <2>1. free' \in Nat
    BY <1>1, <1>2, <1>3
  <2>2. tables' \in [MemSlots -> SUBSET {"root", "kernel", "user"}]
    BY <1>2 DEF FrameTypes
  <2>3. pages' \in [MemSlots -> {P \in SUBSET Nat : IsFiniteSet(P)}]
    BY <1>1, <1>2, <1>5 DEF FrameTypes
  <2>4. MemSlots' = MemSlots
    BY DEF MemSlots, Mem!Slots
  <2> QED
    BY <1>2, <2>1, <2>2, <2>3, <2>4 DEF FrameTypes
<1>7. Load(q) \in Nat
  BY LoadNat
<1>8. Load(q)' \in Nat /\ free' \in Int /\ free' + Load(q)' = free + Load(q)
  BY <1>1, <1>2, <1>3, <1>5, <1>7
<1>9. \A r \in MemSlots \ {q} :
        trapframe'[r] = trapframe[r] /\ tables'[r] = tables[r] /\ pages'[r] = pages[r]
  BY <1>2 DEF FrameTypes
<1>10. FrameInv'
  BY <1>8, <1>9, Accounted
<1> QED
  BY <1>6, <1>10

LEMMA KeptIsLoad ==
  ASSUME FrameTypes, NEW q \in MemSlots, NEW m \in Nat
  PROVE  /\ Mem!KeptBelow(q, m) \in SUBSET Nat /\ IsFiniteSet(Mem!KeptBelow(q, m))
         /\ Mem!FreedFrom(q, m) \in Nat
         /\ Load(q) = Weight(trapframe[q], tables[q], Mem!KeptBelow(q, m))
                        + Mem!FreedFrom(q, m)
<1>1. /\ trapframe[q] \in BOOLEAN /\ tables[q] \in SUBSET Nodes
      /\ pages[q] \in SUBSET Nat /\ IsFiniteSet(pages[q])
  BY DEF FrameTypes, Nodes
<1>2. Mem!FreedFrom(q, m) = Cardinality({v \in pages[q] : v >= m})
  BY MemCardinality DEF Mem!FreedFrom
<1>3. Mem!KeptBelow(q, m) = {v \in pages[q] : v < m}
  BY DEF Mem!KeptBelow
<1> DEFINE t == trapframe[q]
           T == tables[q]
           P == pages[q]
<1>4. t \in BOOLEAN /\ T \in SUBSET Nodes /\ P \in SUBSET Nat /\ IsFiniteSet(P)
  BY <1>1
<1>5. /\ Weight(t, T, P) = Weight(t, T, {v \in P : v < m})
                              + Cardinality({v \in P : v >= m})
      /\ IsFiniteSet({v \in P : v < m}) /\ Cardinality({v \in P : v >= m}) \in Nat
  <2> HIDE DEF t, T, P
  <2> QED
    BY <1>4, WeightCut
<1>6. Mem!KeptBelow(q, m) \in SUBSET Nat
  BY <1>1, <1>3
<1> QED
  BY <1>2, <1>3, <1>5, <1>6 DEF Load

(* uvmunmap() of the pages from number m on *)
LEMMA CutStep ==
  ASSUME FrameTypes, FrameInv, NEW q \in MemSlots, NEW m \in Nat,
         free' = free + Mem!FreedFrom(q, m),
         pages' = [pages EXCEPT ![q] = Mem!KeptBelow(q, m)],
         UNCHANGED <<trapframe, tables>>
  PROVE  /\ free' \in Nat /\ FrameInv'
         /\ pages' \in [MemSlots -> {P \in SUBSET Nat : IsFiniteSet(P)}]
<1>1. /\ Mem!KeptBelow(q, m) \in SUBSET Nat /\ IsFiniteSet(Mem!KeptBelow(q, m))
      /\ Mem!FreedFrom(q, m) \in Nat
      /\ Load(q) = Weight(trapframe[q], tables[q], Mem!KeptBelow(q, m))
                     + Mem!FreedFrom(q, m)
  BY KeptIsLoad
<1>2. pages' \in [MemSlots -> {P \in SUBSET Nat : IsFiniteSet(P)}]
  BY <1>1 DEF FrameTypes
<1>3. trapframe[q] \in BOOLEAN /\ tables[q] \in SUBSET Nodes /\ free \in Nat
  BY DEF FrameTypes, Nodes
<1>4. Weight(trapframe[q], tables[q], Mem!KeptBelow(q, m)) \in Nat
  BY <1>1, <1>3, WeightNat
<1>5. Load(q)' = Weight(trapframe[q], tables[q], Mem!KeptBelow(q, m))
  BY DEF Load, FrameTypes
<1>6. /\ free' \in Nat /\ Load(q)' \in Nat /\ free' + Load(q)' = free + Load(q)
  BY <1>1, <1>3, <1>4, <1>5
<1>7. \A r \in MemSlots \ {q} :
        trapframe'[r] = trapframe[r] /\ tables'[r] = tables[r] /\ pages'[r] = pages[r]
  BY DEF FrameTypes
<1> QED
  BY <1>2, <1>6, <1>7, Accounted

(* freeproc() of a slot whose frames are all given back                     *)
LEMMA ClearStep ==
  ASSUME FrameTypes, FrameInv, NEW q \in MemSlots, Mem!Clear(q), free' = free + Load(q)
  PROVE  FrameTypes' /\ FrameInv'
<1>1. /\ state' = [state EXCEPT ![q] = "UNUSED"]
      /\ trapframe' = [trapframe EXCEPT ![q] = FALSE]
      /\ tables' = [tables EXCEPT ![q] = {}]
      /\ pages' = [pages EXCEPT ![q] = {}]
      /\ sz' = [sz EXCEPT ![q] = 0]
  BY DEF Mem!Clear
<1>2. Load(q) \in Nat /\ free \in Nat
  BY LoadNat DEF FrameTypes
<1>3. trapframe'[q] = FALSE /\ tables'[q] = {} /\ pages'[q] = {}
  BY <1>1 DEF FrameTypes
<1>4. Load(q)' = 0
  BY <1>3, FS_EmptySet DEF Load, Weight
<1>5. \A r \in MemSlots \ {q} :
        trapframe'[r] = trapframe[r] /\ tables'[r] = tables[r] /\ pages'[r] = pages[r]
  BY <1>1 DEF FrameTypes
<1>6. FrameInv'
  BY <1>2, <1>4, <1>5, Accounted
<1>7. FrameTypes'
  <2>1. IsFiniteSet({}) /\ TRAPFRAME \in Nat /\ MemSlots' = MemSlots
    BY FS_EmptySet, MemConstants DEF MemSlots, Mem!Slots
  <2>2. pages' \in [MemSlots -> {P \in SUBSET Nat : IsFiniteSet(P)}]
    BY <1>1, <2>1 DEF FrameTypes
  <2>3. sz' \in [MemSlots -> 0 .. TRAPFRAME]
    BY <1>1, <2>1 DEF FrameTypes
  <2>4. free' \in Nat
    BY <1>2
  <2> QED
    BY <1>1, <2>1, <2>2, <2>3, <2>4 DEF FrameTypes
<1> QED
  BY <1>6, <1>7

(* What freeproc() gives back is all that the slot holds: none of its pages  *)
(* lies past its size.                                                      *)
LEMMA FreedAll ==
  ASSUME FrameTypes, NEW q \in MemSlots, \A v \in pages[q] : v < Pages(sz[q])
  PROVE  Mem!Freed(q) = Load(q)
<1>1. Mem!KeptBelow(q, Pages(sz[q])) = pages[q]
  BY DEF Mem!KeptBelow
<1> QED
  BY <1>1, MemCardinality DEF Mem!Freed, Load, Weight, Pages
-----------------------------------------------------------------------------
(* kfork()                                                                  *)

(* A call that returns forgets its child and its goal.                      *)
LEMMA ReturnTypes ==
  ASSUME CallTypes, NEW p \in MemSlots, Mem!Return(p)
  PROVE  /\ CallTypes' /\ mpc'[p] = "user"
         /\ \A r \in MemSlots \ {p} :
              mpc'[r] = mpc[r] /\ np'[r] = np[r] /\ goal'[r] = goal[r]
<1>1. /\ mpc' = [mpc EXCEPT ![p] = "user"] /\ np' = [np EXCEPT ![p] = 0]
      /\ goal' = [goal EXCEPT ![p] = 0]
  BY DEF Mem!Return, Mem!Goto
<1>2. 0 \in MemSlots /\ 0 \in 0 .. TRAPFRAME
  BY MemConstants
<1>3. np' \in [MemSlots -> MemSlots] /\ goal' \in [MemSlots -> 0 .. TRAPFRAME]
  BY <1>1, <1>2, Zenon DEF CallTypes
<1> QED
  BY <1>1, <1>3 DEF CallTypes

LEMMA AllocSlotStep ==
  ASSUME MemInv, NEW p \in MemSlots, Mem!AllocSlot(p)
  PROVE  MemInv'
<1> USE DEF MemInv
<1>1. PICK q \in MemSlots :
        /\ state[q] = "UNUSED" /\ free > 0 /\ free' = free - 1
        /\ state' = [state EXCEPT ![q] = "USED"]
        /\ trapframe' = [trapframe EXCEPT ![q] = TRUE]
        /\ np' = [np EXCEPT ![p] = q]
  BY DEF Mem!AllocSlot, MemSlots
<1>2. /\ state[p] = "LIVE" /\ mpc[p] = "user" /\ mpc' = [mpc EXCEPT ![p] = "table"]
      /\ UNCHANGED <<tables, pages, sz, goal>>
  BY DEF Mem!AllocSlot, Mem!At, Mem!Goto
<1>3. FrameTypes' /\ CallTypes'
  BY <1>1, <1>2 DEF FrameTypes, CallTypes
<1>4. ~trapframe[q] /\ tables[q] = {} /\ pages[q] = {} /\ sz[q] = 0 /\ mpc[q] = "user"
  BY <1>1 DEF SlotInv, CallTypes
<1>5. FrameInv'
  <2>1. trapframe'[q] = TRUE /\ tables'[q] = {} /\ pages'[q] = {}
    BY <1>1, <1>2, <1>4 DEF FrameTypes
  <2>2. Load(q) = 0 /\ Load(q)' = 1
    BY <1>4, <2>1, FS_EmptySet DEF Load, Weight
  <2>3. Load(q)' \in Nat /\ free' \in Int /\ free' + Load(q)' = free + Load(q)
    BY <1>1, <2>2 DEF FrameTypes
  <2>4. \A r \in MemSlots \ {q} :
          trapframe'[r] = trapframe[r] /\ tables'[r] = tables[r] /\ pages'[r] = pages[r]
    BY <1>1, <1>2 DEF FrameTypes
  <2> QED
    BY <2>3, <2>4, Accounted
<1>6. /\ state'[q] = "USED" /\ np'[p] = q /\ mpc'[p] = "table" /\ p # q
      /\ \A r \in MemSlots \ {q} : state'[r] = state[r] /\ trapframe'[r] = trapframe[r]
      /\ \A r \in MemSlots \ {p} : np'[r] = np[r] /\ mpc'[r] = mpc[r]
  BY <1>1, <1>2 DEF FrameTypes, CallTypes
<1>7. SlotInv'
  BY <1>1, <1>2, <1>4, <1>6 DEF SlotInv, Forking, CallTypes
<1>8. PageInv'
  BY <1>1, <1>2, <1>4, <1>6 DEF PageInv, SlotInv, Forking, CallTypes, Pages, Mem!NumPages
<1> QED
  BY <1>3, <1>5, <1>7, <1>8

LEMMA AllocTableStep ==
  ASSUME MemInv, NEW p \in MemSlots, Mem!AllocTable(p)
  PROVE  MemInv'
<1> USE DEF MemInv
<1>0. PICK q \in MemSlots : q = np[p]
  BY DEF CallTypes
<1>1. /\ state[p] = "LIVE" /\ mpc[p] = "table" /\ free >= 2 /\ free' = free - 2
      /\ tables' = [tables EXCEPT ![q] = {"root", "kernel"}]
      /\ mpc' = [mpc EXCEPT ![p] = "copy"]
      /\ UNCHANGED <<state, trapframe, pages, sz, np, goal>>
  BY <1>0 DEF Mem!AllocTable, Mem!At, Mem!Goto
<1>2. /\ q \in MemSlots /\ state[q] = "USED" /\ tables[q] = {} /\ pages[q] = {}
      /\ trapframe[q] \in BOOLEAN /\ IsFiniteSet(pages[q])
  BY <1>0, <1>1 DEF SlotInv, Forking, FrameTypes, CallTypes
<1>3. FrameTypes' /\ CallTypes'
  BY <1>1, <1>2 DEF FrameTypes, CallTypes
<1>4. FrameInv'
  <2>1. tables'[q] = {"root", "kernel"} /\ trapframe'[q] = trapframe[q] /\ pages'[q] = pages[q]
    BY <1>1, <1>2 DEF FrameTypes
  <2>2. Load(q)' = Load(q) + 2
    BY <1>2, <2>1, WeightTable DEF Load
  <2>3. Load(q) \in Nat /\ free \in Nat
    BY <1>2, LoadNat DEF FrameTypes
  <2>4. Load(q)' \in Nat /\ free' \in Int /\ free' + Load(q)' = free + Load(q)
    BY <1>1, <2>2, <2>3
  <2>5. \A r \in MemSlots \ {q} :
          trapframe'[r] = trapframe[r] /\ tables'[r] = tables[r] /\ pages'[r] = pages[r]
    BY <1>1 DEF FrameTypes
  <2> QED
    BY <1>2, <2>4, <2>5, Accounted
<1>5. /\ mpc'[p] = "copy" /\ \A r \in MemSlots \ {p} : mpc'[r] = mpc[r]
      /\ \A r \in MemSlots \ {q} : tables'[r] = tables[r]
  BY <1>1 DEF FrameTypes, CallTypes
<1>6. SlotInv'
  BY <1>1, <1>2, <1>0, <1>5 DEF SlotInv, Forking, CallTypes
<1>7. PageInv'
  BY <1>1, <1>2, <1>0, <1>5 DEF PageInv, CallTypes, Pages, Mem!NumPages
<1> QED
  BY <1>3, <1>4, <1>6, <1>7

(* The end of a fork() that has failed: its slot is free again.             *)
LEMMA ForkUndone ==
  ASSUME MemInv, NEW p \in MemSlots, state[p] = "LIVE", Forking(p),
         Mem!Clear(np[p]), Mem!Return(p), free' = free + Load(np[p])
  PROVE  MemInv'
<1> USE DEF MemInv
<1> DEFINE q == np[p]
<1>1. q \in MemSlots /\ state[q] = "USED" /\ p # q /\ mpc[q] = "user"
  BY DEF SlotInv, CallTypes
<1>2. Mem!Clear(q) /\ free' = free + Load(q)
  OBVIOUS
<1>3. /\ state' = [state EXCEPT ![q] = "UNUSED"]
      /\ trapframe' = [trapframe EXCEPT ![q] = FALSE]
      /\ tables' = [tables EXCEPT ![q] = {}]
      /\ pages' = [pages EXCEPT ![q] = {}]
      /\ sz' = [sz EXCEPT ![q] = 0]
  BY DEF Mem!Clear
<1>4. \A r \in MemSlots : Forking(r) /\ np[r] = q => r = p
  BY DEF SlotInv
<1> HIDE DEF q
<1>5. FrameTypes' /\ FrameInv'
  BY <1>1, <1>2, ClearStep
<1>6. /\ CallTypes' /\ mpc'[p] = "user"
      /\ \A r \in MemSlots \ {p} :
           mpc'[r] = mpc[r] /\ np'[r] = np[r] /\ goal'[r] = goal[r]
  BY ReturnTypes
<1>7. /\ state'[q] = "UNUSED" /\ ~trapframe'[q] /\ tables'[q] = {} /\ pages'[q] = {}
      /\ sz'[q] = 0
      /\ \A r \in MemSlots \ {q} :
           /\ state'[r] = state[r] /\ trapframe'[r] = trapframe[r] /\ sz'[r] = sz[r]
           /\ tables'[r] = tables[r] /\ pages'[r] = pages[r]
  BY <1>1, <1>3 DEF FrameTypes
<1>8. SlotInv'
  <2>1. /\ ~Forking(p)'
        /\ \A r \in MemSlots \ {p} :
             /\ Forking(r)' <=> Forking(r)
             /\ Forking(r) => np'[r] = np[r] /\ np[r] # q /\ np[r] \in MemSlots
    BY <1>4, <1>6 DEF Forking, CallTypes
  <2>2. \A r \in MemSlots : mpc'[r] # "user" => state'[r] = "LIVE"
    BY <1>1, <1>6, <1>7 DEF SlotInv
  <2>3. /\ \A r \in MemSlots : Forking(r)' => state'[np'[r]] = "USED"
        /\ \A r, u \in MemSlots : Forking(r)' /\ Forking(u)' /\ np'[r] = np'[u] => r = u
    BY <2>1, <1>7 DEF SlotInv
  <2>4. ASSUME NEW r \in MemSlots, state'[r] = "USED"
        PROVE  \E u \in MemSlots : Forking(u)' /\ np'[u] = r
    <3>1. r # q /\ state[r] = "USED"
      BY <2>4, <1>7
    <3>2. PICK u \in MemSlots : Forking(u) /\ np[u] = r
      BY <3>1 DEF SlotInv
    <3>3. u # p
      BY <3>1, <3>2 DEF q
    <3> QED
      BY <2>1, <3>2, <3>3
  <2>5. \A r \in MemSlots :
          /\ state'[r] \in {"UNUSED", "USED"} => sz'[r] = 0
          /\ state'[r] = "UNUSED" => ~trapframe'[r] /\ tables'[r] = {} /\ pages'[r] = {}
    BY <1>7 DEF SlotInv
  <2>6. ASSUME NEW r \in MemSlots, mpc'[r] = "table"
        PROVE  tables'[np'[r]] = {} /\ pages'[np'[r]] = {}
    <3>1. r # p /\ mpc[r] = "table" /\ tables[np[r]] = {} /\ pages[np[r]] = {}
      BY <2>6, <1>6 DEF SlotInv
    <3>2. np'[r] = np[r] /\ np[r] # q /\ np[r] \in MemSlots
      BY <2>1, <3>1 DEF Forking
    <3> QED
      BY <3>1, <3>2, <1>7
  <2> QED
    BY <2>2, <2>3, <2>4, <2>5, <2>6 DEF SlotInv
<1>9. PageInv'
  BY <1>1, <1>4, <1>6, <1>7 DEF PageInv, Forking, CallTypes, Pages, Mem!NumPages
<1> QED
  BY <1>5, <1>6, <1>8, <1>9

LEMMA AllocTableFailsStep ==
  ASSUME MemInv, NEW p \in MemSlots, Mem!AllocTableFails(p)
  PROVE  MemInv'
<1> USE DEF MemInv
<1>1. /\ state[p] = "LIVE" /\ mpc[p] = "table" /\ Mem!Clear(np[p]) /\ Mem!Return(p)
      /\ free' = free + Mem!Freed(np[p])
  BY DEF Mem!AllocTableFails, Mem!At, Mem!freeproc
<1>2. np[p] \in MemSlots /\ pages[np[p]] = {}
  BY <1>1 DEF SlotInv, CallTypes
<1>3. Mem!Freed(np[p]) = Load(np[p])
  BY <1>2, FreedAll
<1> QED
  BY <1>1, <1>3, ForkUndone DEF Forking

LEMMA CopyFailsStep ==
  ASSUME MemInv, NEW p \in MemSlots, Mem!CopyFails(p)
  PROVE  MemInv'
<1> USE DEF MemInv
<1> DEFINE q == np[p]
<1>1. /\ state[p] = "LIVE" /\ mpc[p] = "copy" /\ Mem!Clear(q) /\ Mem!Return(p)
      /\ free' = free + Mem!Freed(q) + Mem!FreedFrom(q, 0)
  BY DEF Mem!CopyFails, Mem!At
<1>2. q \in MemSlots /\ sz[q] = 0
  BY <1>1 DEF SlotInv, Forking, CallTypes
<1>3. Load(q) = Mem!Freed(q) + Mem!FreedFrom(q, 0)
  <2> HIDE DEF q
  <2>1. /\ Mem!KeptBelow(q, 0) \in SUBSET Nat /\ Mem!FreedFrom(q, 0) \in Nat
        /\ Load(q) = Weight(trapframe[q], tables[q], Mem!KeptBelow(q, 0))
                       + Mem!FreedFrom(q, 0)
    BY <1>2, KeptIsLoad
  <2>2. Mem!Freed(q) = Weight(trapframe[q], tables[q], Mem!KeptBelow(q, 0))
    BY <1>2, PagesZero, MemCardinality DEF Mem!Freed, Weight, Pages
  <2> QED
    BY <2>1, <2>2
<1>4. Load(q) \in Nat /\ free \in Nat /\ Mem!FreedFrom(q, 0) \in Nat
  <2> HIDE DEF q
  <2> QED
    BY <1>2, LoadNat, KeptIsLoad DEF FrameTypes
<1>5. Mem!Freed(q) \in Nat
  <2> HIDE DEF q
  <2>1. /\ IsFiniteSet(Mem!KeptBelow(q, 0)) /\ trapframe[q] \in BOOLEAN
        /\ tables[q] \in SUBSET Nodes
    BY <1>2, KeptIsLoad DEF FrameTypes, Nodes
  <2>2. Mem!Freed(q) = Weight(trapframe[q], tables[q], Mem!KeptBelow(q, 0))
    BY <1>2, PagesZero, MemCardinality DEF Mem!Freed, Weight, Pages
  <2> QED
    BY <2>1, <2>2, WeightNat
<1>6. free' = free + Load(q)
  <2> HIDE DEF q
  <2> QED
    BY <1>1, <1>3, <1>4, <1>5
<1> QED
  BY <1>1, <1>6, ForkUndone DEF Forking

LEMMA CopyPageStep ==
  ASSUME MemInv, NEW p \in MemSlots, Mem!CopyPage(p)
  PROVE  MemInv'
<1> USE DEF MemInv
<1> DEFINE q == np[p]
           v == Mem!Min(Mem!ToCopy(p))
<1>1. /\ state[p] = "LIVE" /\ mpc[p] = "copy" /\ Mem!ToCopy(p) # {} /\ Mem!Map(q, v)
      /\ UNCHANGED <<mpc, np, goal>>
  BY DEF Mem!CopyPage, Mem!At, Mem!callVars
<1>2. q \in MemSlots /\ state[q] = "USED" /\ p # q
  BY <1>1 DEF SlotInv, Forking, CallTypes
<1>3. /\ Mem!ToCopy(p) \in SUBSET Nat /\ IsFiniteSet(Mem!ToCopy(p))
      /\ \A x \in Mem!ToCopy(p) : x \notin pages[q] /\ x < Pages(sz[p])
  <2>1. Mem!ToCopy(p) \in SUBSET pages[p]
    BY DEF Mem!ToCopy, Mem!KeptBelow
  <2>2. pages[p] \in SUBSET Nat /\ IsFiniteSet(pages[p])
    BY DEF FrameTypes
  <2>3. IsFiniteSet(Mem!ToCopy(p))
    BY <2>1, <2>2, FS_Subset
  <2> QED
    BY <2>1, <2>2, <2>3 DEF Mem!ToCopy, Mem!KeptBelow, Pages
<1>4. v \in Nat /\ v \notin pages[q] /\ v < Pages(sz[p])
  <2>1. v \in Mem!ToCopy(p)
    <3> DEFINE S == Mem!ToCopy(p)
    <3> HIDE DEF S
    <3> QED
      BY <1>1, <1>3, MinIn DEF S
  <2> HIDE DEF v
  <2> QED
    BY <1>3, <2>1
<1> HIDE DEF q, v
<1>5. FrameTypes' /\ FrameInv' /\ CallTypes'
  BY <1>1, <1>2, <1>4, MapStep DEF CallTypes
<1>6. /\ UNCHANGED <<state, trapframe, sz>>
      /\ pages'[q] = pages[q] \cup {v}
      /\ \A r \in MemSlots \ {q} : pages'[r] = pages[r] /\ tables'[r] = tables[r]
  BY <1>1, <1>2 DEF Mem!Map, FrameTypes
<1>7. \A r \in MemSlots : Forking(r) /\ np[r] = q => r = p
  BY <1>1 DEF SlotInv, Forking, q
<1>8. SlotInv'
  BY <1>1, <1>2, <1>6, <1>7 DEF SlotInv, Forking, CallTypes, q
<1>9. PageInv'
  <2>1. \A r \in MemSlots : Pages(sz'[r]) = Pages(sz[r]) /\ Pages(goal'[r]) = Pages(goal[r])
    BY <1>1, <1>6
  <2>2. mpc[q] # "grow"
    BY <1>2 DEF SlotInv, CallTypes
  <2> QED
    BY <1>1, <1>2, <1>4, <1>6, <1>7, <2>1, <2>2
       DEF PageInv, Forking, CallTypes, Pages, Mem!NumPages, q
<1> QED
  BY <1>5, <1>8, <1>9

LEMMA ForkEndStep ==
  ASSUME MemInv, NEW p \in MemSlots, Mem!ForkEnd(p)
  PROVE  MemInv'
<1> USE DEF MemInv
<1> DEFINE q == np[p]
<1>1. /\ state[p] = "LIVE" /\ mpc[p] = "copy"
      /\ sz' = [sz EXCEPT ![q] = sz[p]] /\ state' = [state EXCEPT ![q] = "LIVE"]
      /\ Mem!Return(p) /\ UNCHANGED <<free, trapframe, tables, pages>>
  BY DEF Mem!ForkEnd, Mem!At
<1>2. q \in MemSlots /\ state[q] = "USED" /\ p # q /\ mpc[q] = "user"
  BY <1>1 DEF SlotInv, Forking, CallTypes
<1>3. \A r \in MemSlots : Forking(r) /\ np[r] = q => r = p
  BY <1>1 DEF SlotInv, Forking
<1>4. \A v \in pages[q] : v < Pages(sz[p])
  BY <1>1 DEF PageInv
<1> HIDE DEF q
<1>5. FrameTypes' /\ FrameInv'
  BY <1>1, <1>2, NothingTaken DEF FrameTypes
<1>6. /\ CallTypes' /\ mpc'[p] = "user"
      /\ \A r \in MemSlots \ {p} :
           mpc'[r] = mpc[r] /\ np'[r] = np[r] /\ goal'[r] = goal[r]
  BY <1>1, ReturnTypes
<1>7. /\ state'[q] = "LIVE" /\ sz'[q] = sz[p]
      /\ \A r \in MemSlots \ {q} : state'[r] = state[r] /\ sz'[r] = sz[r]
  BY <1>1, <1>2 DEF FrameTypes
<1>8. SlotInv'
  BY <1>1, <1>2, <1>3, <1>6, <1>7 DEF SlotInv, Forking, CallTypes, q
<1>9. PageInv'
  BY <1>1, <1>2, <1>3, <1>4, <1>6, <1>7
     DEF PageInv, Forking, CallTypes, Pages, Mem!NumPages, q
<1> QED
  BY <1>5, <1>6, <1>8, <1>9
-----------------------------------------------------------------------------
(* sbrk(), page faults, exit() and wait()                                    *)

(* A step of process p in user space that changes nothing but its memory.   *)
LEMMA MemoryStep ==
  ASSUME MemInv, NEW p \in MemSlots, mpc[p] = "user", state[p] = "LIVE",
         FrameTypes', FrameInv', UNCHANGED <<state, trapframe, mpc, np, goal>>,
         \A r \in MemSlots \ {p} :
           sz'[r] = sz[r] /\ tables'[r] = tables[r] /\ pages'[r] = pages[r],
         \A v \in pages'[p] : v < Pages(sz'[p])
  PROVE  MemInv'
<1> USE DEF MemInv
<1>1. CallTypes'
  BY DEF CallTypes
<1>2. SlotInv'
  BY DEF SlotInv, Forking, CallTypes
<1>3. PageInv'
  BY DEF PageInv, SlotInv, Forking, CallTypes, Pages, Mem!NumPages
<1> QED
  BY <1>1, <1>2, <1>3

LEMMA AddInRange ==
  ASSUME NEW a \in 0 .. TRAPFRAME, NEW k \in Counts
  PROVE  Mem!Add(a, k) = a + k /\ Mem!Add(a, -k) \in Nat
BY MemConstants DEF Mem!Add

LEMMA SbrkLazyStep ==
  ASSUME MemInv, NEW p \in MemSlots, NEW k \in Counts, Mem!SbrkLazy(p, k)
  PROVE  MemInv'
<1> USE DEF MemInv
<1>1. /\ state[p] = "LIVE" /\ mpc[p] = "user"
      /\ Mem!Add(sz[p], k) >= sz[p] /\ Mem!Add(sz[p], k) <= TRAPFRAME
      /\ sz' = [sz EXCEPT ![p] = Mem!Add(@, k)]
      /\ UNCHANGED <<free, state, trapframe, tables, pages, mpc, np, goal>>
  BY DEF Mem!SbrkLazy, Mem!LazyFits, Mem!At, Mem!callVars
<1>2. sz[p] \in 0 .. TRAPFRAME /\ TRAPFRAME \in Nat
  BY MemConstants DEF FrameTypes
<1>3. Mem!Add(sz[p], k) \in 0 .. TRAPFRAME
  BY <1>1, <1>2, AddInRange, MemConstants
<1>4. sz' \in [MemSlots -> 0 .. TRAPFRAME] /\ sz'[p] = Mem!Add(sz[p], k)
  BY <1>1, <1>3 DEF FrameTypes
<1>5. FrameTypes' /\ FrameInv'
  BY <1>1, <1>4, NothingTaken DEF FrameTypes
<1>6. Pages(sz[p]) \in Nat /\ Pages(sz[p]) <= Pages(sz'[p]) /\ Pages(sz'[p]) \in Nat
  <2> DEFINE a == sz[p]
             b == sz'[p]
  <2>1. a \in Nat /\ b \in Nat /\ a <= b
    BY <1>1, <1>2, <1>3, <1>4
  <2> HIDE DEF a, b
  <2>2. Pages(a) \in Nat /\ Pages(a) <= Pages(b) /\ Pages(b) \in Nat
    BY <2>1, PagesMonotone
  <2> QED
    BY <2>2 DEF a, b
<1>7. \A v \in pages[p] : v < Pages(sz[p]) /\ v \in Nat
  BY <1>1 DEF PageInv, FrameTypes
<1>8. \A v \in pages'[p] : v < Pages(sz'[p])
  <2> HIDE DEF MemInv
  <2> QED
    BY <1>1, <1>6, <1>7
<1>9. \A r \in MemSlots \ {p} : sz'[r] = sz[r]
  BY <1>1 DEF FrameTypes
<1> QED
  BY <1>1, <1>5, <1>8, <1>9, MemoryStep

LEMMA SbrkShrinkStep ==
  ASSUME MemInv, NEW p \in MemSlots, NEW k \in Counts, Mem!SbrkShrink(p, k)
  PROVE  MemInv'
<1> USE DEF MemInv
<1> DEFINE newsz == Mem!Add(sz[p], -k)
<1>1. /\ state[p] = "LIVE" /\ mpc[p] = "user" /\ newsz < sz[p]
      /\ free' = free + Mem!FreedFrom(p, Pages(newsz))
      /\ pages' = [pages EXCEPT ![p] = Mem!KeptBelow(p, Pages(newsz))]
      /\ sz' = [sz EXCEPT ![p] = newsz]
      /\ UNCHANGED <<state, trapframe, tables, mpc, np, goal>>
  BY DEF Mem!SbrkShrink, Mem!At, Mem!callVars, Pages
<1>2. sz[p] \in 0 .. TRAPFRAME /\ TRAPFRAME \in Nat
  BY MemConstants DEF FrameTypes
<1>3. newsz \in 0 .. TRAPFRAME
  BY <1>1, <1>2, AddInRange
<1> HIDE DEF newsz
<1>4. Pages(newsz) \in Nat
  BY <1>2, <1>3, PagesMonotone
<1>5. sz' \in [MemSlots -> 0 .. TRAPFRAME] /\ sz'[p] = newsz
  BY <1>1, <1>3 DEF FrameTypes
<1>6. /\ free' \in Nat /\ FrameInv'
      /\ pages' \in [MemSlots -> {P \in SUBSET Nat : IsFiniteSet(P)}]
  <2>1. PICK m \in Nat : m = Pages(newsz)
    BY <1>4
  <2> QED
    BY <1>1, <2>1, CutStep
<1>7. FrameTypes'
  BY <1>1, <1>5, <1>6 DEF FrameTypes
<1>8. pages'[p] = Mem!KeptBelow(p, Pages(newsz))
  BY <1>1 DEF FrameTypes
<1>9. \A v \in pages'[p] : v < Pages(sz'[p])
  BY <1>5, <1>8 DEF Mem!KeptBelow
<1>10. \A r \in MemSlots \ {p} : sz'[r] = sz[r] /\ pages'[r] = pages[r]
  BY <1>1 DEF FrameTypes
<1> QED
  BY <1>1, <1>6, <1>7, <1>9, <1>10, MemoryStep

LEMMA SbrkGrowStep ==
  ASSUME MemInv, NEW p \in MemSlots, NEW k \in Counts, Mem!SbrkGrow(p, k)
  PROVE  MemInv'
<1> USE DEF MemInv
<1>1. /\ state[p] = "LIVE" /\ mpc[p] = "user" /\ k > 0
      /\ Mem!Add(sz[p], k) <= TRAPFRAME
      /\ goal' = [goal EXCEPT ![p] = Mem!Add(sz[p], k)]
      /\ mpc' = [mpc EXCEPT ![p] = "grow"]
      /\ UNCHANGED <<free, state, trapframe, tables, pages, sz, np>>
  BY DEF Mem!SbrkGrow, Mem!At, Mem!Goto, Mem!slotVars
<1>2. sz[p] \in 0 .. TRAPFRAME /\ TRAPFRAME \in Nat
  BY MemConstants DEF FrameTypes
<1>3. Mem!Add(sz[p], k) = sz[p] + k /\ k \in Nat
  BY <1>2, AddInRange, MemConstants
<1>4. goal' \in [MemSlots -> 0 .. TRAPFRAME] /\ goal'[p] = sz[p] + k
  BY <1>1, <1>2, <1>3 DEF CallTypes
<1>5. FrameTypes' /\ CallTypes' /\ FrameInv'
  BY <1>1, <1>4, NothingTaken DEF FrameTypes, CallTypes
<1>6. sz[p] <= goal'[p] /\ \A v \in pages[p] : v < Pages(goal'[p])
  <2> DEFINE a == sz[p]
             b == goal'[p]
  <2>1. a \in Nat /\ b \in Nat /\ a <= b
    BY <1>2, <1>3, <1>4
  <2>2. \A v \in pages[p] : v < Pages(a) /\ v \in Nat
    BY <1>1 DEF PageInv, FrameTypes
  <2> HIDE DEF a, b, MemInv
  <2>3. Pages(a) \in Nat /\ Pages(a) <= Pages(b) /\ Pages(b) \in Nat
    BY <2>1, PagesMonotone
  <2> QED
    BY <2>1, <2>2, <2>3 DEF a, b
<1>7. /\ mpc'[p] = "grow"
      /\ \A r \in MemSlots \ {p} : mpc'[r] = mpc[r] /\ goal'[r] = goal[r]
  BY <1>1 DEF CallTypes
<1>8. SlotInv'
  BY <1>1, <1>7 DEF SlotInv, Forking, CallTypes
<1>9. PageInv'
  BY <1>1, <1>6, <1>7 DEF PageInv, CallTypes, Pages, Mem!NumPages
<1> QED
  BY <1>5, <1>8, <1>9

LEMMA GrowPageStep ==
  ASSUME MemInv, NEW p \in MemSlots, Mem!GrowPage(p)
  PROVE  MemInv'
<1> USE DEF MemInv
<1> DEFINE v == Mem!Min(Mem!ToAlloc(p))
<1>1. /\ state[p] = "LIVE" /\ mpc[p] = "grow" /\ Mem!ToAlloc(p) # {} /\ Mem!Map(p, v)
      /\ UNCHANGED <<mpc, np, goal>>
  BY DEF Mem!GrowPage, Mem!At, Mem!callVars
<1>2. /\ Mem!ToAlloc(p) \in SUBSET Nat /\ IsFiniteSet(Mem!ToAlloc(p))
      /\ \A x \in Mem!ToAlloc(p) : x \notin pages[p] /\ x < Pages(goal[p])
  <2> DEFINE a == Pages(sz[p])
             b == Pages(goal[p])
  <2>1. sz[p] \in Nat /\ goal[p] \in Nat
    BY MemConstants DEF FrameTypes, CallTypes
  <2>2. a \in Nat /\ b \in Nat
    <3>1. \A k \in Nat : Pages(k) \in Nat
      BY PagesMonotone
    <3> QED
      BY <2>1, <3>1
  <2>3. Mem!ToAlloc(p) = (a .. b - 1) \ pages[p]
    BY DEF Mem!ToAlloc, Pages
  <2> HIDE DEF a, b, MemInv
  <2>4. IsFiniteSet(a .. b - 1)
    BY <2>2, FS_Interval
  <2>5. Mem!ToAlloc(p) \in SUBSET (a .. b - 1)
    BY <2>3
  <2>6. IsFiniteSet(Mem!ToAlloc(p))
    BY <2>4, <2>5, FS_Subset
  <2>7. \A x \in a .. b - 1 : x \in Nat /\ x < b
    BY <2>2
  <2>8. /\ Mem!ToAlloc(p) \in SUBSET Nat
        /\ \A x \in Mem!ToAlloc(p) : x \notin pages[p] /\ x < b
    BY <2>3, <2>5, <2>7
  <2> QED
    BY <2>6, <2>8 DEF b
<1>3. v \in Nat /\ v \notin pages[p] /\ v < Pages(goal[p])
  <2>1. v \in Mem!ToAlloc(p)
    <3> DEFINE S == Mem!ToAlloc(p)
    <3> HIDE DEF S
    <3> QED
      BY <1>1, <1>2, MinIn DEF S
  <2> HIDE DEF v
  <2> QED
    BY <1>2, <2>1
<1> HIDE DEF v
<1>4. FrameTypes' /\ FrameInv' /\ CallTypes'
  BY <1>1, <1>3, MapStep DEF CallTypes
<1>5. /\ UNCHANGED <<state, trapframe, sz>>
      /\ pages'[p] = pages[p] \cup {v}
      /\ \A r \in MemSlots \ {p} : pages'[r] = pages[r] /\ tables'[r] = tables[r]
  BY <1>1 DEF Mem!Map, FrameTypes
<1>6. SlotInv'
  BY <1>1, <1>5 DEF SlotInv, Forking, CallTypes
<1>7. PageInv'
  BY <1>1, <1>3, <1>5 DEF PageInv, SlotInv, Forking, CallTypes, Pages, Mem!NumPages
<1> QED
  BY <1>4, <1>6, <1>7

(* growproc() returns, with or without the memory.                          *)
LEMMA GrowReturns ==
  ASSUME MemInv, NEW p \in MemSlots, state[p] = "LIVE", mpc[p] = "grow", Mem!Return(p),
         FrameTypes', FrameInv', UNCHANGED <<state, trapframe, tables>>,
         \A r \in MemSlots \ {p} : sz'[r] = sz[r] /\ pages'[r] = pages[r],
         \A v \in pages'[p] : v < Pages(sz'[p])
  PROVE  MemInv'
<1> USE DEF MemInv
<1>1. /\ CallTypes' /\ mpc'[p] = "user"
      /\ \A r \in MemSlots \ {p} :
           mpc'[r] = mpc[r] /\ np'[r] = np[r] /\ goal'[r] = goal[r]
  BY ReturnTypes
<1>2. SlotInv'
  BY <1>1 DEF SlotInv, Forking, CallTypes
<1>3. PageInv'
  BY <1>1 DEF PageInv, SlotInv, Forking, CallTypes, Pages, Mem!NumPages
<1> QED
  BY <1>1, <1>2, <1>3

LEMMA GrowFailsStep ==
  ASSUME MemInv, NEW p \in MemSlots, Mem!GrowFails(p)
  PROVE  MemInv'
<1> USE DEF MemInv
<1>1. /\ state[p] = "LIVE" /\ mpc[p] = "grow" /\ Mem!Return(p)
      /\ free' = free + Mem!FreedFrom(p, Pages(sz[p]))
      /\ pages' = [pages EXCEPT ![p] = Mem!KeptBelow(p, Pages(sz[p]))]
      /\ UNCHANGED <<state, trapframe, tables, sz>>
  BY DEF Mem!GrowFails, Mem!At, Pages
<1>2. sz[p] \in Nat
  BY MemConstants DEF FrameTypes
<1>3. PICK m \in Nat : m = Pages(sz[p])
  <2>1. \A k \in Nat : Pages(k) \in Nat
    BY PagesMonotone
  <2> QED
    BY <1>2, <2>1
<1>4. /\ free' \in Nat /\ FrameInv'
      /\ pages' \in [MemSlots -> {P \in SUBSET Nat : IsFiniteSet(P)}]
  BY <1>1, <1>3, CutStep
<1>5. FrameTypes'
  BY <1>1, <1>4 DEF FrameTypes
<1>6. pages'[p] = Mem!KeptBelow(p, Pages(sz[p]))
  BY <1>1 DEF FrameTypes
<1>7. \A v \in pages'[p] : v < Pages(sz'[p])
  BY <1>1, <1>6 DEF Mem!KeptBelow
<1>8. \A r \in MemSlots \ {p} : sz'[r] = sz[r] /\ pages'[r] = pages[r]
  BY <1>1 DEF FrameTypes
<1> QED
  BY <1>1, <1>4, <1>5, <1>7, <1>8, GrowReturns

LEMMA GrowEndStep ==
  ASSUME MemInv, NEW p \in MemSlots, Mem!GrowEnd(p)
  PROVE  MemInv'
<1> USE DEF MemInv
<1>1. /\ state[p] = "LIVE" /\ mpc[p] = "grow" /\ Mem!Return(p)
      /\ sz' = [sz EXCEPT ![p] = goal[p]]
      /\ UNCHANGED <<free, state, trapframe, tables, pages>>
  BY DEF Mem!GrowEnd, Mem!At
<1>2. sz' \in [MemSlots -> 0 .. TRAPFRAME] /\ sz'[p] = goal[p]
  BY <1>1 DEF FrameTypes, CallTypes
<1>3. FrameTypes' /\ FrameInv'
  BY <1>1, <1>2, NothingTaken DEF FrameTypes
<1>4. \A v \in pages'[p] : v < Pages(sz'[p])
  BY <1>1, <1>2 DEF PageInv
<1>5. \A r \in MemSlots \ {p} : sz'[r] = sz[r] /\ pages'[r] = pages[r]
  BY <1>1 DEF FrameTypes
<1> QED
  BY <1>1, <1>3, <1>4, <1>5, GrowReturns

LEMMA TouchStep ==
  ASSUME MemInv, NEW p \in MemSlots, NEW v \in Nat, Mem!Touch(p, v)
  PROVE  MemInv'
<1> USE DEF MemInv
<1>1. /\ state[p] = "LIVE" /\ mpc[p] = "user" /\ v < Pages(sz[p]) /\ v \notin pages[p]
      /\ Mem!Map(p, v) /\ UNCHANGED <<mpc, np, goal>>
  BY DEF Mem!Touch, Mem!At, Mem!callVars, Pages
<1>2. FrameTypes' /\ FrameInv'
  BY <1>1, MapStep
<1>3. /\ UNCHANGED <<state, trapframe, sz>>
      /\ pages'[p] = pages[p] \cup {v}
      /\ \A r \in MemSlots \ {p} : pages'[r] = pages[r] /\ tables'[r] = tables[r]
  BY <1>1 DEF Mem!Map, FrameTypes
<1>4. \A x \in pages'[p] : x < Pages(sz'[p])
  BY <1>1, <1>3 DEF PageInv
<1> QED
  BY <1>1, <1>2, <1>3, <1>4, MemoryStep

(* The pages of a word that fetchaddr() fetches have numbers.                *)
LEMMA FetchStep ==
  ASSUME MemInv, NEW p \in MemSlots, NEW addr \in Mem!Addrs, Mem!Fetch(p, addr)
  PROVE  MemInv'
<1>1. /\ addr \in 0 .. AddrMod - 1 /\ AddrMod \in Nat /\ PGSIZE \in Nat \ {0}
      /\ Word \in Nat \ {0}
  BY MemConstants DEF Mem!Addrs
<1>2. Mem!Add(addr, Word - 1) \in Nat
  BY <1>1 DEF Mem!Add
<1>3. \A k \in Nat : k \div PGSIZE \in Nat
  BY <1>1, DivMonotone
<1>4. PICK v \in {addr \div PGSIZE, Mem!Add(addr, Word - 1) \div PGSIZE} : Mem!Touch(p, v)
  BY DEF Mem!Fetch
<1>5. v \in Nat
  BY <1>1, <1>2, <1>3, <1>4
<1> QED
  BY <1>4, <1>5, TouchStep

LEMMA ExitStep ==
  ASSUME MemInv, NEW p \in MemSlots, Mem!Exit(p)
  PROVE  MemInv'
<1> USE DEF MemInv
<1>1. /\ state[p] = "LIVE" /\ mpc[p] = "user" /\ state' = [state EXCEPT ![p] = "ZOMBIE"]
      /\ UNCHANGED <<free, trapframe, tables, pages, sz, mpc, np, goal>>
  BY DEF Mem!Exit, Mem!At, Mem!callVars
<1>2. FrameTypes' /\ CallTypes' /\ FrameInv'
  BY <1>1, NothingTaken DEF FrameTypes, CallTypes
<1>3. state'[p] = "ZOMBIE" /\ \A r \in MemSlots \ {p} : state'[r] = state[r]
  BY <1>1 DEF FrameTypes
<1>4. SlotInv'
  BY <1>1, <1>3 DEF SlotInv, Forking, CallTypes
<1>5. PageInv'
  BY <1>1, <1>3 DEF PageInv, CallTypes, Pages, Mem!NumPages
<1> QED
  BY <1>2, <1>4, <1>5

LEMMA ReapStep ==
  ASSUME MemInv, NEW q \in MemSlots, Mem!Reap(q)
  PROVE  MemInv'
<1> USE DEF MemInv
<1>1. /\ state[q] = "ZOMBIE" /\ free' = free + Mem!Freed(q) /\ Mem!Clear(q)
      /\ UNCHANGED <<mpc, np, goal>>
  BY DEF Mem!Reap, Mem!freeproc, Mem!callVars
<1>2. mpc[q] = "user"
  BY <1>1 DEF SlotInv, CallTypes
<1>3. Mem!Freed(q) = Load(q)
  BY <1>1, <1>2, FreedAll DEF PageInv
<1>4. FrameTypes' /\ FrameInv' /\ CallTypes'
  BY <1>1, <1>3, ClearStep DEF CallTypes
<1>5. /\ state'[q] = "UNUSED" /\ ~trapframe'[q] /\ tables'[q] = {} /\ pages'[q] = {}
      /\ sz'[q] = 0
      /\ \A r \in MemSlots \ {q} :
           /\ state'[r] = state[r] /\ trapframe'[r] = trapframe[r] /\ sz'[r] = sz[r]
           /\ tables'[r] = tables[r] /\ pages'[r] = pages[r]
  BY <1>1 DEF Mem!Clear, FrameTypes
<1>6. SlotInv'
  BY <1>1, <1>2, <1>5 DEF SlotInv, Forking, CallTypes
<1>7. PageInv'
  BY <1>1, <1>2, <1>5 DEF PageInv, SlotInv, Forking, CallTypes, Pages, Mem!NumPages
<1> QED
  BY <1>4, <1>6, <1>7
-----------------------------------------------------------------------------
(* The invariant of the memory                                              *)

(* init has a trapframe and a page table of two nodes.                      *)
LEMMA MemInit == Mem!Init => MemInv
<1> SUFFICES ASSUME Mem!Init PROVE MemInv
  OBVIOUS
<1>1. /\ free = NFRAMES - 3
      /\ state = [q \in MemSlots |-> IF q = 0 THEN "LIVE" ELSE "UNUSED"]
      /\ trapframe = [q \in MemSlots |-> q = 0]
      /\ tables = [q \in MemSlots |-> IF q = 0 THEN {"root", "kernel"} ELSE {}]
      /\ pages = [q \in MemSlots |-> {}]
      /\ sz = [q \in MemSlots |-> 0]
      /\ mpc = [q \in MemSlots |-> "user"]
      /\ np = [q \in MemSlots |-> 0]
      /\ goal = [q \in MemSlots |-> 0]
  BY DEF Mem!Init, MemSlots
<1>2. FrameTypes /\ CallTypes
  BY <1>1, MemConstants, FS_EmptySet DEF FrameTypes, CallTypes
<1>3. SlotInv
  BY <1>1 DEF SlotInv, Forking
<1>4. PageInv
  BY <1>1 DEF PageInv
<1>5. FrameInv
  <2> DEFINE S == MemSlots
             h == Held
  <2>1. IsFiniteSet(S) /\ 0 \in S /\ NFRAMES \in Nat
    BY MemConstants
  <2>2. ASSUME NEW x \in S \ {0} PROVE h[x] = 0
    <3>1. ~trapframe[x] /\ tables[x] = {} /\ pages[x] = {}
      BY <1>1
    <3>2. Load(x) = 0 /\ h[x] = Load(x)
      BY <1>2, <3>1, HeldIs, LoadNat
    <3> QED
      BY <3>2
  <2>3. h[0] = 3
    <3>0. trapframe[0] = TRUE /\ tables[0] = {"root", "kernel"} /\ pages[0] = {}
      BY <1>1, <2>1
    <3>1. h[0] = Weight(TRUE, {"root", "kernel"}, {})
      BY <2>1, <3>0, HeldIs DEF Load
    <3>2. Cardinality({"root", "kernel"}) = 2 /\ Cardinality({}) = 0
      <4>1. IsFiniteSet({"root"}) /\ Cardinality({"root"}) = 1
        BY FS_Singleton
      <4>2. Cardinality({"root"} \cup {"kernel"}) = Cardinality({"root"}) + 1
        BY <4>1, FS_AddElement
      <4>3. {"root"} \cup {"kernel"} = {"root", "kernel"}
        OBVIOUS
      <4> QED
        BY <4>1, <4>2, <4>3, FS_EmptySet
    <3>3. Weight(TRUE, {"root", "kernel"}, {}) = 3
      BY <3>2 DEF Weight
    <3> QED
      BY <3>1, <3>3, Zenon
  <2> HIDE DEF S, h
  <2>4. SumOf(h, S) = h[0] + SumOf(h, S \ {0})
    <3>1. \A x \in S : h[x] \in Int
      BY <2>2, <2>3
    <3> QED
      BY <2>1, <3>1, SumSplit
  <2>5. SumOf(h, S \ {0}) = Cardinality(S \ {0}) * 0 /\ Cardinality(S \ {0}) \in Nat
    <3> DEFINE T == S \ {0}
    <3>1. IsFiniteSet(T) /\ Cardinality(T) \in Nat
      BY <2>1, FS_Subset, FS_CardinalityType
    <3>2. \A x \in T : h[x] = 0
      BY <2>2
    <3> HIDE DEF T
    <3>3. SumOf(h, T) = Cardinality(T) * 0
      BY <3>1, <3>2, SumConst
    <3> QED
      BY <3>1, <3>3 DEF T
  <2>6. SumOf(h, S) = 3
    BY <2>3, <2>4, <2>5
  <2> QED
    BY <1>1, <2>1, <2>6 DEF FrameInv, S, h
<1> QED
  BY <1>2, <1>3, <1>4, <1>5 DEF MemInv

LEMMA MemStep == MemInv /\ Mem!Next => MemInv'
<1> SUFFICES ASSUME MemInv, Mem!Next PROVE MemInv'
  OBVIOUS
<1>1. ASSUME NEW p \in MemSlots, Mem!Fork(p) PROVE MemInv'
  BY <1>1, AllocSlotStep, AllocTableStep, AllocTableFailsStep, CopyPageStep,
     CopyFailsStep, ForkEndStep DEF Mem!Fork
<1>2. ASSUME NEW p \in MemSlots, Mem!Sbrk(p) PROVE MemInv'
  BY <1>2, SbrkLazyStep, SbrkShrinkStep, SbrkGrowStep, GrowPageStep, GrowFailsStep,
     GrowEndStep DEF Mem!Sbrk
<1>3. ASSUME NEW p \in MemSlots, Mem!Exit(p) \/ Mem!Reap(p) PROVE MemInv'
  BY <1>3, ExitStep, ReapStep
<1>4. ASSUME NEW p \in MemSlots, NEW v \in 0 .. Mem!NumPages(TRAPFRAME) - 1,
             Mem!Touch(p, v)
      PROVE  MemInv'
  BY <1>4, TouchStep
<1>5. ASSUME NEW p \in MemSlots, NEW addr \in Mem!Addrs, Mem!Fetch(p, addr)
      PROVE  MemInv'
  BY <1>5, FetchStep
<1> QED
  BY <1>1, <1>2, <1>3, <1>4, <1>5 DEF Mem!Next, MemSlots

(* The other calls leave the memory alone.                                  *)
THEOREM MemAlways == CallsSpec => [](subject = "memory" => MemInv)
<1> DEFINE I == subject = "memory" => MemInv
<1>1. CallsInit => I
  BY MemInit DEF CallsInit
<1>2. I /\ [CallsNext]_allVars => I'
  <2> SUFFICES ASSUME I, [CallsNext]_allVars, subject' = "memory" PROVE MemInv'
    OBVIOUS
  <2>1. CASE RunMem(Mem!Next)
    BY <2>1, MemStep DEF RunMem
  <2>2. CASE RunPause(Next) \/ RunUser(User!Next) \/ UNCHANGED allVars
    <3>1. subject = "memory" /\ UNCHANGED memVars /\ UNCHANGED state
      BY <2>2 DEF RunPause, RunUser, allVars
    <3>2. UNCHANGED <<free, trapframe, tables, pages, sz, mpc, np, goal>>
      BY <3>1 DEF memVars
    <3>3. /\ FrameTypes /\ CallTypes /\ SlotInv /\ PageInv /\ FrameInv
      BY <3>1 DEF MemInv
    <3>4. FrameInv'
      BY <3>2, <3>3, NothingTaken
    <3> QED
      BY <3>1, <3>2, <3>3, <3>4
         DEF MemInv, FrameTypes, CallTypes, SlotInv, Forking, PageInv, Pages, Mem!NumPages
  <2> QED
    BY <2>1, <2>2 DEF CallsNext
<1> QED
  BY <1>1, <1>2, PTL DEF CallsSpec

-----------------------------------------------------------------------------
(* The sum of UserMem is the sum of the proof.                              *)
LEMMA HeldSum == Mem!MapThenSumSet(Mem!Held, MemSlots) = SumOf(Held, MemSlots)
<1> DEFINE S == MemSlots
           f == Held
           Is(g) == g = [U \in SUBSET S |-> IF U = {} THEN 0
                                   ELSE Mem!Held(First(U)) + g[U \ {First(U)}]]
           h == CHOOSE g : Is(g)
<1>1. Mem!MapThenSumSet(Mem!Held, S) = h[S]
  BY DEF Mem!MapThenSumSet, Mem!MapThenFoldSet, First
<1>2. ASSUME NEW g PROVE Is(g) <=> Solves(g, f, S)
  <2>1. \A U \in SUBSET S : (IF U = {} THEN 0 ELSE Mem!Held(First(U)) + g[U \ {First(U)}])
                               = Body(f, g, U)
    <3>1. ASSUME NEW U \in SUBSET S, U # {} PROVE f[First(U)] = Mem!Held(First(U))
      BY <3>1, FirstIn DEF Held
    <3> HIDE DEF f
    <3> QED
      BY <3>1 DEF Body
  <2>2. [U \in SUBSET S |-> IF U = {} THEN 0 ELSE Mem!Held(First(U)) + g[U \ {First(U)}]]
          = [U \in SUBSET S |-> Body(f, g, U)]
    <3> HIDE DEF f
    <3> QED
      BY <2>1, Zenon
  <2> HIDE DEF f
  <2> QED
    BY <2>2, Zenon DEF Solves
<1>3. IsFiniteSet(S)
  BY MemConstants
<1> HIDE DEF f, S
<1>4. Solves(Solution(f, S), f, S)
  BY <1>3, SolutionExists
<1>5. Is(h)
  <2>1. Is(Solution(f, S))
    BY <1>2, <1>4
  <2> HIDE DEF Is
  <2> QED
    BY <2>1
<1> HIDE DEF Is, h
<1>6. Solves(h, f, S)
  BY <1>2, <1>5
<1>7. h[S] = Solution(f, S)[S]
  BY <1>3, <1>4, <1>6, SolutionsAgree
<1>8. SumOf(f, S) = Solution(f, S)[S]
  BY SumIs
<1> QED
  BY <1>1, <1>7, <1>8 DEF f, S

(* fork(), sbrk(), exit(): no page frame is lost or freed twice, whichever   *)
(* allocation fails.                                                        *)
THEOREM FramesKept == CallsSpec => []PagesAccounted
<1>1. MemInv => Mem!PagesAccounted
  <2> SUFFICES ASSUME MemInv PROVE Mem!PagesAccounted
    OBVIOUS
  <2>1. free >= 0 /\ free + Mem!MapThenSumSet(Mem!Held, MemSlots) = NFRAMES
    BY HeldSum DEF MemInv, FrameTypes, FrameInv
  <2>2. ASSUME NEW q \in MemSlots, state[q] = "UNUSED" PROVE Mem!Held(q) = 0
    BY <2>2, HeldIs, LoadNat DEF MemInv, SlotInv
  <2>3. ASSUME NEW q \in MemSlots
        PROVE  state[q] = "USED" <=>
                 \E p \in MemSlots : (Mem!At(p, "table") \/ Mem!At(p, "copy")) /\ np[p] = q
    BY <2>3 DEF MemInv, SlotInv, CallTypes, Forking, Mem!At
  <2> QED
    BY <2>1, <2>2, <2>3 DEF Mem!PagesAccounted, MemSlots
<1> QED
  BY <1>1, MemAlways, PTL DEF PagesAccounted

(* User memory ends below the trapframe, however sbrk() is called, and      *)
(* fetchaddr() lets through exactly the words that lie in it.               *)
THEOREM FetchSafe == CallsSpec => []FetchSound
<1>1. MemInv => Mem!FetchSound
  <2> SUFFICES ASSUME MemInv, NEW p \in MemSlots
               PROVE  /\ sz[p] <= TRAPFRAME
                      /\ \A addr \in Mem!Addrs :
                           Mem!FetchInRange(p, addr) <=> addr + Word <= sz[p]
    BY DEF Mem!FetchSound, MemSlots
  <2>1. sz[p] \in 0 .. TRAPFRAME
    BY DEF MemInv, FrameTypes
  <2>2. ASSUME NEW addr \in Mem!Addrs
        PROVE  Mem!FetchInRange(p, addr) <=> addr + Word <= sz[p]
    BY <2>1, MemConstants DEF Mem!FetchInRange, Mem!Addrs, Mem!Add
  <2> QED
    BY <2>1, <2>2, MemConstants
<1> QED
  BY <1>1, MemAlways, PTL DEF FetchSound

-----------------------------------------------------------------------------
(* The user programs                                                        *)

Seats == User!Slots
Others == Seats \ {0, 1}

Words == {"getpid", "parent_pid = getpid", "uptime", "write", "dup", "sleep",
          "getsyscount", "getthreadinfo", "fork", "wait", "exec", "exit"}
Names == {"sh", "fork_chain", "syscall_spy", "getsyscallcount", "threadinfo_test"}

(* A program forks once at most, at its f-th call from here, and waits for  *)
(* the child at its w-th; what is not ahead of it has a place outside.      *)
Plan(s, f, w) ==
  /\ f < w
  /\ f \in 1 .. Len(s) => w \in 1 .. Len(s)
  /\ \A k \in 1 .. Len(s) : /\ s[k] = "fork" <=> k = f
                            /\ s[k] = "wait" <=> k = w
                            /\ s[k] = "exit" => k = Len(s)

Has(s, word) == \E k \in 1 .. Len(s) : s[k] = word
Starts(s, word) == s # <<>> /\ Head(s) = word
Pending(s) == Has(s, "wait") /\ ~ Has(s, "fork")

(* What the program of this name may still have to call.                    *)
Suits(s, name) ==
  /\ Has(s, "exec") => name = "sh"
  /\ name = "getsyscallcount" => ~ Has(s, "fork")
  /\ name = "fork_chain" =>
       \A k \in 1 .. Len(s) :
         /\ s[k] = "getpid" => k = 1
         /\ s[k] = "fork" /\ k > 1 => s[k - 1] = "parent_pid = getpid"

Runs(s, name) ==
  /\ s \in Seq(Words) /\ Suits(s, name)
  /\ \E f, w \in Int : Plan(s, f, w)

OfSeats(f) == f = [p \in Seats |-> f[p]]

UserTypes ==
  /\ state \in [Seats -> {"UNUSED", "LIVE", "ZOMBIE"}] /\ parent \in [Seats -> Seats]
  /\ pid \in [Seats -> Int] /\ nextpid \in Int
  /\ syscalls \in [Seats -> Int] /\ made \in [Seats -> Int]
  /\ tgid \in [Seats -> Int] /\ is_thread \in [Seats -> Int]
  /\ child_pid \in [Seats -> Int] /\ parent_pid \in [Seats -> Int]
  /\ OfSeats(rest) /\ OfSeats(prog) /\ OfSeats(a0)

ShellInv ==
  /\ state[0] = "LIVE" /\ rest[0] = <<>> /\ a0[0][1] = "none" /\ prog[0][1] = "sh"
  /\ state[1] = "LIVE" /\ pid[1] = 2 /\ parent[1] = 0 /\ prog[1][1] = "sh"
  /\ rest[1] \in {<<"fork", "wait">>, <<"wait">>}
  /\ a0[1][1] \in {"none", "fork", "wait"}

PidInv ==
  /\ nextpid > 2
  /\ \A p \in Seats : state[p] # "UNUSED" => 0 < pid[p] /\ pid[p] < nextpid
  /\ \A p, q \in Seats :
       state[p] # "UNUSED" /\ state[q] # "UNUSED" /\ pid[p] = pid[q] => p = q

(* Every process of a program has a parent that is going to wait for it.    *)
FamilyInv ==
  \A q \in Others : state[q] # "UNUSED" =>
    /\ parent[q] # 0 /\ state[parent[q]] = "LIVE" /\ Pending(rest[parent[q]])
    /\ pid[q] = child_pid[parent[q]] /\ pid[parent[q]] < pid[q]

HasChild(p) == \E q \in Others : state[q] # "UNUSED" /\ parent[q] = p

ProgInv(p) ==
  /\ prog[p][1] \in Names /\ Runs(rest[p], prog[p][1]) /\ DOMAIN prog[p] = 1 .. 3
  /\ p \in Others /\ prog[p][1] = "sh" => rest[p] = <<"exec">> /\ parent[p] = 1
  /\ Pending(rest[p]) => child_pid[p] = -1 \/ HasChild(p)

ReportInv(p) ==
  /\ p # 1 => syscalls[p] = made[p]
  /\ tgid[p] = pid[p] /\ is_thread[p] = 0
  /\ a0[p][1] = "getsyscount" => a0[p][2] = made[p]
  /\ a0[p][1] = "getthreadinfo" => a0[p][2] = <<pid[p], pid[p], 0>>
  /\ a0[p][1] = "wait" => a0[p][2] = child_pid[p]
  /\ prog[p][1] = "fork_chain" =>
       /\ a0[p][1] = "getpid" \/ Has(rest[p], "getpid") =>
            parent_pid[p] = pid[parent[p]]
       /\ Starts(rest[p], "fork") => parent_pid[p] = pid[p]

UserInv ==
  /\ UserTypes /\ ShellInv /\ PidInv /\ FamilyInv
  /\ \A p \in Seats : state[p] = "LIVE" => ProgInv(p) /\ ReportInv(p)

-----------------------------------------------------------------------------
(* The texts of the programs                                                *)

(* The list s of l calls is h and then t.                                   *)
Split(s, l, h, t) ==
  /\ l \in Nat \ {0} /\ Len(s) = l
  /\ t \in Seq(Words) /\ Len(t) = l - 1
  /\ s[1] = h
  /\ \A k \in 1 .. l : k = 1 \/ (k - 1 \in 1 .. l - 1 /\ s[k] = t[k - 1])
  /\ \A k \in 1 .. l - 1 : k + 1 \in 1 .. l /\ t[k] = s[k + 1]

LEMMA SplitTail ==
  ASSUME NEW s, s \in Seq(Words), s # <<>>
  PROVE  Split(s, Len(s), Head(s), Tail(s))
<1>1. /\ Len(s) \in Nat /\ Len(s) > 0 /\ Head(s) = s[1]
      /\ Tail(s) \in Seq(Words) /\ Len(Tail(s)) = Len(s) - 1
      /\ \A k \in 1 .. Len(s) - 1 : Tail(s)[k] = s[k + 1]
  OBVIOUS
<1>2. \A k \in 1 .. Len(s) : k = 1 \/ (k - 1 \in 1 .. Len(s) - 1 /\ s[k] = Tail(s)[k - 1])
  BY <1>1
<1>3. \A k \in 1 .. Len(s) - 1 : k + 1 \in 1 .. Len(s)
  BY <1>1
<1>4. Len(s) \in Nat \ {0}
  BY <1>1
<1> QED
  BY <1>1, <1>2, <1>3, <1>4 DEF Split

LEMMA RunsTail ==
  ASSUME NEW s, NEW name, Runs(s, name), s # <<>>
  PROVE  /\ Runs(Tail(s), name)
         /\ Head(s) \notin {"fork", "wait"} => (Pending(Tail(s)) <=> Pending(s))
         /\ Head(s) = "fork" => Pending(Tail(s)) /\ ~ Pending(s)
         /\ Head(s) = "wait" => Pending(s) /\ ~ Pending(Tail(s))
         /\ Head(s) = "exit" => ~ Pending(s)
         /\ Head(s) = "exec" => name = "sh"
         /\ name = "getsyscallcount" => Head(s) # "fork"
         /\ name = "fork_chain" =>
              /\ ~ Has(Tail(s), "getpid")
              /\ Starts(Tail(s), "fork") => Head(s) = "parent_pid = getpid"
<1>0. s \in Seq(Words) /\ Suits(s, name)
  BY DEF Runs
<1>1. PICK f \in Int, w \in Int : Plan(s, f, w)
  BY DEF Runs
<1>2. PICK l, h, t : l = Len(s) /\ h = Head(s) /\ t = Tail(s) /\ Split(s, l, h, t)
  BY <1>0, SplitTail
<1> USE <1>2 DEF Split
<1>3. /\ f < w /\ (f \in 1 .. l => w \in 1 .. l)
      /\ \A k \in 1 .. l : /\ s[k] = "fork" <=> k = f
                           /\ s[k] = "wait" <=> k = w
                           /\ s[k] = "exit" => k = l
  BY <1>1, <1>2 DEF Plan
<1>4. \A k \in 1 .. l - 1 : /\ t[k] = "fork" <=> k = f - 1
                            /\ t[k] = "wait" <=> k = w - 1
                            /\ t[k] = "exit" => k = l - 1
  BY <1>2, <1>3
<1>5. f - 1 \in Int /\ w - 1 \in Int /\ f - 1 < w - 1
      /\ (f - 1 \in 1 .. l - 1 => w - 1 \in 1 .. l - 1)
  BY <1>3
<1>6. Plan(t, f - 1, w - 1)
  BY <1>2, <1>4, <1>5 DEF Plan
<1>7. ASSUME NEW word PROVE Has(s, word) <=> h = word \/ Has(t, word)
  BY <1>2 DEF Has
<1>8. /\ Has(s, "fork") <=> f \in 1 .. l
      /\ Has(s, "wait") <=> w \in 1 .. l
      /\ Has(t, "fork") <=> f - 1 \in 1 .. l - 1
      /\ Has(t, "wait") <=> w - 1 \in 1 .. l - 1
  <2>1. ASSUME NEW word, NEW j \in Int, \A k \in 1 .. l : s[k] = word <=> k = j
        PROVE  Has(s, word) <=> j \in 1 .. l
    BY <1>2, <2>1 DEF Has
  <2>2. ASSUME NEW word, NEW j \in Int, \A k \in 1 .. l - 1 : t[k] = word <=> k = j
        PROVE  Has(t, word) <=> j \in 1 .. l - 1
    BY <1>2, <2>2 DEF Has
  <2>3. Has(s, "fork") <=> f \in 1 .. l
    BY <1>3, <2>1
  <2>4. Has(s, "wait") <=> w \in 1 .. l
    BY <1>3, <2>1
  <2>5. Has(t, "fork") <=> f - 1 \in 1 .. l - 1
    BY <1>4, <1>5, <2>2
  <2>6. Has(t, "wait") <=> w - 1 \in 1 .. l - 1
    BY <1>4, <1>5, <2>2
  <2> QED
    BY <2>3, <2>4, <2>5, <2>6
<1>9. /\ h = "fork" <=> f = 1
      /\ h = "wait" <=> w = 1
      /\ h = "exit" => l = 1
  BY <1>2, <1>3
<1>10. h \notin {"fork", "wait"} => (Pending(t) <=> Pending(s))
  BY <1>7 DEF Pending
<1>11. h = "fork" => Pending(t) /\ ~ Pending(s)
  BY <1>3, <1>8, <1>9 DEF Pending
<1>12. h = "wait" => Pending(s) /\ ~ Pending(t)
  BY <1>3, <1>8, <1>9 DEF Pending
<1>13. h = "exit" => ~ Pending(s)
  BY <1>3, <1>8, <1>9 DEF Pending
<1>14. Suits(t, name)
  <2>1. /\ Has(t, "exec") => name = "sh"
        /\ name = "getsyscallcount" => ~ Has(t, "fork")
    BY <1>0, <1>7 DEF Suits
  <2>2. ASSUME name = "fork_chain", NEW k \in 1 .. l - 1
        PROVE  /\ t[k] = "getpid" => k = 1
               /\ t[k] = "fork" /\ k > 1 => t[k - 1] = "parent_pid = getpid"
    <3>1. \A j \in 1 .. l :
            /\ s[j] = "getpid" => j = 1
            /\ s[j] = "fork" /\ j > 1 => s[j - 1] = "parent_pid = getpid"
      BY <1>0, <1>2, <2>2 DEF Suits
    <3>2. k + 1 \in 1 .. l /\ t[k] = s[k + 1] /\ k + 1 # 1 /\ k + 1 > 1 /\ (k + 1) - 1 = k
      BY <1>2
    <3>3. t[k] = "getpid" => k = 1
      BY <3>1, <3>2
    <3>4. ASSUME t[k] = "fork", k > 1 PROVE t[k - 1] = "parent_pid = getpid"
      <4>1. s[k] = "parent_pid = getpid"
        BY <3>1, <3>2, <3>4
      <4>2. k - 1 \in 1 .. l - 1 /\ (k - 1) + 1 = k
        BY <3>4
      <4>3. t[k - 1] = s[(k - 1) + 1]
        BY <1>2, <4>2
      <4> QED
        BY <4>1, <4>2, <4>3
    <3> QED
      BY <3>3, <3>4
  <2> QED
    BY <1>2, <2>1, <2>2 DEF Suits
<1>15. ASSUME name = "fork_chain"
       PROVE  ~ Has(t, "getpid") /\ (Starts(t, "fork") => h = "parent_pid = getpid")
  <2>0. \A j \in 1 .. l :
          /\ s[j] = "getpid" => j = 1
          /\ s[j] = "fork" /\ j > 1 => s[j - 1] = "parent_pid = getpid"
    BY <1>0, <1>2, <1>15 DEF Suits
  <2>1. ~ Has(t, "getpid")
    <3> SUFFICES ASSUME NEW k \in 1 .. l - 1, t[k] = "getpid" PROVE FALSE
      BY <1>2 DEF Has
    <3>1. k + 1 \in 1 .. l /\ s[k + 1] = "getpid" /\ k + 1 # 1
      BY <1>2
    <3> QED
      BY <2>0, <3>1
  <2>2. ASSUME Starts(t, "fork") PROVE h = "parent_pid = getpid"
    <3>1. t # <<>> /\ Head(t) = t[1] /\ Len(t) > 0 /\ t[1] = "fork"
      BY <1>2, <2>2 DEF Starts
    <3>2. 1 \in 1 .. l - 1
      BY <1>2, <3>1
    <3>3. 2 \in 1 .. l /\ s[2] = "fork" /\ 2 > 1 /\ 2 - 1 = 1
      BY <1>2, <3>1, <3>2
    <3>4. s[2 - 1] = "parent_pid = getpid"
      BY <2>0, <3>3
    <3> QED
      BY <1>2, <3>3, <3>4
  <2> QED
    BY <2>1, <2>2
<1>16. Runs(t, name)
  BY <1>2, <1>5, <1>6, <1>14 DEF Runs
<1>17. /\ h = "exec" => name = "sh"
       /\ name = "getsyscallcount" => h # "fork"
  BY <1>0, <1>7 DEF Suits
<1> QED
  BY <1>2, <1>10, <1>11, <1>12, <1>13, <1>15, <1>16, <1>17

(* A list of calls without fork() and wait().                               *)
LEMMA PlainRuns ==
  ASSUME NEW s \in Seq(Words), NEW name, name # "fork_chain",
         \A k \in 1 .. Len(s) : /\ s[k] \notin {"fork", "wait", "exec"}
                                /\ s[k] = "exit" => k = Len(s)
  PROVE  Runs(s, name) /\ ~ Pending(s)
<1>1. Plan(s, -1, 0)
  BY DEF Plan
<1>2. ~ Has(s, "fork") /\ ~ Has(s, "wait") /\ ~ Has(s, "exec")
  BY DEF Has
<1>3. Suits(s, name)
  BY <1>2 DEF Suits
<1> QED
  BY <1>1, <1>2, <1>3 DEF Runs, Pending

LEMMA ForkRuns ==
  ASSUME NEW s \in Seq(Words), NEW name,
         name \notin {"fork_chain", "getsyscallcount"}, NEW f \in Int, NEW w \in Int,
         Plan(s, f, w), f \in 1 .. Len(s), \A k \in 1 .. Len(s) : s[k] # "exec"
  PROVE  Runs(s, name) /\ ~ Pending(s)
<1>1. Has(s, "fork")
  BY DEF Has, Plan
<1>2. Suits(s, name)
  BY DEF Suits, Has
<1> QED
  BY <1>1, <1>2 DEF Runs, Pending

(* The calls that a program of this name may begin with.                    *)
Opens(s, name) ==
  /\ Runs(s, name) /\ ~ Pending(s)
  /\ name = "fork_chain" => ~ Starts(s, "fork")

Short(s) == s \in Seq(Words) /\ Len(s) = 2 /\ s[1] = "write" /\ s[2] = "exit"

Last(s) ==
  /\ s \in Seq(Words) /\ Len(s) = 5
  /\ s[1] = "getpid" /\ s[2] = "write" /\ s[3] = "write" /\ s[4] = "write" /\ s[5] = "exit"

Link(s) ==
  /\ s \in Seq(Words) /\ Len(s) = 6
  /\ s[1] = "getpid" /\ s[2] = "write" /\ s[3] = "parent_pid = getpid"
  /\ s[4] = "fork" /\ s[5] = "wait" /\ s[6] = "exit"

LEMMA NoStart ==
  ASSUME NEW s, s \in Seq(Words), NEW word, s[1] # word
  PROVE  ~ Starts(s, word)
BY DEF Starts

LEMMA ShortOpens == ASSUME NEW s, NEW name, Short(s) PROVE Opens(s, name)
<1>1. s \in Seq(Words) /\ Len(s) = 2
  BY DEF Short
<1>2. \A k \in 1 .. Len(s) : k = 1 \/ k = 2
  BY <1>1
<1>3. \A k \in 1 .. Len(s) : /\ s[k] \notin {"fork", "wait", "exec", "getpid"}
                             /\ s[k] = "exit" => k = Len(s)
  BY <1>1, <1>2 DEF Short
<1>4. Plan(s, -1, 0)
  BY <1>1, <1>3 DEF Plan
<1>5. Suits(s, name) /\ ~ Has(s, "wait")
  BY <1>3 DEF Suits, Has
<1>6. ~ Starts(s, "fork")
  BY <1>1, NoStart DEF Short
<1> QED
  BY <1>1, <1>4, <1>5, <1>6 DEF Opens, Runs, Pending

LEMMA LastOpens == ASSUME NEW s, Last(s) PROVE Opens(s, "fork_chain")
<1>1. s \in Seq(Words) /\ Len(s) = 5
  BY DEF Last
<1>2. \A k \in 1 .. Len(s) : k = 1 \/ k = 2 \/ k = 3 \/ k = 4 \/ k = 5
  BY <1>1
<1>3. \A k \in 1 .. Len(s) : /\ s[k] \notin {"fork", "wait", "exec"}
                             /\ s[k] = "exit" => k = Len(s)
                             /\ s[k] = "getpid" => k = 1
  BY <1>1, <1>2 DEF Last
<1>4. Plan(s, -1, 0)
  BY <1>1, <1>3 DEF Plan
<1>5. Suits(s, "fork_chain") /\ ~ Has(s, "wait")
  BY <1>3 DEF Suits, Has
<1>6. ~ Starts(s, "fork")
  BY <1>1, NoStart DEF Last
<1> QED
  BY <1>1, <1>4, <1>5, <1>6 DEF Opens, Runs, Pending

LEMMA LinkOpens == ASSUME NEW s, Link(s) PROVE Opens(s, "fork_chain")
<1>1. s \in Seq(Words) /\ Len(s) = 6
  BY DEF Link
<1>2. \A k \in 1 .. Len(s) : k = 1 \/ k = 2 \/ k = 3 \/ k = 4 \/ k = 5 \/ k = 6
  BY <1>1
<1>3. \A k \in 1 .. Len(s) : /\ s[k] = "fork" <=> k = 4
                             /\ s[k] = "wait" <=> k = 5
                             /\ s[k] = "exit" => k = Len(s)
                             /\ s[k] = "getpid" => k = 1
                             /\ s[k] # "exec"
  BY <1>1, <1>2 DEF Link
<1>4. \A k \in 1 .. Len(s) : s[k] = "fork" /\ k > 1 => s[k - 1] = "parent_pid = getpid"
  <2> SUFFICES ASSUME NEW k \in 1 .. Len(s), s[k] = "fork" PROVE s[k - 1] = s[3]
    BY DEF Link
  <2>1. k = 4 /\ k - 1 = 3
    BY <1>3
  <2> QED
    BY <2>1
<1>5. Plan(s, 4, 5)
  BY <1>1, <1>3 DEF Plan
<1>6. Suits(s, "fork_chain")
  BY <1>3, <1>4 DEF Suits, Has
<1>7. Has(s, "fork")
  <2>1. 4 \in 1 .. Len(s)
    BY <1>1
  <2> QED
    BY <1>3, <2>1 DEF Has
<1>8. ~ Starts(s, "fork")
  BY <1>1, NoStart DEF Link
<1> QED
  BY <1>1, <1>5, <1>6, <1>7, <1>8 DEF Opens, Runs, Pending

LEMMA Lists ==
  /\ <<"write", "exit">> \in Seq(Words) /\ <<"getpid", "write">> \in Seq(Words)
  /\ <<"write", "write", "exit">> \in Seq(Words)
  /\ <<"parent_pid = getpid", "fork", "wait", "exit">> \in Seq(Words)
<1>1. <<"write", "exit">> \in Seq(Words) /\ <<"getpid", "write">> \in Seq(Words)
  BY DEF Words
<1>2. <<"write", "write", "exit">> \in Seq(Words)
  BY DEF Words
<1>3. <<"parent_pid = getpid", "fork", "wait", "exit">> \in Seq(Words)
  BY DEF Words
<1> QED
  BY <1>1, <1>2, <1>3

LEMMA ChainOpens == ASSUME NEW n1, NEW d PROVE Opens(User!Chain(n1, d), "fork_chain")
<1> DEFINE s == User!Chain(n1, d)
           u == <<"getpid", "write">>
<1>0. u \in Seq(Words) /\ Len(u) = 2 /\ u[1] = "getpid" /\ u[2] = "write"
  BY Lists
<1>1. CASE d >= n1
  <2>1. s = <<"write", "exit">>
    BY <1>1, Zenon DEF User!Chain
  <2>2. Short(<<"write", "exit">>)
    BY Lists DEF Short
  <2> QED
    BY <2>1, <2>2, ShortOpens
<1>2. CASE ~ (d >= n1) /\ d = n1 - 1
  <2> DEFINE r == <<"write", "write", "exit">>
  <2>1. s = u \o r
    BY <1>2, Zenon DEF User!Chain
  <2>2. r \in Seq(Words) /\ Len(r) = 3 /\ r[1] = "write" /\ r[2] = "write" /\ r[3] = "exit"
    BY Lists
  <2> HIDE DEF s, u, r
  <2>3. /\ s \in Seq(Words) /\ Len(s) = Len(u) + Len(r)
        /\ \A k \in 1 .. Len(u) + Len(r) : s[k] = IF k <= Len(u) THEN u[k] ELSE r[k - Len(u)]
    BY <1>0, <2>1, <2>2, ConcatProperties, Zenon
  <2>4. /\ s \in Seq(Words) /\ Len(s) = 5 /\ s[1] = u[1] /\ s[2] = u[2]
        /\ s[3] = r[1] /\ s[4] = r[2] /\ s[5] = r[3]
    <3>1. Len(u) = 2 /\ Len(r) = 3
      BY <1>0, <2>2
    <3>2. \A k \in 1 .. 5 : s[k] = IF k <= 2 THEN u[k] ELSE r[k - 2]
      BY <2>3, <3>1
    <3>3. s \in Seq(Words) /\ Len(s) = 5
      BY <2>3, <3>1
    <3> QED
      BY <3>2, <3>3
  <2>5. Last(s)
    BY <1>0, <2>2, <2>4 DEF Last
  <2> QED
    BY <2>5, LastOpens DEF s
<1>3. CASE ~ (d >= n1) /\ d # n1 - 1
  <2> DEFINE r == <<"parent_pid = getpid", "fork", "wait", "exit">>
  <2>1. s = u \o r
    BY <1>3, Zenon DEF User!Chain
  <2>2. /\ r \in Seq(Words) /\ Len(r) = 4 /\ r[1] = "parent_pid = getpid"
        /\ r[2] = "fork" /\ r[3] = "wait" /\ r[4] = "exit"
    BY Lists
  <2> HIDE DEF s, u, r
  <2>3. /\ s \in Seq(Words) /\ Len(s) = Len(u) + Len(r)
        /\ \A k \in 1 .. Len(u) + Len(r) : s[k] = IF k <= Len(u) THEN u[k] ELSE r[k - Len(u)]
    BY <1>0, <2>1, <2>2, ConcatProperties, Zenon
  <2>4. /\ s \in Seq(Words) /\ Len(s) = 6 /\ s[1] = u[1] /\ s[2] = u[2]
        /\ s[3] = r[1] /\ s[4] = r[2] /\ s[5] = r[3] /\ s[6] = r[4]
    <3>1. Len(u) = 2 /\ Len(r) = 4
      BY <1>0, <2>2
    <3>2. \A k \in 1 .. 6 : s[k] = IF k <= 2 THEN u[k] ELSE r[k - 2]
      BY <2>3, <3>1
    <3>3. s \in Seq(Words) /\ Len(s) = 6
      BY <2>3, <3>1
    <3> QED
      BY <3>2, <3>3
  <2>5. Link(s)
    BY <1>0, <2>2, <2>4 DEF Link
  <2> QED
    BY <2>5, LinkOpens DEF s
<1> QED
  BY <1>1, <1>2, <1>3, Zenon

LEMMA TextOpens ==
  ASSUME NEW x, x[1] \in Names \ {"sh"}
  PROVE  Opens(User!Text(x), x[1])
<1>1. CASE x[1] = "fork_chain"
  BY <1>1, ChainOpens DEF User!Text
<1>2. CASE x[1] = "syscall_spy"
  <2> DEFINE s == <<"getpid", "write", "getpid", "write", "uptime", "write", "fork", "write",
                    "wait", "write", "write", "sleep", "write", "write", "write", "dup",
                    "write", "exit">>
  <2>1. User!Text(x) = s
    BY <1>2 DEF User!Text
  <2>2. s \in Seq(Words) /\ Len(s) = 18
    BY DEF Words
  <2>3. \A k \in 1 .. 18 : /\ s[k] = "fork" <=> k = 7
                           /\ s[k] = "wait" <=> k = 9
                           /\ s[k] = "exit" => k = 18
                           /\ s[k] # "exec"
    OBVIOUS
  <2> HIDE DEF s
  <2>5. Plan(s, 7, 9)
    BY <2>2, <2>3 DEF Plan
  <2>6. 7 \in 1 .. Len(s) /\ \A k \in 1 .. Len(s) : s[k] # "exec"
    BY <2>2, <2>3
  <2>4. Runs(s, "syscall_spy") /\ ~ Pending(s)
    <3>1. s \in Seq(Words)
      BY <2>2
    <3>2. "syscall_spy" \notin {"fork_chain", "getsyscallcount"} /\ 7 \in Int /\ 9 \in Int
      OBVIOUS
    <3> QED
      BY <2>5, <2>6, <3>1, <3>2, ForkRuns, Zenon
  <2> QED
    BY <1>2, <2>1, <2>4 DEF Opens
<1>3. CASE x[1] = "getsyscallcount"
  <2> DEFINE s == <<"write", "getpid", "uptime", "getsyscount", "write", "exit">>
  <2>1. User!Text(x) = s
    BY <1>3 DEF User!Text
  <2>2. s \in Seq(Words) /\ Len(s) = 6
    BY DEF Words
  <2>3. \A k \in 1 .. 6 : /\ s[k] \notin {"fork", "wait", "exec"}
                          /\ s[k] = "exit" => k = 6
    OBVIOUS
  <2> HIDE DEF s
  <2>4. Runs(s, "getsyscallcount") /\ ~ Pending(s)
    BY <2>2, <2>3, PlainRuns
  <2> QED
    BY <1>3, <2>1, <2>4 DEF Opens
<1>4. CASE x[1] = "threadinfo_test"
  <2> DEFINE s == <<"getthreadinfo", "write", "write", "fork", "getthreadinfo", "write",
                    "write", "wait", "exit">>
  <2>1. User!Text(x) = s
    BY <1>4 DEF User!Text
  <2>2. s \in Seq(Words) /\ Len(s) = 9
    BY DEF Words
  <2>3. \A k \in 1 .. 9 : /\ s[k] = "fork" <=> k = 4
                          /\ s[k] = "wait" <=> k = 8
                          /\ s[k] = "exit" => k = 9
                          /\ s[k] # "exec"
    OBVIOUS
  <2> HIDE DEF s
  <2>5. Plan(s, 4, 8)
    BY <2>2, <2>3 DEF Plan
  <2>6. 4 \in 1 .. Len(s) /\ \A k \in 1 .. Len(s) : s[k] # "exec"
    BY <2>2, <2>3
  <2>4. Runs(s, "threadinfo_test") /\ ~ Pending(s)
    <3>1. s \in Seq(Words)
      BY <2>2
    <3>2. "threadinfo_test" \notin {"fork_chain", "getsyscallcount"} /\ 4 \in Int /\ 8 \in Int
      OBVIOUS
    <3> QED
      BY <2>5, <2>6, <3>1, <3>2, ForkRuns, Zenon
  <2> QED
    BY <1>4, <2>1, <2>4 DEF Opens
<1> QED
  BY <1>1, <1>2, <1>3, <1>4 DEF Names

(* The child's side of a program that forks.                                *)
LEMMA ChildOpens ==
  ASSUME NEW x, x[1] \in Names \ {"sh", "getsyscallcount"}, DOMAIN x = 1 .. 3
  PROVE  /\ Opens(User!ChildText(x), x[1])
         /\ User!ChildProg(x)[1] = x[1] /\ DOMAIN User!ChildProg(x) = 1 .. 3
<1>1. User!ChildProg(x)[1] = x[1] /\ DOMAIN User!ChildProg(x) = 1 .. 3
  BY DEF User!ChildProg
<1>2. CASE x[1] = "fork_chain"
  <2>1. User!ChildText(x) = User!Text(User!ChildProg(x))
    BY <1>2 DEF User!ChildText
  <2>2. User!Text(User!ChildProg(x)) = User!Chain(User!ChildProg(x)[2], User!ChildProg(x)[3])
    BY <1>1, <1>2 DEF User!Text
  <2> QED
    BY <1>1, <1>2, <2>1, <2>2, ChainOpens
<1>3. CASE x[1] = "syscall_spy"
  <2> DEFINE s == <<"getpid", "write", "write", "exit">>
  <2>1. User!ChildText(x) = s
    BY <1>3 DEF User!ChildText
  <2>2. s \in Seq(Words) /\ Len(s) = 4
    BY DEF Words
  <2>3. \A k \in 1 .. 4 : /\ s[k] \notin {"fork", "wait", "exec"}
                          /\ s[k] = "exit" => k = 4
    OBVIOUS
  <2> HIDE DEF s
  <2>4. Runs(s, "syscall_spy") /\ ~ Pending(s)
    BY <2>2, <2>3, PlainRuns
  <2> QED
    BY <1>1, <1>3, <2>1, <2>4 DEF Opens
<1>4. CASE x[1] = "threadinfo_test"
  <2> DEFINE s == <<"getthreadinfo", "write", "write", "exit">>
  <2>1. User!ChildText(x) = s
    BY <1>4 DEF User!ChildText
  <2>2. s \in Seq(Words) /\ Len(s) = 4
    BY DEF Words
  <2>3. \A k \in 1 .. 4 : /\ s[k] \notin {"fork", "wait", "exec"}
                          /\ s[k] = "exit" => k = 4
    OBVIOUS
  <2> HIDE DEF s
  <2>4. Runs(s, "threadinfo_test") /\ ~ Pending(s)
    BY <2>2, <2>3, PlainRuns
  <2> QED
    BY <1>1, <1>4, <2>1, <2>4 DEF Opens
<1> QED
  BY <1>2, <1>3, <1>4 DEF Names

(* The calls of the shell, and of its child.                                *)
LEMMA ShellRuns ==
  /\ Runs(<<"fork", "wait">>, "sh") /\ ~ Pending(<<"fork", "wait">>)
  /\ Runs(<<"wait">>, "sh") /\ Pending(<<"wait">>)
  /\ Tail(<<"fork", "wait">>) = <<"wait">>
  /\ Runs(<<"exec">>, "sh") /\ ~ Pending(<<"exec">>)
  /\ \A name : Runs(<<>>, name) /\ ~ Pending(<<>>)
  /\ \A name \in Names : Opens(<<"write", "exit">>, name)
<1>1. /\ Runs(<<"fork", "wait">>, "sh") /\ ~ Pending(<<"fork", "wait">>)
      /\ Tail(<<"fork", "wait">>) = <<"wait">>
  <2> DEFINE s == <<"fork", "wait">>
  <2>1. s \in Seq(Words) /\ Len(s) = 2
    BY DEF Words
  <2>2. \A k \in 1 .. 2 : /\ s[k] = "fork" <=> k = 1
                          /\ s[k] = "wait" <=> k = 2
                          /\ s[k] = "exit" => k = 2
                          /\ s[k] # "exec"
    OBVIOUS
  <2>3. Tail(s) = <<"wait">>
    OBVIOUS
  <2> HIDE DEF s
  <2>5. Plan(s, 1, 2)
    BY <2>1, <2>2 DEF Plan
  <2>6. 1 \in 1 .. Len(s) /\ \A k \in 1 .. Len(s) : s[k] # "exec"
    BY <2>1, <2>2
  <2>4. Runs(s, "sh") /\ ~ Pending(s)
    BY <2>1, <2>5, <2>6, ForkRuns
  <2> QED
    BY <2>3, <2>4 DEF s
<1>2. Runs(<<"wait">>, "sh") /\ Pending(<<"wait">>)
  <2> DEFINE s == <<"wait">>
  <2>1. s \in Seq(Words) /\ Len(s) = 1 /\ s[1] = "wait"
    BY DEF Words
  <2> HIDE DEF s
  <2>2. Plan(s, 0, 1)
    BY <2>1 DEF Plan
  <2> QED
    BY <2>1, <2>2 DEF Runs, Suits, Pending, Has, s
<1>3. Runs(<<"exec">>, "sh") /\ ~ Pending(<<"exec">>)
  <2> DEFINE s == <<"exec">>
  <2>1. s \in Seq(Words) /\ Len(s) = 1 /\ s[1] = "exec"
    BY DEF Words
  <2> HIDE DEF s
  <2>2. Plan(s, -1, 0)
    BY <2>1 DEF Plan
  <2> QED
    BY <2>1, <2>2 DEF Runs, Suits, Pending, Has, s
<1>4. ASSUME NEW name PROVE Runs(<<>>, name) /\ ~ Pending(<<>>)
  <2> DEFINE s == <<>>
  <2>1. s \in Seq(Words) /\ Len(s) = 0
    OBVIOUS
  <2> HIDE DEF s
  <2>2. Plan(s, -1, 0)
    BY <2>1 DEF Plan
  <2> QED
    BY <2>1, <2>2 DEF Runs, Suits, Pending, Has, s
<1>5. ASSUME NEW name \in Names PROVE Opens(<<"write", "exit">>, name)
  <2>1. Short(<<"write", "exit">>)
    BY Lists DEF Short
  <2> QED
    BY <2>1, ShortOpens
<1> QED
  BY <1>1, <1>2, <1>3, <1>4, <1>5

-----------------------------------------------------------------------------
(* The steps                                                                *)

LEMMA SeatFacts ==
  /\ Seats \subseteq Nat /\ 0 \in Seats /\ 1 \in Seats /\ User!init = 0 /\ User!sh = 1
  /\ Seats = User!Slots /\ Seats = {0, 1} \cup Others
BY CallsAssumption DEF User!ProgramsAssumption, Seats, Others, User!Slots, User!init, User!sh

(* Who makes a call is no other than a process with a call to make.         *)
LEMMA Caller ==
  ASSUME UserInv, NEW p \in Seats, NEW word, User!Syscall(p, word)
  PROVE  /\ p # 0 /\ state[p] = "LIVE" /\ rest[p] # <<>> /\ Head(rest[p]) = word
         /\ ProgInv(p) /\ ReportInv(p)
         /\ p = 1 => word \in {"fork", "wait"} /\ prog[p][1] = "sh"
         /\ p # 1 => p \in Others
         /\ word # "exec" /\ p # 1 => prog[p][1] # "sh"
<1>1. state[p] = "LIVE" /\ rest[p] # <<>> /\ Head(rest[p]) = word
  BY DEF User!Syscall
<1>2. p # 0
  BY <1>1 DEF UserInv, ShellInv
<1>3. ProgInv(p) /\ ReportInv(p)
  BY <1>1 DEF UserInv
<1>4. ASSUME p = 1 PROVE word \in {"fork", "wait"} /\ prog[p][1] = "sh"
  <2>1. rest[p] \in {<<"fork", "wait">>, <<"wait">>} /\ prog[p][1] = "sh"
    BY <1>4 DEF UserInv, ShellInv
  <2> QED
    BY <1>1, <2>1
<1>5. p # 1 => p \in Others
  BY <1>2 DEF Others
<1>6. ASSUME word # "exec", p # 1, prog[p][1] = "sh" PROVE FALSE
  <2>1. rest[p] = <<"exec">>
    BY <1>3, <1>5, <1>6 DEF ProgInv
  <2> QED
    BY <1>1, <1>6, <2>1
<1> QED
  BY <1>1, <1>2, <1>3, <1>4, <1>5, <1>6

(* A process whom a step does not concern.                                  *)
Untouched(r) ==
  /\ prog'[r] = prog[r] /\ rest'[r] = rest[r] /\ a0'[r] = a0[r]
  /\ syscalls'[r] = syscalls[r] /\ made'[r] = made[r]
  /\ tgid'[r] = tgid[r] /\ is_thread'[r] = is_thread[r]
  /\ child_pid'[r] = child_pid[r] /\ parent_pid'[r] = parent_pid[r]
  /\ pid'[r] = pid[r] /\ parent'[r] = parent[r]

LEMMA StillFine ==
  ASSUME NEW r \in Seats, ProgInv(r), ReportInv(r), Untouched(r),
         HasChild(r) => HasChild(r)',
         prog[r][1] = "fork_chain" => pid'[parent[r]] = pid[parent[r]]
  PROVE  ProgInv(r)' /\ ReportInv(r)'
<1>1. ProgInv(r)'
  BY DEF ProgInv, Untouched
<1>2. ReportInv(r)'
  BY DEF ReportInv, Untouched
<1> QED
  BY <1>1, <1>2

LEMMA PlainCall ==
  ASSUME UserInv, NEW p \in Seats, NEW word \in User!Simple, User!Call(p, word)
  PROVE  UserInv'
<1> DEFINE s == rest[p]
<1>0. User!Syscall(p, word)
  BY DEF User!Call
<1>1. /\ p \in Others /\ state[p] = "LIVE" /\ s # <<>> /\ Head(s) = word
      /\ ProgInv(p) /\ ReportInv(p) /\ prog[p][1] # "sh"
      /\ word \notin {"fork", "wait", "exec", "exit"}
  <2>1. word \notin {"fork", "wait", "exec", "exit"}
    BY DEF User!Simple
  <2> QED
    BY <1>0, <2>1, Caller
<1>2. /\ UNCHANGED <<state, pid, parent, tgid, is_thread, nextpid, prog, child_pid>>
      /\ rest' = [rest EXCEPT ![p] = Tail(s)]
      /\ syscalls' = [syscalls EXCEPT ![p] = @ + 1]
      /\ made' = [made EXCEPT ![p] = @ + 1]
      /\ a0' = [a0 EXCEPT ![p] = <<word, User!Result(p, word)>>]
      /\ parent_pid' = IF word = "parent_pid = getpid"
                       THEN [parent_pid EXCEPT ![p] = pid[p]] ELSE parent_pid
  BY <1>1, SeatFacts DEF User!Call, User!Advance, User!Counted, User!Returns, Others
<1>3. /\ Runs(Tail(s), prog[p][1]) /\ (Pending(Tail(s)) <=> Pending(s))
      /\ prog[p][1] = "fork_chain" =>
           /\ ~ Has(Tail(s), "getpid")
           /\ Starts(Tail(s), "fork") => word = "parent_pid = getpid"
  <2>1. Runs(s, prog[p][1])
    BY <1>1 DEF ProgInv
  <2> QED
    BY <1>1, <2>1, RunsTail
<1>4. p \in Seats /\ p # 0 /\ p # 1
  BY <1>1 DEF Others
<1>5. UserTypes'
  <2>1. UserTypes
    BY DEF UserInv
  <2>2. OfSeats(rest') /\ OfSeats(a0')
    BY <1>2, <2>1, Zenon DEF UserTypes, OfSeats
  <2>3. syscalls' \in [Seats -> Int] /\ made' \in [Seats -> Int]
    <3>1. syscalls[p] + 1 \in Int /\ made[p] + 1 \in Int
      BY <1>4, <2>1 DEF UserTypes
    <3> QED
      BY <1>2, <1>4, <2>1, <3>1, Zenon DEF UserTypes
  <2>4. parent_pid' \in [Seats -> Int]
    BY <1>2, <1>4, <2>1 DEF UserTypes
  <2> QED
    BY <1>2, <2>1, <2>2, <2>3, <2>4 DEF UserTypes
<1>6. /\ rest'[p] = Tail(s) /\ syscalls'[p] = syscalls[p] + 1 /\ made'[p] = made[p] + 1
      /\ a0'[p] = <<word, User!Result(p, word)>>
      /\ parent_pid'[p] = IF word = "parent_pid = getpid" THEN pid[p] ELSE parent_pid[p]
  BY <1>2, <1>4 DEF UserInv, UserTypes, OfSeats
<1>7. \A r \in Seats \ {p} : Untouched(r)
  BY <1>2, <1>4 DEF UserInv, UserTypes, OfSeats, Untouched
<1>8. \A r \in Seats : HasChild(r) => HasChild(r)'
  BY <1>2 DEF HasChild
<1>9. ShellInv'
  BY <1>2, <1>4, <1>7, SeatFacts DEF UserInv, ShellInv, Untouched
<1>10. PidInv'
  BY <1>2 DEF UserInv, PidInv
<1>11. \A r \in Seats : Pending(rest'[r]) <=> Pending(rest[r])
  BY <1>3, <1>6, <1>7 DEF Untouched
<1>12. FamilyInv'
  BY <1>2, <1>11, SeatFacts DEF UserInv, UserTypes, FamilyInv, Others
<1>13. ASSUME NEW r \in Seats \ {p}, state'[r] = "LIVE" PROVE ProgInv(r)' /\ ReportInv(r)'
  <2>1. ProgInv(r) /\ ReportInv(r)
    BY <1>2, <1>13 DEF UserInv
  <2> QED
    BY <1>2, <1>7, <1>8, <1>13, <2>1, StillFine
<1>14. ProgInv(p)'
  BY <1>1, <1>2, <1>3, <1>6, <1>8 DEF ProgInv
<1>15. ReportInv(p)'
  <2>1. /\ syscalls'[p] = made'[p] /\ tgid'[p] = pid'[p] /\ is_thread'[p] = 0
    BY <1>1, <1>2, <1>4, <1>6 DEF ReportInv
  <2>2. /\ word = "getsyscount" => User!Result(p, word) = syscalls'[p]
        /\ word = "getthreadinfo" => User!Result(p, word) = <<pid[p], tgid[p], is_thread[p]>>
    BY DEF User!Result
  <2>3. a0'[p][1] = word /\ a0'[p][2] = User!Result(p, word)
    <3> PICK v : v = User!Result(p, word)
      OBVIOUS
    <3>1. a0'[p] = <<word, v>>
      BY <1>6
    <3> QED
      BY <3>1
  <2>4. /\ a0'[p][1] = "getsyscount" => a0'[p][2] = made'[p]
        /\ a0'[p][1] = "getthreadinfo" => a0'[p][2] = <<pid'[p], pid'[p], 0>>
        /\ a0'[p][1] # "wait"
    BY <1>1, <1>2, <2>1, <2>2, <2>3
  <2>5. ASSUME prog[p][1] = "fork_chain"
        PROVE  /\ a0'[p][1] = "getpid" => parent_pid'[p] = pid'[parent'[p]]
               /\ ~ Has(rest'[p], "getpid")
               /\ Starts(rest'[p], "fork") => parent_pid'[p] = pid'[p]
    <3>1. word = "getpid" => parent_pid[p] = pid[parent[p]]
      <4> SUFFICES ASSUME word = "getpid" PROVE Has(s, "getpid")
        BY <1>1, <2>5 DEF ReportInv
      <4>1. s \in Seq(Words)
        BY <1>1 DEF ProgInv, Runs
      <4>2. 1 \in 1 .. Len(s) /\ s[1] = Head(s)
        BY <1>1, <4>1
      <4> QED
        BY <1>1, <4>2 DEF Has
    <3> QED
      BY <1>2, <1>3, <1>6, <2>3, <2>5, <3>1
  <2> QED
    BY <1>2, <2>1, <2>4, <2>5 DEF ReportInv
<1>16. \A r \in Seats : state'[r] = "LIVE" => ProgInv(r)' /\ ReportInv(r)'
  BY <1>13, <1>14, <1>15
<1> QED
  BY <1>5, <1>9, <1>10, <1>12, <1>16 DEF UserInv

LEMMA Counting ==
  ASSUME UserTypes, NEW p \in Seats, syscalls' = User!Counted(p),
         made' = IF p = User!sh THEN made ELSE [made EXCEPT ![p] = @ + 1]
  PROVE  /\ syscalls' \in [Seats -> Int] /\ made' \in [Seats -> Int]
         /\ \A r \in Seats \ {p} : syscalls'[r] = syscalls[r] /\ made'[r] = made[r]
         /\ p # 1 /\ syscalls[p] = made[p] => syscalls'[p] = made'[p]
<1>1. syscalls \in [Seats -> Int] /\ made \in [Seats -> Int]
  BY DEF UserTypes
<1>2. CASE p = 1
  BY <1>1, <1>2, SeatFacts DEF User!Counted
<1>3. CASE p # 1
  <2>1. syscalls[p] + 1 \in Int /\ made[p] + 1 \in Int
    BY <1>1
  <2>2. /\ syscalls' = [syscalls EXCEPT ![p] = syscalls[p] + 1]
        /\ made' = [made EXCEPT ![p] = made[p] + 1]
    BY <1>3, SeatFacts DEF User!Counted
  <2>3. syscalls' \in [Seats -> Int] /\ made' \in [Seats -> Int]
    BY <1>1, <2>1, <2>2, Zenon
  <2> QED
    BY <1>1, <2>2, <2>3
<1> QED
  BY <1>2, <1>3

LEMMA ExitCall == ASSUME UserInv, NEW p \in Seats, User!Exit(p) PROVE UserInv'
<1>0. User!Syscall(p, "exit")
  BY DEF User!Exit
<1>1. /\ p \in Others /\ p # 0 /\ p # 1 /\ state[p] = "LIVE" /\ rest[p] # <<>>
      /\ Head(rest[p]) = "exit" /\ ProgInv(p) /\ ReportInv(p) /\ prog[p][1] # "sh"
  BY <1>0, Caller
<1>2. ~ Pending(rest[p])
  <2>1. Runs(rest[p], prog[p][1])
    BY <1>1 DEF ProgInv
  <2> QED
    BY <1>1, <2>1, RunsTail
<1>3. \A r \in Others : state[r] # "UNUSED" => parent[r] # p
  BY <1>2 DEF UserInv, FamilyInv
<1>4. parent' = parent
  <2>1. User!Children(p) = {}
    BY <1>1, <1>3, SeatFacts DEF User!Children, UserInv, ShellInv, Others
  <2> QED
    BY <2>1, SeatFacts DEF User!Exit, UserInv, UserTypes
<1>5. /\ UNCHANGED <<pid, tgid, is_thread, nextpid, prog, child_pid, parent_pid, parent>>
      /\ state' = [state EXCEPT ![p] = "ZOMBIE"]
      /\ rest' = [rest EXCEPT ![p] = <<>>]
      /\ a0' = [a0 EXCEPT ![p] = <<"exit", 0>>]
      /\ syscalls' = User!Counted(p)
      /\ made' = IF p = User!sh THEN made ELSE [made EXCEPT ![p] = @ + 1]
  BY <1>4 DEF User!Exit, User!Returns
<1>6. UserTypes
  BY DEF UserInv
<1>7. /\ syscalls' \in [Seats -> Int] /\ made' \in [Seats -> Int]
      /\ \A r \in Seats \ {p} : syscalls'[r] = syscalls[r] /\ made'[r] = made[r]
  BY <1>5, <1>6, Counting
<1>8. UserTypes'
  <2>1. OfSeats(rest') /\ OfSeats(a0')
    BY <1>5, <1>6, Zenon DEF UserTypes, OfSeats
  <2>2. state' \in [Seats -> {"UNUSED", "LIVE", "ZOMBIE"}]
    BY <1>5, <1>6 DEF UserTypes
  <2> QED
    BY <1>5, <1>6, <1>7, <2>1, <2>2 DEF UserTypes
<1>9. /\ \A r \in Seats \ {p} : Untouched(r) /\ state'[r] = state[r]
      /\ state'[p] = "ZOMBIE"
  BY <1>5, <1>6, <1>7 DEF UserTypes, OfSeats, Untouched
<1>10. \A r \in Seats : state'[r] = "UNUSED" <=> state[r] = "UNUSED"
  BY <1>1, <1>9
<1>11. \A r \in Seats : HasChild(r) => HasChild(r)'
  BY <1>5, <1>10, SeatFacts DEF HasChild
<1>12. ShellInv'
  BY <1>1, <1>5, <1>9, SeatFacts DEF UserInv, ShellInv, Untouched
<1>13. PidInv'
  BY <1>5, <1>10 DEF UserInv, PidInv
<1>14. FamilyInv'
  <2> SUFFICES ASSUME NEW r \in Others, state'[r] # "UNUSED"
               PROVE  /\ parent[r] # 0 /\ state'[parent[r]] = "LIVE"
                      /\ Pending(rest'[parent[r]]) /\ pid[r] = child_pid[parent[r]]
                      /\ pid[parent[r]] < pid[r]
    BY <1>5 DEF FamilyInv
  <2>1. state[r] # "UNUSED" /\ parent[r] # p /\ r \in Seats
    BY <1>3, <1>10, SeatFacts
  <2>2. parent[r] \in Seats \ {p}
    BY <1>6, <2>1 DEF UserTypes
  <2>3. rest'[parent[r]] = rest[parent[r]] /\ state'[parent[r]] = state[parent[r]]
    BY <1>9, <2>2 DEF Untouched
  <2> QED
    BY <2>1, <2>3 DEF UserInv, FamilyInv
<1>15. ASSUME NEW r \in Seats, state'[r] = "LIVE" PROVE ProgInv(r)' /\ ReportInv(r)'
  <2>1. r # p /\ state[r] = "LIVE"
    BY <1>9, <1>15
  <2>2. ProgInv(r) /\ ReportInv(r)
    BY <2>1 DEF UserInv
  <2> QED
    BY <1>5, <1>9, <1>11, <2>1, <2>2, StillFine
<1> QED
  BY <1>8, <1>12, <1>13, <1>14, <1>15 DEF UserInv

LEMMA ExecCall == ASSUME UserInv, NEW p \in Seats, User!Exec(p) PROVE UserInv'
<1>0. User!Syscall(p, "exec")
  BY DEF User!Exec
<1>1. /\ p \in Others /\ p # 0 /\ p # 1 /\ state[p] = "LIVE" /\ rest[p] # <<>>
      /\ Head(rest[p]) = "exec" /\ ProgInv(p) /\ ReportInv(p)
  BY <1>0, Caller
<1>2. rest[p] = <<"exec">> /\ parent[p] = 1
  <2>1. Runs(rest[p], prog[p][1])
    BY <1>1 DEF ProgInv
  <2>2. prog[p][1] = "sh"
    BY <1>1, <2>1, RunsTail
  <2> QED
    BY <1>1, <2>2 DEF ProgInv
<1>3. \A r \in Others : state[r] # "UNUSED" => parent[r] # p
  BY <1>2, ShellRuns DEF UserInv, FamilyInv
<1>4. PICK x \in User!Programs : prog' = [prog EXCEPT ![p] = x]
                                 /\ rest' = [rest EXCEPT ![p] = User!Text(x)]
  BY DEF User!Exec
<1>5. x[1] \in Names \ {"sh"} /\ DOMAIN x = 1 .. 3
  BY <1>4 DEF User!Programs, Names
<1>6. Opens(User!Text(x), x[1])
  BY <1>5, TextOpens
<1>7. /\ UNCHANGED <<state, pid, parent, tgid, is_thread, nextpid>>
      /\ a0' = [a0 EXCEPT ![p] = <<"exec", 0>>]
      /\ parent_pid' = [parent_pid EXCEPT ![p] = 2]
      /\ child_pid' = [child_pid EXCEPT ![p] = 0]
      /\ syscalls' = User!Counted(p)
      /\ made' = IF p = User!sh THEN made ELSE [made EXCEPT ![p] = @ + 1]
  BY DEF User!Exec, User!Returns
<1>8. UserTypes
  BY DEF UserInv
<1>9. /\ syscalls' \in [Seats -> Int] /\ made' \in [Seats -> Int]
      /\ \A r \in Seats \ {p} : syscalls'[r] = syscalls[r] /\ made'[r] = made[r]
      /\ syscalls'[p] = made'[p]
  BY <1>1, <1>7, <1>8, Counting DEF ReportInv
<1>10. UserTypes'
  <2>1. OfSeats(rest') /\ OfSeats(a0') /\ OfSeats(prog')
    BY <1>4, <1>7, <1>8, Zenon DEF UserTypes, OfSeats
  <2>2. parent_pid' \in [Seats -> Int] /\ child_pid' \in [Seats -> Int]
    BY <1>7, <1>8 DEF UserTypes
  <2> QED
    BY <1>7, <1>8, <1>9, <2>1, <2>2 DEF UserTypes
<1>11. \A r \in Seats \ {p} : Untouched(r)
  BY <1>4, <1>7, <1>8, <1>9 DEF UserTypes, OfSeats, Untouched
<1>12. /\ prog'[p] = x /\ rest'[p] = User!Text(x) /\ a0'[p] = <<"exec", 0>>
       /\ parent_pid'[p] = 2
  BY <1>4, <1>7, <1>8 DEF UserTypes, OfSeats
<1>13. \A r \in Seats : HasChild(r) => HasChild(r)'
  BY <1>7 DEF HasChild
<1>14. ShellInv'
  BY <1>1, <1>7, <1>11, SeatFacts DEF UserInv, ShellInv, Untouched
<1>15. PidInv'
  BY <1>7 DEF UserInv, PidInv
<1>16. FamilyInv'
  <2> SUFFICES ASSUME NEW r \in Others, state[r] # "UNUSED"
               PROVE  /\ parent[r] # 0 /\ state[parent[r]] = "LIVE"
                      /\ Pending(rest'[parent[r]]) /\ pid[r] = child_pid'[parent[r]]
                      /\ pid[parent[r]] < pid[r]
    BY <1>7 DEF FamilyInv
  <2>1. parent[r] \in Seats \ {p}
    BY <1>3, <1>8, SeatFacts DEF UserTypes
  <2>2. rest'[parent[r]] = rest[parent[r]] /\ child_pid'[parent[r]] = child_pid[parent[r]]
    BY <1>11, <2>1 DEF Untouched
  <2> QED
    BY <2>2 DEF UserInv, FamilyInv
<1>17. ASSUME NEW r \in Seats \ {p}, state'[r] = "LIVE" PROVE ProgInv(r)' /\ ReportInv(r)'
  <2>1. ProgInv(r) /\ ReportInv(r)
    BY <1>7, <1>17 DEF UserInv
  <2> QED
    BY <1>7, <1>11, <1>13, <1>17, <2>1, StillFine
<1>18. ProgInv(p)'
  BY <1>5, <1>6, <1>12 DEF ProgInv, Opens
<1>19. ReportInv(p)'
  <2>1. pid'[parent'[p]] = 2
    BY <1>2, <1>7 DEF UserInv, ShellInv
  <2>2. tgid'[p] = pid'[p] /\ is_thread'[p] = 0
    BY <1>1, <1>7 DEF ReportInv
  <2>3. a0'[p][1] = "exec"
    BY <1>12
  <2>4. prog'[p][1] = "fork_chain" => ~ Starts(rest'[p], "fork")
    BY <1>6, <1>12 DEF Opens
  <2> QED
    BY <1>9, <1>12, <2>1, <2>2, <2>3, <2>4 DEF ReportInv
<1> QED
  BY <1>7, <1>10, <1>14, <1>15, <1>16, <1>17, <1>18, <1>19 DEF UserInv

(* wait() returns the only child, if there is one, and it is gone.          *)
Reaps(p, Z, v) ==
  /\ Z \subseteq Others /\ v = child_pid[p]
  /\ \A r \in Z : state[r] = "ZOMBIE" /\ parent[r] = p
  /\ \A r \in Others \ Z : state[r] # "UNUSED" => parent[r] # p
  /\ state' = [r \in Seats |-> IF r \in Z THEN "UNUSED" ELSE state[r]]
  /\ pid' = [r \in Seats |-> IF r \in Z THEN 0 ELSE pid[r]]
  /\ a0' = [a0 EXCEPT ![p] = <<"wait", v>>]

LEMMA WaitReaps ==
  ASSUME UserInv, NEW p \in Seats, User!Wait(p), Pending(rest[p]), ProgInv(p)
  PROVE  \E Z, v : Reaps(p, Z, v)
<1>0. UserTypes
  BY DEF UserInv
<1>1. \A r \in User!Children(p) : r \in Others \/ r = 1
  BY SeatFacts DEF User!Children
<1>2. CASE User!Children(p) = {} /\ User!Returns(p, "wait", -1) /\ UNCHANGED <<state, pid>>
  <2>1. \A r \in Others : state[r] # "UNUSED" => parent[r] # p
    BY <1>2, SeatFacts DEF User!Children, Others
  <2>2. child_pid[p] = -1
    BY <2>1 DEF ProgInv, HasChild
  <2>3. a0' = [a0 EXCEPT ![p] = <<"wait", -1>>]
    BY <1>2 DEF User!Returns
  <2>4. /\ state' = [r \in Seats |-> IF r \in {} THEN "UNUSED" ELSE state[r]]
        /\ pid' = [r \in Seats |-> IF r \in {} THEN 0 ELSE pid[r]]
    BY <1>0, <1>2 DEF UserTypes
  <2>5. Reaps(p, {}, -1)
    BY <2>1, <2>2, <2>3, <2>4 DEF Reaps
  <2> QED
    BY <2>5
<1>3. ASSUME NEW q \in User!Children(p), state[q] = "ZOMBIE",
             state' = [state EXCEPT ![q] = "UNUSED"], pid' = [pid EXCEPT ![q] = 0],
             User!Returns(p, "wait", pid[q])
      PROVE  \E Z, v : Reaps(p, Z, v)
  <2>1. q \in Others /\ q \in Seats /\ parent[q] = p
    BY <1>1, <1>3, SeatFacts DEF UserInv, ShellInv, User!Children
  <2> PICK v : v = pid[q]
    OBVIOUS
  <2>2. v = child_pid[p]
    BY <1>3, <2>1 DEF UserInv, FamilyInv
  <2>3. ASSUME NEW r \in Others \ {q}, state[r] # "UNUSED", parent[r] = p PROVE FALSE
    <3>1. pid[r] = child_pid[p] /\ r \in Seats
      BY <2>3, SeatFacts DEF UserInv, FamilyInv
    <3> QED
      BY <1>3, <2>1, <2>2, <2>3, <3>1 DEF UserInv, PidInv
  <2>4. a0' = [a0 EXCEPT ![p] = <<"wait", v>>]
    BY <1>3 DEF User!Returns
  <2>5. /\ state' = [r \in Seats |-> IF r \in {q} THEN "UNUSED" ELSE state[r]]
        /\ pid' = [r \in Seats |-> IF r \in {q} THEN 0 ELSE pid[r]]
    BY <1>0, <1>3 DEF UserTypes
  <2>6. Reaps(p, {q}, v)
    BY <1>3, <2>1, <2>2, <2>3, <2>4, <2>5 DEF Reaps
  <2> QED
    BY <2>6
<1> QED
  BY <1>2, <1>3 DEF User!Wait

LEMMA WaitCall == ASSUME UserInv, NEW p \in Seats, User!Wait(p) PROVE UserInv'
<1>0. User!Syscall(p, "wait")
  BY DEF User!Wait
<1>1. /\ p # 0 /\ state[p] = "LIVE" /\ rest[p] # <<>> /\ Head(rest[p]) = "wait"
      /\ ProgInv(p) /\ ReportInv(p) /\ (p # 1 => p \in Others /\ prog[p][1] # "sh")
      /\ (p = 1 => prog[p][1] = "sh")
  BY <1>0, Caller
<1>2. PICK t : t = IF p = User!sh THEN User!Text(prog[p]) ELSE Tail(rest[p])
  OBVIOUS
<1>3. /\ Pending(rest[p]) /\ Runs(t, prog[p][1]) /\ ~ Pending(t)
      /\ p = 1 => t = <<"fork", "wait">>
      /\ prog[p][1] = "fork_chain" => ~ Has(t, "getpid") /\ ~ Starts(t, "fork")
  <2>1. Runs(rest[p], prog[p][1])
    BY <1>1 DEF ProgInv
  <2>2. /\ Pending(rest[p]) /\ Runs(Tail(rest[p]), prog[p][1]) /\ ~ Pending(Tail(rest[p]))
        /\ prog[p][1] = "fork_chain" =>
             ~ Has(Tail(rest[p]), "getpid") /\ ~ Starts(Tail(rest[p]), "fork")
    BY <1>1, <2>1, RunsTail
  <2>3. CASE p = 1
    <3>1. t = <<"fork", "wait">>
      BY <1>1, <1>2, <2>3, SeatFacts DEF User!Text
    <3> QED
      BY <1>1, <2>2, <2>3, <3>1, ShellRuns
  <2>4. CASE p # 1
    BY <1>2, <2>2, <2>4, SeatFacts
  <2> QED
    BY <2>3, <2>4
<1>4. PICK Z, v : Reaps(p, Z, v)
  BY <1>1, <1>3, WaitReaps
<1>5. UserTypes
  BY DEF UserInv
<1>6. /\ UNCHANGED <<parent, tgid, is_thread, nextpid, prog, child_pid, parent_pid>>
      /\ rest' = [rest EXCEPT ![p] = t]
      /\ syscalls' = User!Counted(p)
      /\ made' = IF p = User!sh THEN made ELSE [made EXCEPT ![p] = @ + 1]
  BY <1>2 DEF User!Wait, User!Returns
<1>7. /\ syscalls' \in [Seats -> Int] /\ made' \in [Seats -> Int]
      /\ \A r \in Seats \ {p} : syscalls'[r] = syscalls[r] /\ made'[r] = made[r]
      /\ p # 1 => syscalls'[p] = made'[p]
  BY <1>1, <1>5, <1>6, Counting DEF ReportInv
<1>8. /\ Z \subseteq Others /\ v = child_pid[p]
      /\ \A r \in Z : state[r] = "ZOMBIE" /\ parent[r] = p
      /\ \A r \in Others \ Z : state[r] # "UNUSED" => parent[r] # p
      /\ state' = [r \in Seats |-> IF r \in Z THEN "UNUSED" ELSE state[r]]
      /\ pid' = [r \in Seats |-> IF r \in Z THEN 0 ELSE pid[r]]
      /\ a0' = [a0 EXCEPT ![p] = <<"wait", v>>]
  BY <1>4 DEF Reaps
<1>9. UserTypes'
  <2>1. OfSeats(rest') /\ OfSeats(a0')
    BY <1>5, <1>6, <1>8, Zenon DEF UserTypes, OfSeats
  <2>2. state' \in [Seats -> {"UNUSED", "LIVE", "ZOMBIE"}] /\ pid' \in [Seats -> Int]
    BY <1>5, <1>8 DEF UserTypes
  <2> QED
    BY <1>5, <1>6, <1>7, <2>1, <2>2 DEF UserTypes
<1>10. /\ \A r \in Seats : state'[r] # "UNUSED" => r \notin Z
       /\ \A r \in Seats \ Z : state'[r] = state[r] /\ pid'[r] = pid[r]
       /\ 0 \notin Z /\ 1 \notin Z /\ p \notin Z
  BY <1>1, <1>8 DEF Others
<1>11. \A r \in Seats \ (Z \cup {p}) : Untouched(r)
  BY <1>5, <1>6, <1>7, <1>8, <1>10 DEF UserTypes, OfSeats, Untouched
<1>12. rest'[p] = t /\ a0'[p] = <<"wait", v>>
  BY <1>5, <1>6, <1>8 DEF UserTypes, OfSeats
<1>13. \A r \in Seats \ {p} : HasChild(r) => HasChild(r)'
  BY <1>6, <1>8, <1>10, SeatFacts DEF HasChild
<1>14. ShellInv'
  <2>1. rest'[1] = rest[1] \/ rest'[1] = <<"fork", "wait">>
    BY <1>3, <1>10, <1>11, <1>12, SeatFacts DEF Untouched
  <2>2. a0'[1][1] = a0[1][1] \/ a0'[1][1] = "wait"
    BY <1>10, <1>11, <1>12, SeatFacts DEF Untouched
  <2>3. rest'[0] = rest[0] /\ a0'[0] = a0[0]
    BY <1>1, <1>10, <1>11, SeatFacts DEF Untouched
  <2>4. state'[0] = state[0] /\ state'[1] = state[1] /\ pid'[1] = pid[1]
    BY <1>10, SeatFacts
  <2>5. ShellInv
    BY DEF UserInv
  <2> QED
    BY <1>6, <2>1, <2>2, <2>3, <2>4, <2>5 DEF ShellInv
<1>15. PidInv'
  BY <1>6, <1>10 DEF UserInv, PidInv
<1>16. FamilyInv'
  <2> SUFFICES ASSUME NEW r \in Others, state'[r] # "UNUSED"
               PROVE  /\ parent[r] # 0 /\ state'[parent[r]] = "LIVE"
                      /\ Pending(rest'[parent[r]]) /\ pid'[r] = child_pid[parent[r]]
                      /\ pid'[parent[r]] < pid'[r]
    BY <1>6 DEF FamilyInv
  <2>1. r \in Seats /\ r \notin Z /\ state[r] # "UNUSED" /\ parent[r] # p
    BY <1>8, <1>10, SeatFacts
  <2>2. parent[r] \in Seats /\ state[parent[r]] = "LIVE"
    BY <1>5, <2>1 DEF UserInv, UserTypes, FamilyInv
  <2>3. parent[r] \notin Z
    BY <1>8, <2>2
  <2>4. Untouched(parent[r]) /\ state'[parent[r]] = state[parent[r]] /\ pid'[r] = pid[r]
    BY <1>10, <1>11, <2>1, <2>2, <2>3
  <2> QED
    BY <2>1, <2>4 DEF UserInv, FamilyInv, Untouched
<1>17. ASSUME NEW r \in Seats \ {p}, state'[r] = "LIVE" PROVE ProgInv(r)' /\ ReportInv(r)'
  <2>1. r \notin Z /\ state[r] = "LIVE"
    BY <1>10, <1>17
  <2>2. ProgInv(r) /\ ReportInv(r)
    BY <2>1 DEF UserInv
  <2>3. ASSUME prog[r][1] = "fork_chain" PROVE pid'[parent[r]] = pid[parent[r]]
    <3>1. r \in Others
      BY <2>3, SeatFacts DEF UserInv, ShellInv
    <3>2. parent[r] \in Seats /\ state[parent[r]] = "LIVE"
      BY <1>5, <2>1, <3>1 DEF UserInv, UserTypes, FamilyInv
    <3> QED
      BY <1>8, <1>10, <3>2
  <2> QED
    BY <1>11, <1>13, <2>1, <2>2, <2>3, StillFine
<1>18. ProgInv(p)'
  BY <1>1, <1>3, <1>6, <1>12 DEF ProgInv, Others
<1>19. ReportInv(p)'
  <2>1. a0'[p][1] = "wait" /\ a0'[p][2] = child_pid'[p]
    BY <1>6, <1>8, <1>12
  <2>2. tgid'[p] = pid'[p] /\ is_thread'[p] = 0
    BY <1>1, <1>6, <1>10 DEF ReportInv
  <2> QED
    BY <1>3, <1>6, <1>7, <1>12, <2>1, <2>2 DEF ReportInv
<1> QED
  BY <1>9, <1>14, <1>15, <1>16, <1>17, <1>18, <1>19 DEF UserInv

LEMMA ForkFailsCall == ASSUME UserInv, NEW p \in Seats, User!ForkFails(p) PROVE UserInv'
<1>0. User!Syscall(p, "fork")
  BY DEF User!ForkFails
<1>1. /\ p # 0 /\ state[p] = "LIVE" /\ rest[p] # <<>> /\ Head(rest[p]) = "fork"
      /\ ProgInv(p) /\ ReportInv(p) /\ (p # 1 => p \in Others /\ prog[p][1] # "sh")
      /\ (p = 1 => prog[p][1] = "sh")
  BY <1>0, Caller
<1>2. PICK t : t = User!AfterFailure(p)
  OBVIOUS
<1>3. /\ ~ Pending(rest[p]) /\ Runs(t, prog[p][1])
      /\ p = 1 => t = <<"fork", "wait">>
      /\ prog[p][1] = "fork_chain" => ~ Has(t, "getpid") /\ ~ Starts(t, "fork")
  <2>1. Runs(rest[p], prog[p][1]) /\ prog[p][1] \in Names
    BY <1>1 DEF ProgInv
  <2>2. ~ Pending(rest[p]) /\ Runs(Tail(rest[p]), prog[p][1])
    BY <1>1, <2>1, RunsTail
  <2>3. CASE p = 1
    <3>1. t = <<"fork", "wait">>
      BY <1>1, <1>2, <2>3 DEF User!AfterFailure, User!Text
    <3> QED
      BY <1>1, <2>2, <2>3, <3>1, ShellRuns
  <2>4. CASE p # 1 /\ prog[p][1] = "threadinfo_test"
    <3>1. t = Tail(rest[p])
      BY <1>2, <2>4 DEF User!AfterFailure
    <3> QED
      BY <2>2, <2>4, <3>1
  <2>5. CASE p # 1 /\ prog[p][1] # "threadinfo_test"
    <3>1. t = <<"write", "exit">>
      BY <1>1, <1>2, <2>5 DEF User!AfterFailure
    <3>2. Opens(t, prog[p][1])
      BY <2>1, <3>1, ShellRuns
    <3>3. ~ Has(t, "getpid")
      BY <3>1 DEF Has
    <3> QED
      BY <2>2, <2>5, <3>2, <3>3 DEF Opens
  <2> QED
    BY <2>3, <2>4, <2>5
<1>4. \A r \in Others : state[r] # "UNUSED" => parent[r] # p
  BY <1>3 DEF UserInv, FamilyInv
<1>5. UserTypes
  BY DEF UserInv
<1>6. /\ UNCHANGED <<state, pid, parent, tgid, is_thread, prog, parent_pid>>
      /\ nextpid' = nextpid \/ nextpid' = nextpid + 1
      /\ rest' = [rest EXCEPT ![p] = t]
      /\ child_pid' = [child_pid EXCEPT ![p] = -1]
      /\ a0' = [a0 EXCEPT ![p] = <<"fork", -1>>]
      /\ syscalls' = User!Counted(p)
      /\ made' = IF p = User!sh THEN made ELSE [made EXCEPT ![p] = @ + 1]
  BY <1>2 DEF User!ForkFails, User!Returns
<1>7. /\ syscalls' \in [Seats -> Int] /\ made' \in [Seats -> Int]
      /\ \A r \in Seats \ {p} : syscalls'[r] = syscalls[r] /\ made'[r] = made[r]
      /\ p # 1 => syscalls'[p] = made'[p]
  BY <1>1, <1>5, <1>6, Counting DEF ReportInv
<1>8. UserTypes'
  <2>1. OfSeats(rest') /\ OfSeats(a0')
    BY <1>5, <1>6, Zenon DEF UserTypes, OfSeats
  <2>2. child_pid' \in [Seats -> Int] /\ nextpid' \in Int
    BY <1>5, <1>6 DEF UserTypes
  <2> QED
    BY <1>5, <1>6, <1>7, <2>1, <2>2 DEF UserTypes
<1>9. \A r \in Seats \ {p} : Untouched(r)
  BY <1>5, <1>6, <1>7 DEF UserTypes, OfSeats, Untouched
<1>10. rest'[p] = t /\ a0'[p] = <<"fork", -1>> /\ child_pid'[p] = -1
  BY <1>5, <1>6 DEF UserTypes, OfSeats
<1>11. \A r \in Seats : HasChild(r) => HasChild(r)'
  BY <1>6 DEF HasChild
<1>12. ShellInv'
  <2>1. rest'[1] = rest[1] \/ rest'[1] = <<"fork", "wait">>
    BY <1>3, <1>9, <1>10, SeatFacts DEF Untouched
  <2>2. a0'[1][1] = a0[1][1] \/ a0'[1][1] = "fork"
    BY <1>9, <1>10, SeatFacts DEF Untouched
  <2>3. rest'[0] = rest[0] /\ a0'[0] = a0[0]
    BY <1>1, <1>9, SeatFacts DEF Untouched
  <2>4. ShellInv
    BY DEF UserInv
  <2> QED
    BY <1>6, <2>1, <2>2, <2>3, <2>4 DEF ShellInv
<1>13. PidInv'
  BY <1>5, <1>6 DEF UserInv, UserTypes, PidInv
<1>14. FamilyInv'
  <2> SUFFICES ASSUME NEW r \in Others, state[r] # "UNUSED"
               PROVE  /\ parent[r] # 0 /\ state[parent[r]] = "LIVE"
                      /\ Pending(rest'[parent[r]]) /\ pid[r] = child_pid'[parent[r]]
                      /\ pid[parent[r]] < pid[r]
    BY <1>6 DEF FamilyInv
  <2>1. parent[r] \in Seats \ {p}
    BY <1>4, <1>5, SeatFacts DEF UserTypes
  <2>2. rest'[parent[r]] = rest[parent[r]] /\ child_pid'[parent[r]] = child_pid[parent[r]]
    BY <1>9, <2>1 DEF Untouched
  <2> QED
    BY <2>2 DEF UserInv, FamilyInv
<1>15. ASSUME NEW r \in Seats \ {p}, state'[r] = "LIVE" PROVE ProgInv(r)' /\ ReportInv(r)'
  <2>1. ProgInv(r) /\ ReportInv(r)
    BY <1>6, <1>15 DEF UserInv
  <2> QED
    BY <1>6, <1>9, <1>11, <1>15, <2>1, StillFine
<1>16. ProgInv(p)'
  BY <1>1, <1>3, <1>6, <1>10 DEF ProgInv, Others
<1>17. ReportInv(p)'
  <2>1. a0'[p][1] = "fork"
    BY <1>10
  <2>2. tgid'[p] = pid'[p] /\ is_thread'[p] = 0
    BY <1>1, <1>6 DEF ReportInv
  <2> QED
    BY <1>3, <1>6, <1>7, <1>10, <2>1, <2>2 DEF ReportInv
<1> QED
  BY <1>6, <1>8, <1>12, <1>13, <1>14, <1>15, <1>16, <1>17 DEF UserInv

LEMMA ForkCall == ASSUME UserInv, NEW p \in Seats, User!Fork(p) PROVE UserInv'
<1>0. User!Syscall(p, "fork")
  BY DEF User!Fork
<1>1. /\ p # 0 /\ state[p] = "LIVE" /\ rest[p] # <<>> /\ Head(rest[p]) = "fork"
      /\ ProgInv(p) /\ ReportInv(p) /\ (p # 1 => p \in Others /\ prog[p][1] # "sh")
      /\ (p = 1 => prog[p][1] = "sh")
  BY <1>0, Caller
<1>2. UserTypes
  BY DEF UserInv
<1>3. PICK q \in Seats :
       /\ state[q] = "UNUSED"
       /\ state' = [state EXCEPT ![q] = "LIVE"]
       /\ pid' = [pid EXCEPT ![q] = nextpid]
       /\ tgid' = [tgid EXCEPT ![q] = pid'[q]]
       /\ is_thread' = [is_thread EXCEPT ![q] = 0]
       /\ syscalls' = User!NewCount(p, q)
       /\ parent' = [parent EXCEPT ![q] = p]
       /\ prog' = [prog EXCEPT ![q] = User!ChildProg(prog[p])]
       /\ rest' = [rest EXCEPT ![p] = Tail(@), ![q] = User!ChildText(prog[p])]
       /\ parent_pid' = [parent_pid EXCEPT ![q] = parent_pid[p]]
       /\ child_pid' = [child_pid EXCEPT ![p] = nextpid, ![q] = 0]
       /\ a0' = [a0 EXCEPT ![p] = <<"fork", nextpid>>, ![q] = <<"fork", 0>>]
       /\ made' = [made EXCEPT ![p] = IF p = User!sh THEN 0 ELSE @ + 1, ![q] = 0]
  BY SeatFacts, Zenon DEF User!Fork
<1>4. nextpid' = nextpid + 1
  BY DEF User!Fork
<1>5. q # p /\ q # 0 /\ q # 1 /\ q \in Others
  BY <1>1, <1>3 DEF UserInv, ShellInv, Others
<1>6. PICK s, t, x : s = Tail(rest[p]) /\ t = User!ChildText(prog[p])
                     /\ x = User!ChildProg(prog[p])
  OBVIOUS
<1>7. /\ ~ Pending(rest[p]) /\ Runs(s, prog[p][1]) /\ Pending(s)
      /\ prog[p][1] # "getsyscallcount"
      /\ p = 1 => s = <<"wait">>
      /\ prog[p][1] = "fork_chain" => ~ Has(s, "getpid") /\ ~ Starts(s, "fork")
  <2>1. Runs(rest[p], prog[p][1])
    BY <1>1 DEF ProgInv
  <2>2. /\ ~ Pending(rest[p]) /\ Runs(s, prog[p][1]) /\ Pending(s)
        /\ prog[p][1] # "getsyscallcount"
        /\ prog[p][1] = "fork_chain" => ~ Has(s, "getpid") /\ ~ Starts(s, "fork")
    BY <1>1, <1>6, <2>1, RunsTail
  <2>3. ASSUME p = 1 PROVE s = <<"wait">>
    <3>1. rest[p] \in {<<"fork", "wait">>, <<"wait">>}
      BY <2>3 DEF UserInv, ShellInv
    <3>2. rest[p] = <<"fork", "wait">>
      BY <1>1, <3>1
    <3> QED
      BY <1>6, <3>2, ShellRuns
  <2> QED
    BY <2>2, <2>3
<1>8. /\ Runs(t, x[1]) /\ ~ Pending(t) /\ x[1] \in Names /\ x[1] = prog[p][1] /\ DOMAIN x = 1 .. 3
      /\ x[1] = "sh" => t = <<"exec">> /\ p = 1
      /\ x[1] = "fork_chain" => ~ Starts(t, "fork")
  <2>1. prog[p][1] \in Names /\ DOMAIN prog[p] = 1 .. 3
    BY <1>1 DEF ProgInv
  <2>2. CASE prog[p][1] = "sh"
    <3>1. x = prog[p] /\ t = <<"exec">>
      BY <1>6, <2>2 DEF User!ChildProg, User!ChildText
    <3> QED
      BY <1>1, <2>1, <2>2, <3>1, ShellRuns
  <2>3. CASE prog[p][1] # "sh"
    <3> PICK y : y = prog[p]
      OBVIOUS
    <3>1. y[1] \in Names \ {"sh", "getsyscallcount"} /\ DOMAIN y = 1 .. 3
      BY <1>7, <2>1, <2>3
    <3>2. Opens(User!ChildText(y), y[1]) /\ User!ChildProg(y)[1] = y[1]
          /\ DOMAIN User!ChildProg(y) = 1 .. 3
      BY <3>1, ChildOpens
    <3>3. t = User!ChildText(y) /\ x = User!ChildProg(y)
      BY <1>6
    <3> QED
      BY <2>3, <3>1, <3>2, <3>3 DEF Opens
  <2> QED
    BY <2>2, <2>3
<1>9. \A r \in Others : state[r] # "UNUSED" => parent[r] # p /\ parent[r] # q
  BY <1>3, <1>7 DEF UserInv, FamilyInv
<1>10. /\ rest'[p] = s /\ rest'[q] = t /\ prog'[p] = prog[p] /\ prog'[q] = x
       /\ a0'[p] = <<"fork", nextpid>> /\ a0'[q] = <<"fork", 0>>
       /\ OfSeats(rest') /\ OfSeats(prog') /\ OfSeats(a0')
       /\ \A r \in Seats \ {p, q} :
            rest'[r] = rest[r] /\ prog'[r] = prog[r] /\ a0'[r] = a0[r]
  <2>1. /\ rest' = [rest EXCEPT ![p] = s, ![q] = t] /\ prog' = [prog EXCEPT ![q] = x]
        /\ OfSeats(rest) /\ OfSeats(prog) /\ OfSeats(a0)
    BY <1>2, <1>3, <1>6 DEF UserTypes
  <2>2. OfSeats(rest') /\ OfSeats(prog') /\ OfSeats(a0')
    BY <1>3, <2>1, Zenon DEF OfSeats
  <2> QED
    BY <1>3, <1>5, <2>1, <2>2 DEF OfSeats
<1>11. /\ state' \in [Seats -> {"UNUSED", "LIVE", "ZOMBIE"}] /\ parent' \in [Seats -> Seats]
       /\ pid' \in [Seats -> Int] /\ tgid' \in [Seats -> Int] /\ is_thread' \in [Seats -> Int]
       /\ child_pid' \in [Seats -> Int] /\ parent_pid' \in [Seats -> Int] /\ nextpid' \in Int
  BY <1>2, <1>3, <1>4 DEF UserTypes
<1>12. /\ state'[q] = "LIVE" /\ pid'[q] = nextpid /\ tgid'[q] = nextpid /\ is_thread'[q] = 0
       /\ parent'[q] = p /\ parent_pid'[q] = parent_pid[p]
       /\ child_pid'[p] = nextpid
       /\ \A r \in Seats \ {q} :
            /\ state'[r] = state[r] /\ pid'[r] = pid[r] /\ tgid'[r] = tgid[r]
            /\ is_thread'[r] = is_thread[r] /\ parent'[r] = parent[r]
            /\ parent_pid'[r] = parent_pid[r]
       /\ \A r \in Seats \ {p, q} : child_pid'[r] = child_pid[r]
  BY <1>2, <1>3, <1>5 DEF UserTypes
<1>13. /\ syscalls' \in [Seats -> Int] /\ made' \in [Seats -> Int]
       /\ syscalls'[q] = 0 /\ made'[q] = 0
       /\ \A r \in Seats \ {p, q} : syscalls'[r] = syscalls[r] /\ made'[r] = made[r]
       /\ p # 1 => syscalls'[p] = made'[p]
  <2>1. syscalls \in [Seats -> Int] /\ made \in [Seats -> Int]
    BY <1>2 DEF UserTypes
  <2>2. CASE p = 1
    <3>1. /\ syscalls' = [syscalls EXCEPT ![q] = 0]
          /\ made' = [made EXCEPT ![p] = 0, ![q] = 0]
      BY <1>3, <2>2, SeatFacts DEF User!NewCount, User!Counted
    <3> QED
      BY <1>5, <2>1, <2>2, <3>1
  <2>3. CASE p # 1
    <3>1. syscalls[p] + 1 \in Int /\ made[p] + 1 \in Int /\ syscalls[p] = made[p]
      BY <1>1, <2>1, <2>3 DEF ReportInv
    <3>2. /\ syscalls' = [[syscalls EXCEPT ![p] = syscalls[p] + 1] EXCEPT ![q] = 0]
          /\ made' = [made EXCEPT ![p] = made[p] + 1, ![q] = 0]
      BY <1>3, <2>3, SeatFacts DEF User!NewCount, User!Counted
    <3>3. syscalls' \in [Seats -> Int] /\ made' \in [Seats -> Int]
      BY <2>1, <3>1, <3>2
    <3> QED
      BY <1>5, <2>1, <3>1, <3>2, <3>3
  <2> QED
    BY <2>2, <2>3
<1>14. UserTypes'
  BY <1>10, <1>11, <1>13 DEF UserTypes
<1>15. \A r \in Seats \ {p, q} : Untouched(r)
  BY <1>10, <1>12, <1>13 DEF Untouched
<1>16. \A r \in Seats : HasChild(r) => HasChild(r)'
  BY <1>3, <1>12, SeatFacts DEF HasChild
<1>17. ShellInv'
  <2>1. rest'[1] = rest[1] \/ rest'[1] = <<"wait">>
    BY <1>5, <1>7, <1>10, SeatFacts
  <2>2. a0'[1][1] = a0[1][1] \/ a0'[1][1] = "fork"
    BY <1>5, <1>10, SeatFacts
  <2>3. rest'[0] = rest[0] /\ a0'[0] = a0[0] /\ prog'[0] = prog[0] /\ prog'[1] = prog[1]
    BY <1>1, <1>5, <1>10, SeatFacts
  <2>4. /\ state'[0] = state[0] /\ state'[1] = state[1] /\ pid'[1] = pid[1]
        /\ parent'[1] = parent[1]
    BY <1>5, <1>12, SeatFacts
  <2>5. ShellInv
    BY DEF UserInv
  <2> QED
    BY <2>1, <2>2, <2>3, <2>4, <2>5 DEF ShellInv
<1>18. PidInv'
  <2>1. PidInv /\ nextpid \in Int /\ pid \in [Seats -> Int]
    BY <1>2 DEF UserInv, UserTypes
  <2>2. \A r \in Seats \ {q} : state'[r] # "UNUSED" =>
           0 < pid'[r] /\ pid'[r] < nextpid /\ pid[r] = pid'[r] /\ state[r] # "UNUSED"
    BY <1>12, <2>1 DEF PidInv
  <2>3. \A r \in Seats : state'[r] # "UNUSED" => 0 < pid'[r] /\ pid'[r] < nextpid'
    BY <1>4, <1>11, <1>12, <2>1, <2>2 DEF PidInv
  <2>4. ASSUME NEW r \in Seats, NEW u \in Seats, state'[r] # "UNUSED", state'[u] # "UNUSED",
               pid'[r] = pid'[u], r # u
        PROVE  FALSE
    BY <1>11, <1>12, <2>1, <2>2, <2>4 DEF PidInv
  <2>5. nextpid' > 2
    BY <1>4, <2>1 DEF PidInv
  <2> QED
    BY <2>3, <2>4, <2>5 DEF PidInv
<1>19. FamilyInv'
  <2> SUFFICES ASSUME NEW r \in Others, state'[r] # "UNUSED"
               PROVE  /\ parent'[r] # 0 /\ state'[parent'[r]] = "LIVE"
                      /\ Pending(rest'[parent'[r]]) /\ pid'[r] = child_pid'[parent'[r]]
                      /\ pid'[parent'[r]] < pid'[r]
    BY DEF FamilyInv
  <2>1. CASE r = q
    <3>1. pid'[p] = pid[p] /\ pid[p] < nextpid /\ state'[p] = "LIVE"
      BY <1>1, <1>5, <1>12 DEF UserInv, PidInv
    <3> QED
      BY <1>1, <1>7, <1>10, <1>12, <2>1, <3>1
  <2>2. CASE r # q
    <3>1. r \in Seats /\ state[r] # "UNUSED" /\ parent'[r] = parent[r] /\ pid'[r] = pid[r]
      BY <1>12, <2>2, SeatFacts
    <3>2. parent[r] \in Seats \ {p, q}
      BY <1>2, <1>9, <3>1 DEF UserTypes
    <3>3. Untouched(parent[r]) /\ state'[parent[r]] = state[parent[r]]
      BY <1>12, <1>15, <3>2
    <3> QED
      BY <3>1, <3>3 DEF UserInv, FamilyInv, Untouched
  <2> QED
    BY <2>1, <2>2
<1>20. ASSUME NEW r \in Seats \ {p, q}, state'[r] = "LIVE" PROVE ProgInv(r)' /\ ReportInv(r)'
  <2>1. state[r] = "LIVE"
    BY <1>12, <1>20
  <2>2. ProgInv(r) /\ ReportInv(r)
    BY <2>1 DEF UserInv
  <2>3. ASSUME prog[r][1] = "fork_chain" PROVE pid'[parent[r]] = pid[parent[r]]
    <3>1. r \in Others
      BY <2>3, SeatFacts DEF UserInv, ShellInv
    <3>2. parent[r] \in Seats \ {q}
      BY <1>2, <1>9, <2>1, <3>1 DEF UserTypes
    <3> QED
      BY <1>12, <3>2
  <2> QED
    BY <1>15, <1>16, <2>2, <2>3, StillFine
<1>21. ProgInv(p)'
  <2>1. HasChild(p)'
    BY <1>5, <1>12 DEF HasChild
  <2> QED
    BY <1>1, <1>7, <1>10, <2>1 DEF ProgInv, Others
<1>22. ReportInv(p)'
  <2>1. a0'[p][1] = "fork"
    BY <1>10
  <2>2. tgid'[p] = pid'[p] /\ is_thread'[p] = 0
    BY <1>1, <1>5, <1>12 DEF ReportInv
  <2> QED
    BY <1>7, <1>10, <1>13, <2>1, <2>2 DEF ReportInv
<1>23. ProgInv(q)'
  BY <1>8, <1>10, <1>12 DEF ProgInv
<1>24. ReportInv(q)'
  <2>1. a0'[q][1] = "fork"
    BY <1>10
  <2>2. ASSUME prog[p][1] = "fork_chain" PROVE parent_pid'[q] = pid'[parent'[q]]
    <3>1. Starts(rest[p], "fork")
      BY <1>1 DEF Starts
    <3> QED
      BY <1>1, <1>5, <1>12, <2>2, <3>1 DEF ReportInv
  <2> QED
    BY <1>8, <1>10, <1>12, <1>13, <2>1, <2>2 DEF ReportInv
<1> QED
  BY <1>14, <1>17, <1>18, <1>19, <1>20, <1>21, <1>22, <1>23, <1>24 DEF UserInv

LEMMA UserInit == User!Init => UserInv
<1> SUFFICES ASSUME User!Init PROVE UserInv
  OBVIOUS
<1> USE SeatFacts
<1>1. /\ state = [r \in Seats |-> IF r \in {0, 1} THEN "LIVE" ELSE "UNUSED"]
      /\ pid = [r \in Seats |-> IF r \in {0, 1} THEN r + 1 ELSE 0]
      /\ parent = [r \in Seats |-> 0] /\ syscalls = [r \in Seats |-> 0]
      /\ made = syscalls /\ tgid = pid /\ is_thread = [r \in Seats |-> 0] /\ nextpid = 3
      /\ prog = [r \in Seats |-> <<"sh", 0, 0>>]
      /\ rest = [r \in Seats |-> IF r = 1 THEN User!Text(prog[r]) ELSE <<>>]
      /\ child_pid = [r \in Seats |-> 0] /\ parent_pid = [r \in Seats |-> 2]
      /\ a0 = [r \in Seats |-> <<"none", 0>>]
  BY DEF User!Init
<1>2. \A r \in Seats : prog[r][1] = "sh" /\ DOMAIN prog[r] = 1 .. 3 /\ a0[r][1] = "none"
  BY <1>1
<1>3. rest[0] = <<>> /\ rest[1] = <<"fork", "wait">>
  BY <1>1, <1>2 DEF User!Text
<1>4. UserTypes
  <2>1. OfSeats(rest) /\ OfSeats(prog) /\ OfSeats(a0)
    BY <1>1, Zenon DEF OfSeats
  <2> QED
    BY <1>1, <2>1 DEF UserTypes
<1>5. /\ state[0] = "LIVE" /\ state[1] = "LIVE" /\ pid[0] = 1 /\ pid[1] = 2 /\ parent[1] = 0
      /\ \A r \in Others : state[r] = "UNUSED"
  BY <1>1 DEF Others
<1>6. ShellInv
  BY <1>2, <1>3, <1>5 DEF ShellInv
<1>7. PidInv
  BY <1>1, <1>5 DEF PidInv
<1>8. FamilyInv
  BY <1>5 DEF FamilyInv
<1>9. ASSUME NEW r \in {0, 1} PROVE ProgInv(r) /\ ReportInv(r)
  <2>1. Runs(rest[r], "sh") /\ ~ Pending(rest[r])
    BY <1>3, <1>9, ShellRuns
  <2>2. ProgInv(r)
    BY <1>2, <1>9, <2>1 DEF ProgInv, Names, Others
  <2> QED
    BY <1>1, <1>2, <2>2 DEF ReportInv
<1>10. \A r \in Seats : state[r] = "LIVE" => r \in {0, 1}
  BY <1>5
<1> QED
  BY <1>4, <1>6, <1>7, <1>8, <1>9, <1>10 DEF UserInv

LEMMA UserStep == UserInv /\ User!Next => UserInv'
BY PlainCall, ForkCall, ForkFailsCall, ExecCall, WaitCall, ExitCall, SeatFacts DEF User!Next

THEOREM UserAlways == CallsSpec => [](subject = "programs" => UserInv)
<1> DEFINE I == subject = "programs" => UserInv
<1>1. CallsInit => I
  BY UserInit DEF CallsInit
<1>2. I /\ [CallsNext]_allVars => I'
  <2> SUFFICES ASSUME I, [CallsNext]_allVars, subject' = "programs" PROVE UserInv'
    OBVIOUS
  <2>1. CASE RunUser(User!Next)
    BY <2>1, UserStep DEF RunUser
  <2>2. CASE RunPause(Next) \/ RunMem(Mem!Next) \/ UNCHANGED allVars
    <3>1. UserInv /\ UNCHANGED userVars /\ UNCHANGED state
      BY <2>2 DEF RunPause, RunMem, allVars
    <3>2. UNCHANGED <<pid, parent, syscalls, tgid, is_thread, nextpid, prog, rest,
                      child_pid, parent_pid, a0, made, lines, state>>
      BY <3>1 DEF userVars
    <3>3. \A r \in Seats : HasChild(r)' <=> HasChild(r)
      BY <3>2 DEF HasChild
    <3>4. \A r \in Seats : /\ ProgInv(r) => ProgInv(r)'
                           /\ ReportInv(r) => ReportInv(r)'
      BY <3>2, <3>3 DEF ProgInv, ReportInv
    <3>5. UserTypes' /\ ShellInv'
      BY <3>1, <3>2 DEF UserInv, UserTypes, OfSeats, ShellInv
    <3>6. PidInv' /\ FamilyInv'
      BY <3>1, <3>2 DEF UserInv, PidInv, FamilyInv
    <3> QED
      BY <3>1, <3>2, <3>4, <3>5, <3>6 DEF UserInv
  <2> QED
    BY <2>1, <2>2 DEF CallsNext
<1> QED
  BY <1>1, <1>2, PTL DEF CallsSpec

(* A prompt: among the processes of programs the one with the smallest pid  *)
(* would have the shell for its parent, which waits for nobody.             *)
LEMMA Prompt ==
  ASSUME UserInv, rest[1] = <<"fork", "wait">>
  PROVE  \A r \in Others : state[r] = "UNUSED"
<1> DEFINE P == {r \in Others : state[r] # "UNUSED"}
           S == {pid[r] : r \in P}
<1> SUFFICES ASSUME P # {} PROVE FALSE
  OBVIOUS
<1>1. S \subseteq Nat /\ S # {}
  <2>1. ASSUME NEW r \in P PROVE pid[r] \in Nat
    <3>1. r \in Seats /\ state[r] # "UNUSED"
      BY SeatFacts
    <3>2. pid[r] \in Int /\ 0 < pid[r]
      BY <3>1 DEF UserInv, UserTypes, PidInv
    <3> QED
      BY <3>2
  <2>2. PICK r \in P : TRUE
    OBVIOUS
  <2>3. pid[r] \in S
    BY <2>2
  <2> QED
    BY <2>1, <2>3
<1>2. PICK k \in S : \A j \in S : ~ (<<j, k>> \in OpToRel(<, Nat))
  <2> HIDE DEF S
  <2> QED
    BY <1>1, NatLessThanWellFounded, WFMin
<1>3. PICK r \in P : k = pid[r]
  BY <1>2
<1>4. /\ parent[r] # 0 /\ parent[r] \in Seats /\ state[parent[r]] = "LIVE"
      /\ Pending(rest[parent[r]]) /\ pid[parent[r]] < pid[r]
  BY SeatFacts DEF UserInv, UserTypes, FamilyInv
<1>5. parent[r] \in P
  BY <1>4, ShellRuns, SeatFacts
<1>6. pid[parent[r]] \in S
  BY <1>5
<1>7. <<pid[parent[r]], k>> \in OpToRel(<, Nat)
  BY <1>1, <1>2, <1>3, <1>4, <1>6 DEF OpToRel
<1> QED
  BY <1>2, <1>6, <1>7

(* What the programs print is true, for every number of slots, every length  *)
(* of a chain and every order in which the programs are run.                *)
THEOREM ReportsKept == CallsSpec => []ReportsTrue
<1>1. UserInv => User!ReportsTrue
  <2> SUFFICES ASSUME UserInv PROVE User!ReportsTrue
    OBVIOUS
  <2>1. ASSUME NEW r \in Seats, state[r] = "LIVE"
        PROVE  /\ a0[r][1] = "getsyscount" => a0[r][2] = made[r]
               /\ a0[r][1] = "getthreadinfo" => a0[r][2] = <<pid[r], pid[r], 0>>
               /\ a0[r][1] = "wait" => a0[r][2] = child_pid[r]
               /\ prog[r][1] = "fork_chain" /\ a0[r][1] = "getpid" =>
                    state[parent[r]] = "LIVE" /\ parent_pid[r] = pid[parent[r]]
    <3>1. ReportInv(r)
      BY <2>1 DEF UserInv
    <3>2. prog[r][1] = "fork_chain" => state[parent[r]] = "LIVE"
      BY <2>1, SeatFacts DEF UserInv, ShellInv, FamilyInv
    <3> QED
      BY <3>1, <3>2 DEF ReportInv
  <2>2. ASSUME Head(rest[1]) = "fork" PROVE \A r \in Others : state[r] = "UNUSED"
    <3>1. rest[1] = <<"fork", "wait">>
      <4>1. rest[1] \in {<<"fork", "wait">>, <<"wait">>}
        BY DEF UserInv, ShellInv
      <4> QED
        BY <2>2, <4>1
    <3> QED
      BY <3>1, Prompt
  <2> QED
    BY <2>1, <2>2, SeatFacts DEF User!ReportsTrue, Others
<1> QED
  BY <1>1, UserAlways, PTL DEF ReportsTrue
=============================================================================
