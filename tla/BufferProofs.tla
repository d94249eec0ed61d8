---------------------------- MODULE BufferProofs ----------------------------
(***************************************************************************)
(* Theorems about the two bounded buffers, for every capacity and every    *)
(* number of producers, consumers, items and wakeups without a signal.     *)
(***************************************************************************)
EXTENDS MCBuffers, Sums, SequenceTheorems

Spec == Init /\ [][Next]_vars

-----------------------------------------------------------------------------
(* The ring buffer of both programs: from slot o on, buf holds what is in   *)
(* s and not yet in r, and a is the slot after it.                          *)

Wrap(n) == IF n < capacity THEN n ELSE n - capacity

Ring(buf, a, o, s, r) ==
  /\ buf \in [0 .. capacity - 1 -> Int]
  /\ a \in 0 .. capacity - 1 /\ o \in 0 .. capacity - 1
  /\ s \in Seq(Int) /\ r \in Seq(Int)
  /\ Len(s) - Len(r) \in 0 .. capacity
  /\ a = Wrap(o + (Len(s) - Len(r)))
  /\ \A j \in Nat : j < Len(s) - Len(r) => buf[Wrap(o + j)] = s[Len(r) + j + 1]

LEMMA Capacity == capacity \in Nat /\ capacity > 0
BY BuffersAssumption DEF Cond!CondBufferAssumption

LEMMA Advance == ASSUME NEW n \in 0 .. capacity - 1
                 PROVE  /\ (n + 1) % capacity = Wrap(n + 1)
                        /\ Wrap(n + 1) \in 0 .. capacity - 1
BY Capacity DEF Wrap

LEMMA WrapSum ==
  ASSUME NEW o \in 0 .. capacity - 1, NEW m \in Nat, NEW k \in Nat, m + k <= capacity
  PROVE  Wrap(Wrap(o + m) + k) = Wrap(o + (m + k))
BY Capacity DEF Wrap

LEMMA RingPut ==
  ASSUME NEW buf, NEW a, NEW o, NEW s, NEW r, Ring(buf, a, o, s, r),
         Len(s) - Len(r) < capacity, NEW x \in Int
  PROVE  Ring([buf EXCEPT ![a] = x], (a + 1) % capacity, o, Append(s, x), r)
<1> DEFINE n == Len(s) - Len(r)
           new == [buf EXCEPT ![a] = x]
           t == Append(s, x)
<1>1. /\ a \in 0 .. capacity - 1 /\ o \in 0 .. capacity - 1
      /\ Len(s) \in Nat /\ Len(r) \in Nat /\ n \in 0 .. capacity - 1
      /\ a = Wrap(o + n)
  BY Capacity DEF Ring
<1>2. /\ t \in Seq(Int) /\ Len(t) = Len(s) + 1 /\ t[Len(s) + 1] = x
      /\ \A j \in 1 .. Len(s) : t[j] = s[j]
  BY AppendProperties DEF Ring
<1>3. (a + 1) % capacity = Wrap(o + (n + 1)) /\ (a + 1) % capacity \in 0 .. capacity - 1
  <2>1. Wrap(a + 1) = Wrap(o + (n + 1))
    <3> HIDE DEF n
    <3> QED
      BY <1>1, WrapSum, Capacity
  <2> QED
    BY <1>1, <2>1, Advance
<1>4. ASSUME NEW j \in Nat, j < n + 1 PROVE new[Wrap(o + j)] = t[Len(r) + j + 1]
  <2>1. CASE j = n
    BY <1>1, <1>2, <2>1 DEF Ring
  <2>2. CASE j # n
    <3>1. Wrap(o + j) # a /\ Wrap(o + j) \in 0 .. capacity - 1
      BY <1>1, <1>4, <2>2, Capacity DEF Wrap
    <3>2. buf[Wrap(o + j)] = s[Len(r) + j + 1]
      BY <1>1, <1>4, <2>2 DEF Ring
    <3>3. Len(r) + j + 1 \in 1 .. Len(s)
      BY <1>1, <1>4, <2>2
    <3> QED
      BY <1>2, <3>1, <3>2, <3>3 DEF Ring
  <2> QED
    BY <2>1, <2>2
<1>5. new \in [0 .. capacity - 1 -> Int] /\ r \in Seq(Int)
  BY DEF Ring
<1>6. Len(t) - Len(r) = n + 1 /\ n + 1 \in 0 .. capacity
  BY <1>1, <1>2, Capacity
<1> HIDE DEF n, new, t
<1> QED
  BY <1>1, <1>2, <1>3, <1>4, <1>5, <1>6 DEF Ring, t, new

LEMMA RingGet ==
  ASSUME NEW buf, NEW a, NEW o, NEW s, NEW r, Ring(buf, a, o, s, r),
         Len(r) < Len(s)
  PROVE  /\ buf[o] = s[Len(r) + 1] /\ buf[o] \in Int
         /\ Ring(buf, a, (o + 1) % capacity, s, Append(r, buf[o]))
<1> DEFINE n == Len(s) - Len(r)
           t == Append(r, buf[o])
           p == (o + 1) % capacity
<1>1. /\ a \in 0 .. capacity - 1 /\ o \in 0 .. capacity - 1
      /\ Len(s) \in Nat /\ Len(r) \in Nat /\ n \in 1 .. capacity
      /\ a = Wrap(o + n)
  BY Capacity DEF Ring
<1>2. buf[o] = s[Len(r) + 1] /\ buf[o] \in Int
  <2>1. Wrap(o + 0) = o
    BY <1>1, Capacity DEF Wrap
  <2>2. buf[Wrap(o + 0)] = s[Len(r) + 0 + 1]
    BY <1>1 DEF Ring
  <2> QED
    BY <1>1, <2>1, <2>2 DEF Ring
<1>3. t \in Seq(Int) /\ Len(t) = Len(r) + 1
  BY <1>2, AppendProperties DEF Ring
<1>4. p = Wrap(o + 1) /\ p \in 0 .. capacity - 1
  BY <1>1, Advance
<1>5. a = Wrap(p + (Len(s) - Len(t)))
  <2>1. Len(s) - Len(t) = n - 1 /\ n - 1 \in Nat /\ 1 + (n - 1) = n
    BY <1>1, <1>3
  <2>2. Wrap(Wrap(o + 1) + (n - 1)) = Wrap(o + n)
    <3> HIDE DEF n
    <3> QED
      BY <1>1, <2>1, WrapSum
  <2> QED
    BY <1>1, <1>4, <2>1, <2>2
<1>6. ASSUME NEW j \in Nat, j < Len(s) - Len(t)
      PROVE  buf[Wrap(p + j)] = s[Len(t) + j + 1]
  <2>1. j + 1 \in Nat /\ j + 1 < Len(s) - Len(r) /\ 1 + j <= capacity
    BY <1>1, <1>3, <1>6, Capacity
  <2>2. Wrap(p + j) = Wrap(o + (j + 1))
    BY <1>1, <1>4, <2>1, WrapSum
  <2>3. buf[Wrap(o + (j + 1))] = s[Len(r) + (j + 1) + 1]
    BY <2>1 DEF Ring
  <2>4. Len(r) + (j + 1) + 1 = Len(t) + j + 1
    BY <1>1, <1>3
  <2> QED
    BY <2>2, <2>3, <2>4
<1>7. Len(s) - Len(t) \in 0 .. capacity
  BY <1>1, <1>3, Capacity
<1>8. buf \in [0 .. capacity - 1 -> Int] /\ s \in Seq(Int)
  BY DEF Ring
<1> HIDE DEF n, t, p
<1>9. Ring(buf, a, p, s, t)
  BY <1>1, <1>3, <1>4, <1>5, <1>6, <1>7, <1>8 DEF Ring
<1> QED
  BY <1>2, <1>9 DEF p, t
-----------------------------------------------------------------------------
(* bounded_buffer.c: the threads                                            *)

PutPCs == {"put_lock", "put_test", "put_wait", "put_leave"}
CondWorkers == Cond!Producers \cup Cond!Consumers

(* Threads that main() has not created have not begun; a thread that puts   *)
(* has something left to put.                                               *)
CondPcInv ==
  /\ pc \in [Cond!Threads -> Cond!PCs]
  /\ i \in [Cond!Threads -> Nat]
  /\ pc[Cond!main] = "create" =>
       \A k \in Nat : i[Cond!main] <= k /\ k < NUM_CONSUMERS + NUM_PRODUCERS =>
                        pc[Cond!Created(k)] = "new"
  /\ \A t \in CondWorkers : pc[t] = "new" => i[t] = 0
  /\ \A t \in Cond!Threads :
       pc[t] \in PutPCs => t \notin Cond!Consumers /\ i[t] < Cond!Puts(t)

LEMMA CondConstants ==
  /\ capacity \in Nat /\ capacity > 0
  /\ NUM_PRODUCERS \in Nat /\ NUM_CONSUMERS \in Nat
  /\ PER_PRODUCER \in Nat /\ PER_PRODUCER > 0
BY BuffersAssumption DEF Cond!CondBufferAssumption

LEMMA TaggedFinite ==
  ASSUME NEW tag, NEW m \in Int, NEW n \in Int
  PROVE  IsFiniteSet({tag} \X (m .. n))
<1>1. IsFiniteSet({tag}) /\ IsFiniteSet(m .. n)
  BY FS_Singleton, FS_Interval
<1> QED
  BY <1>1, FS_Product

LEMMA CondThreads ==
  /\ IsFiniteSet(Cond!Threads)
  /\ Cond!Threads = {Cond!main} \cup CondWorkers
  /\ Cond!main \notin CondWorkers
  /\ Cond!Producers \cap Cond!Consumers = {}
<1>1. IsFiniteSet({"producer"} \X (1 .. NUM_PRODUCERS))
  <2>1. 1 \in Int /\ NUM_PRODUCERS \in Int
    BY CondConstants
  <2> QED
    BY <2>1, TaggedFinite
<1>2. IsFiniteSet({"consumer"} \X (0 .. NUM_CONSUMERS - 1))
  <2>1. 0 \in Int /\ NUM_CONSUMERS - 1 \in Int
    BY CondConstants
  <2> QED
    BY <2>1, TaggedFinite
<1>3. IsFiniteSet({Cond!main})
  BY FS_Singleton
<1> USE DEF Cond!Producers, Cond!Consumers, Cond!Threads, CondWorkers
<1>4. IsFiniteSet(Cond!Threads)
  BY <1>1, <1>2, <1>3, FS_Union
<1>5. Cond!main \notin CondWorkers /\ Cond!Producers \cap Cond!Consumers = {}
  BY DEF Cond!main
<1> QED
  BY <1>4, <1>5

LEMMA CondCreated ==
  ASSUME NEW k \in Nat, k < NUM_CONSUMERS + NUM_PRODUCERS
  PROVE  /\ Cond!Created(k) \in CondWorkers
         /\ \A j \in Nat : j < NUM_CONSUMERS + NUM_PRODUCERS /\ j # k
                             => Cond!Created(j) # Cond!Created(k)
BY CondConstants DEF Cond!Created, CondWorkers, Cond!Producers, Cond!Consumers

(* Thread t goes to l; others only from waiting to locking.                 *)
CondMoves(t, l) ==
  /\ pc' \in [Cond!Threads -> Cond!PCs]
  /\ pc'[t] = l
  /\ \A u \in Cond!Threads \ {t} :
       \/ pc'[u] = pc[u]
       \/ pc[u] = "get_wait" /\ pc'[u] = "get_lock"
       \/ pc[u] = "put_wait" /\ pc'[u] = "put_lock"

LEMMA CondGoto ==
  ASSUME CondPcInv, NEW t \in Cond!Threads, NEW l \in Cond!PCs, Cond!Goto(t, l)
  PROVE  CondMoves(t, l) /\ \A u \in Cond!Threads \ {t} : pc'[u] = pc[u]
BY DEF CondPcInv, Cond!Goto, CondMoves

(* A signal wakes one thread that waits for it, if there is any.            *)
Wakes(waiting, lock, t) ==
  \E u \in Cond!Threads \ {t} :
    pc[u] = waiting /\ pc'[u] = lock
    /\ \A v \in Cond!Threads \ {t, u} : pc'[v] = pc[v]

LEMMA CondSignal ==
  ASSUME CondPcInv, NEW t \in Cond!Threads, NEW l \in Cond!PCs,
         NEW waiting, NEW lock,
         <<waiting, lock>> \in {<<"get_wait", "get_lock">>, <<"put_wait", "put_lock">>},
         pc[t] # waiting,
         Cond!SignalAndGoto(waiting, lock, t, l)
  PROVE  /\ CondMoves(t, l)
         /\ \/ Wakes(waiting, lock, t)
            \/ /\ Cond!Waiting(waiting) = {}
               /\ \A u \in Cond!Threads \ {t} : pc'[u] = pc[u]
<1>1. CASE Cond!Waiting(waiting) = {} /\ Cond!Goto(t, l)
  BY <1>1, CondGoto
<1>2. ASSUME NEW u \in Cond!Waiting(waiting),
             pc' = [pc EXCEPT ![u] = lock, ![t] = l]
      PROVE  CondMoves(t, l) /\ Wakes(waiting, lock, t)
  <2>1. u \in Cond!Threads /\ u # t /\ pc[u] = waiting
    BY <1>2 DEF Cond!Waiting
  <2>2. lock \in Cond!PCs
    BY DEF Cond!PCs
  <2>3. /\ pc' \in [Cond!Threads -> Cond!PCs] /\ pc'[t] = l /\ pc'[u] = lock
        /\ \A v \in Cond!Threads \ {t, u} : pc'[v] = pc[v]
    BY <1>2, <2>1, <2>2 DEF CondPcInv
  <2> QED
    BY <2>1, <2>3 DEF CondMoves, Wakes
<1> QED
  BY <1>1, <1>2 DEF Cond!SignalAndGoto

LEMMA CondPCsAre ==
  /\ {"new", "create", "join_producers", "join_consumers", "done"} \subseteq Cond!PCs
  /\ {"put_lock", "put_test", "put_wait", "put_leave"} \subseteq Cond!PCs
  /\ {"get_lock", "get_test", "get_wait", "get_leave"} \subseteq Cond!PCs
BY DEF Cond!PCs

LEMMA NextPutIs ==
  ASSUME NEW t PROVE Cond!NextPut(t) \in {"put_lock", "join_consumers", "done"}
BY DEF Cond!NextPut, Cond!AfterPuts

(* A thread other than main that moves on within its call.                  *)
LEMMA CallMoves ==
  ASSUME CondPcInv, NEW t \in Cond!Threads, NEW l \in Cond!PCs, CondMoves(t, l),
         pc[t] # "new", l \notin {"new", "create"},
         \A u \in Cond!Threads \ {t} : i'[u] = i[u],
         i' \in [Cond!Threads -> Nat],
         l \in PutPCs => t \notin Cond!Consumers /\ i'[t] < Cond!Puts(t)
  PROVE  CondPcInv'
<1> USE CondThreads DEF CondMoves
<1>1. /\ pc' \in [Cond!Threads -> Cond!PCs] /\ i' \in [Cond!Threads -> Nat]
  OBVIOUS
<1>2. ASSUME pc'[Cond!main] = "create", NEW k \in Nat,
             i'[Cond!main] <= k, k < NUM_CONSUMERS + NUM_PRODUCERS
      PROVE  pc'[Cond!Created(k)] = "new"
  <2>1. t # Cond!main /\ pc[Cond!main] = "create" /\ i'[Cond!main] = i[Cond!main]
    BY <1>2
  <2>2. pc[Cond!Created(k)] = "new" /\ Cond!Created(k) \in Cond!Threads
    BY <1>2, <2>1, CondCreated DEF CondPcInv
  <2> QED
    BY <2>2
<1>3. \A u \in CondWorkers : pc'[u] = "new" => i'[u] = 0
  BY DEF CondPcInv
<1>4. ASSUME NEW u \in Cond!Threads, pc'[u] \in PutPCs
      PROVE  u \notin Cond!Consumers /\ i'[u] < Cond!Puts(u)
  <2>1. CASE u = t
    BY <1>4, <2>1
  <2>2. CASE u # t
    <3>1. pc[u] \in PutPCs /\ i'[u] = i[u]
      BY <1>4, <2>2 DEF PutPCs
    <3> QED
      BY <3>1 DEF CondPcInv
  <2> QED
    BY <2>1, <2>2
<1> QED
  BY <1>1, <1>2, <1>3, <1>4 DEF CondPcInv
-----------------------------------------------------------------------------
(* bounded_buffer.c: what each step of a thread does to the counter and to  *)
(* the sets of threads that wait or are on their way to an item or a slot.  *)

Takers == {t \in Cond!Threads : pc[t] \in {"get_lock", "get_test", "put_leave"}}
Putters == {t \in Cond!Threads : pc[t] \in {"put_lock", "put_test", "get_leave"}}
Starving == {t \in Cond!Threads : pc[t] = "get_wait"}
Stuck == {t \in Cond!Threads : pc[t] = "put_wait"}

(* Nobody starts waiting, and nobody on the way is lost.                    *)
NoLoss ==
  /\ count' = count
  /\ Takers \subseteq Takers' /\ Putters \subseteq Putters'
  /\ Starving' \subseteq Starving /\ Stuck' \subseteq Stuck

(* A consumer finds the buffer empty, or a producer finds it full.          *)
FindsEmpty ==
  /\ count = 0 /\ count' = count
  /\ Putters' = Putters /\ Stuck' = Stuck

FindsFull ==
  /\ count = capacity /\ count' = count
  /\ Takers' = Takers /\ Starving' = Starving

Stores(t) ==
  /\ count' = count + 1
  /\ Takers' = Takers \cup {t} /\ t \notin Takers
  /\ Putters' = Putters \ {t} /\ t \in Putters
  /\ Starving' = Starving /\ Stuck' = Stuck

Fetches(t) ==
  /\ count' = count - 1
  /\ Takers' = Takers \ {t} /\ t \in Takers
  /\ Putters' = Putters \cup {t} /\ t \notin Putters
  /\ Starving' = Starving /\ Stuck' = Stuck

(* A signal replaces the signalling thread by the one it wakes.             *)
SignalsTaker(t) ==
  /\ count' = count
  /\ Putters \subseteq Putters' /\ Stuck' = Stuck
  /\ t \in Takers /\ Starving' \subseteq Starving
  /\ \/ Starving' = {}
     \/ \E u \in Cond!Threads : u \notin Takers /\ (Takers \ {t}) \cup {u} \subseteq Takers'

SignalsPutter(t) ==
  /\ count' = count
  /\ Takers \subseteq Takers' /\ Starving' = Starving
  /\ t \in Putters /\ Stuck' \subseteq Stuck
  /\ \/ Stuck' = {}
     \/ \E u \in Cond!Threads : u \notin Putters /\ (Putters \ {t}) \cup {u} \subseteq Putters'

CondEffect ==
  \/ NoLoss \/ FindsEmpty \/ FindsFull
  \/ \E t \in Cond!Threads : Stores(t) \/ Fetches(t) \/ SignalsTaker(t) \/ SignalsPutter(t)

WakeupInv ==
  /\ Starving # {} => count <= Cardinality(Takers)
  /\ Stuck # {} => capacity - count <= Cardinality(Putters)

LEMMA SetsFinite ==
  /\ IsFiniteSet(Takers) /\ IsFiniteSet(Putters)
  /\ IsFiniteSet(Takers') /\ IsFiniteSet(Putters')
  /\ Cardinality(Takers) \in Nat /\ Cardinality(Putters) \in Nat
  /\ Cardinality(Takers') \in Nat /\ Cardinality(Putters') \in Nat
<1>1. /\ IsFiniteSet(Takers) /\ IsFiniteSet(Putters)
      /\ IsFiniteSet(Takers') /\ IsFiniteSet(Putters')
  BY CondThreads, FS_Subset DEF Takers, Putters
<1> QED
  BY <1>1, FS_CardinalityType

LEMMA Exchange ==
  ASSUME NEW S, IsFiniteSet(S), NEW T, IsFiniteSet(T), NEW t \in S, NEW u,
         u \notin S, (S \ {t}) \cup {u} \subseteq T
  PROVE  Cardinality(S) <= Cardinality(T)
<1> DEFINE R == S \ {t}
<1>1. IsFiniteSet(R) /\ Cardinality(R) = Cardinality(S) - 1 /\ Cardinality(S) \in Nat
  BY FS_RemoveElement, FS_CardinalityType
<1>2. u \notin R /\ R \cup {u} \subseteq T
  OBVIOUS
<1> HIDE DEF R
<1>3. Cardinality(R \cup {u}) = Cardinality(R) + 1
  BY <1>1, <1>2, FS_AddElement
<1>4. Cardinality(R \cup {u}) <= Cardinality(T)
  BY <1>2, FS_Subset
<1> QED
  BY <1>1, <1>3, <1>4

LEMMA WakeupStep ==
  ASSUME WakeupInv, count \in Int, CondEffect
  PROVE  WakeupInv'
<1> USE SetsFinite, CondConstants DEF WakeupInv
<1>1. CASE NoLoss
  <2>1. Cardinality(Takers) <= Cardinality(Takers') /\ Cardinality(Putters) <= Cardinality(Putters')
    BY <1>1, FS_Subset DEF NoLoss
  <2> QED
    BY <1>1, <2>1 DEF NoLoss
<1>2. CASE FindsEmpty
  BY <1>2 DEF FindsEmpty
<1>3. CASE FindsFull
  BY <1>3 DEF FindsFull
<1>4. ASSUME NEW t \in Cond!Threads, Stores(t) PROVE WakeupInv'
  <2>1. /\ Cardinality(Takers') = Cardinality(Takers) + 1
        /\ Cardinality(Putters') = Cardinality(Putters) - 1
    BY <1>4, FS_AddElement, FS_RemoveElement DEF Stores
  <2> QED
    BY <1>4, <2>1 DEF Stores
<1>5. ASSUME NEW t \in Cond!Threads, Fetches(t) PROVE WakeupInv'
  <2>1. /\ Cardinality(Takers') = Cardinality(Takers) - 1
        /\ Cardinality(Putters') = Cardinality(Putters) + 1
    BY <1>5, FS_AddElement, FS_RemoveElement DEF Fetches
  <2> QED
    BY <1>5, <2>1 DEF Fetches
<1>6. ASSUME NEW t \in Cond!Threads, SignalsTaker(t) PROVE WakeupInv'
  <2>1. Cardinality(Putters) <= Cardinality(Putters')
    BY <1>6, FS_Subset DEF SignalsTaker
  <2>2. Starving' = {} \/ Cardinality(Takers) <= Cardinality(Takers')
    BY <1>6, Exchange DEF SignalsTaker
  <2> QED
    BY <1>6, <2>1, <2>2 DEF SignalsTaker
<1>7. ASSUME NEW t \in Cond!Threads, SignalsPutter(t) PROVE WakeupInv'
  <2>1. Cardinality(Takers) <= Cardinality(Takers')
    BY <1>7, FS_Subset DEF SignalsPutter
  <2>2. Stuck' = {} \/ Cardinality(Putters) <= Cardinality(Putters')
    BY <1>7, Exchange DEF SignalsPutter
  <2> QED
    BY <1>7, <2>1, <2>2 DEF SignalsPutter
<1> QED
  BY <1>1, <1>2, <1>3, <1>4, <1>5, <1>6, <1>7 DEF CondEffect
-----------------------------------------------------------------------------
(* bounded_buffer.c: the steps                                              *)

TakerPCs == {"get_lock", "get_test", "put_leave"}
PutterPCs == {"put_lock", "put_test", "get_leave"}

LEMMA MovesNoLoss ==
  ASSUME NEW t \in Cond!Threads, NEW l, CondMoves(t, l), count' = count,
         pc[t] \in TakerPCs => l \in TakerPCs,
         pc[t] \in PutterPCs => l \in PutterPCs,
         l \notin {"get_wait", "put_wait"}
  PROVE  NoLoss
BY DEF CondMoves, NoLoss, Takers, Putters, Starving, Stuck, TakerPCs, PutterPCs

LEMMA MainStep ==
  ASSUME CondPcInv, Cond!Main
  PROVE  CondPcInv' /\ NoLoss
<1> USE CondThreads, CondPCsAre DEF TakerPCs, PutterPCs
<1>1. CASE Cond!Create
  <2> DEFINE k == i[Cond!main]
             t == Cond!Created(k)
             l == IF t \in Cond!Consumers THEN "get_lock" ELSE "put_lock"
  <2>1. /\ pc[Cond!main] = "create" /\ k \in Nat /\ k < NUM_CONSUMERS + NUM_PRODUCERS
        /\ Cond!Goto(t, l) /\ i' = [i EXCEPT ![Cond!main] = @ + 1] /\ count' = count
    BY <1>1 DEF Cond!Create, CondPcInv, Cond!dataVars
  <2>2. t \in CondWorkers /\ t \in Cond!Threads /\ t # Cond!main /\ pc[t] = "new"
    BY <2>1, CondCreated DEF CondPcInv
  <2>3. \A j \in Nat : j < NUM_CONSUMERS + NUM_PRODUCERS /\ j # k =>
          Cond!Created(j) # t /\ Cond!Created(j) \in Cond!Threads
    BY <2>1, CondCreated
  <2>4. l \in Cond!PCs /\ (l = "get_lock" \/ (l = "put_lock" /\ t \notin Cond!Consumers))
    OBVIOUS
  <2>5. CondMoves(t, l) /\ \A u \in Cond!Threads \ {t} : pc'[u] = pc[u]
    BY <2>1, <2>2, <2>4, CondGoto
  <2> HIDE DEF t, l
  <2>6. NoLoss
    BY <2>1, <2>2, <2>4, <2>5, MovesNoLoss
  <2>7. i[t] = 0 /\ (t \notin Cond!Consumers => 0 < Cond!Puts(t))
    BY <2>2, CondConstants DEF CondPcInv, Cond!Puts
  <2>8. /\ i' \in [Cond!Threads -> Nat]
        /\ \A u \in Cond!Threads \ {Cond!main} : i'[u] = i[u]
        /\ i'[Cond!main] = k + 1
    BY <2>1 DEF CondPcInv
  <2>9. pc'[Cond!main] = "create" /\ pc' \in [Cond!Threads -> Cond!PCs] /\ pc'[t] = l
    BY <2>1, <2>2, <2>5 DEF CondMoves
  <2>10. \A j \in Nat : k + 1 <= j /\ j < NUM_CONSUMERS + NUM_PRODUCERS =>
           pc'[Cond!Created(j)] = "new"
    BY <2>1, <2>3, <2>5, CondConstants DEF CondPcInv
  <2>11. \A u \in CondWorkers : pc'[u] = "new" => i'[u] = 0
    BY <2>2, <2>4, <2>5, <2>8, <2>9 DEF CondPcInv
  <2>12. \A u \in Cond!Threads :
           pc'[u] \in PutPCs => u \notin Cond!Consumers /\ i'[u] < Cond!Puts(u)
    BY <2>1, <2>2, <2>4, <2>5, <2>7, <2>8, <2>9 DEF CondPcInv, PutPCs
  <2>13. CondPcInv'
    <3> HIDE DEF k
    <3> QED
      BY <2>8, <2>9, <2>10, <2>11, <2>12 DEF CondPcInv
  <2> QED
    BY <2>6, <2>13
<1>2. CASE Cond!AllCreated
  <2>1. /\ pc[Cond!main] = "create" /\ Cond!Goto(Cond!main, "join_producers")
        /\ i' = i /\ count' = count
    BY <1>2 DEF Cond!AllCreated, Cond!dataVars
  <2>2. CondMoves(Cond!main, "join_producers")
    BY <2>1, CondGoto
  <2>3. "join_producers" \notin PutPCs /\ i \in [Cond!Threads -> Nat]
    BY DEF PutPCs, CondPcInv
  <2> QED
    BY <2>1, <2>2, <2>3, MovesNoLoss, CallMoves
<1>3. CASE Cond!JoinProducers
  <2>1. PICK l \in {"put_lock", "join_consumers"} :
          /\ l = "put_lock" => NUM_CONSUMERS > 0
          /\ Cond!Goto(Cond!main, l)
    BY <1>3 DEF Cond!JoinProducers
  <2>2. /\ pc[Cond!main] = "join_producers" /\ count' = count
        /\ i' = [i EXCEPT ![Cond!main] = 0]
    BY <1>3 DEF Cond!JoinProducers, Cond!dataVars
  <2>3. CondMoves(Cond!main, l)
    BY <2>1, CondGoto
  <2>4. /\ i' \in [Cond!Threads -> Nat] /\ i'[Cond!main] = 0
        /\ \A u \in Cond!Threads \ {Cond!main} : i'[u] = i[u]
    BY <2>2 DEF CondPcInv
  <2>5. l \in PutPCs => Cond!main \notin Cond!Consumers /\ 0 < Cond!Puts(Cond!main)
    BY <2>1 DEF PutPCs, Cond!Puts, CondWorkers
  <2> QED
    BY <2>1, <2>2, <2>3, <2>4, <2>5, MovesNoLoss, CallMoves
<1>4. CASE Cond!JoinConsumers
  <2>1. /\ pc[Cond!main] = "join_consumers" /\ Cond!Goto(Cond!main, "done")
        /\ i' = i /\ count' = count
    BY <1>4 DEF Cond!JoinConsumers, Cond!dataVars
  <2>2. CondMoves(Cond!main, "done")
    BY <2>1, CondGoto
  <2>3. "done" \notin PutPCs /\ i \in [Cond!Threads -> Nat]
    BY DEF PutPCs, CondPcInv
  <2> QED
    BY <2>1, <2>2, <2>3, MovesNoLoss, CallMoves
<1> QED
  BY <1>1, <1>2, <1>3, <1>4 DEF Cond!Main

(* Locking, and a wakeup without a signal.                                  *)
LEMMA LockStep ==
  ASSUME CondPcInv, NEW t \in Cond!Threads,
         \/ Cond!Lock(t, "put_lock", "put_test") \/ Cond!Lock(t, "get_lock", "get_test")
         \/ Cond!Spurious(t, "put_wait", "put_lock")
         \/ Cond!Spurious(t, "get_wait", "get_lock")
  PROVE  CondPcInv' /\ NoLoss
<1>1. PICK here, l :
        /\ <<here, l>> \in {<<"put_lock", "put_test">>, <<"get_lock", "get_test">>,
                            <<"put_wait", "put_lock">>, <<"get_wait", "get_lock">>}
        /\ pc[t] = here /\ Cond!Goto(t, l) /\ i' = i /\ count' = count
  BY DEF Cond!Lock, Cond!Spurious, Cond!dataVars
<1>2. l \in Cond!PCs /\ CondMoves(t, l)
  BY <1>1, CondPCsAre, CondGoto
<1>3. l \in PutPCs => t \notin Cond!Consumers /\ i[t] < Cond!Puts(t)
  BY <1>1 DEF PutPCs, CondPcInv
<1>4. CondPcInv'
  BY <1>1, <1>2, <1>3, CallMoves DEF CondPcInv
<1>5. NoLoss
  BY <1>1, <1>2, MovesNoLoss DEF TakerPCs, PutterPCs
<1> QED
  BY <1>4, <1>5

LEMMA WaitStep ==
  ASSUME CondPcInv, NEW t \in Cond!Threads, Cond!PutWait(t) \/ Cond!GetWait(t)
  PROVE  CondPcInv' /\ (FindsEmpty \/ FindsFull)
<1>1. CASE Cond!PutWait(t)
  <2>1. /\ count = capacity /\ count' = count /\ i' = i
        /\ pc[t] = "put_test" /\ Cond!Goto(t, "put_wait")
    BY <1>1 DEF Cond!PutWait, Cond!cond_wait, Cond!dataVars
  <2>2. CondMoves(t, "put_wait") /\ \A u \in Cond!Threads \ {t} : pc'[u] = pc[u]
    BY <2>1, CondPCsAre, CondGoto
  <2>3. FindsFull
    BY <2>1, <2>2 DEF CondMoves, FindsFull, Takers, Starving
  <2>4. CondPcInv'
    BY <2>1, <2>2, CondPCsAre, CallMoves DEF CondPcInv, PutPCs
  <2> QED
    BY <2>3, <2>4
<1>2. CASE Cond!GetWait(t)
  <2>1. /\ count = 0 /\ count' = count /\ i' = i
        /\ pc[t] = "get_test" /\ Cond!Goto(t, "get_wait")
    BY <1>2 DEF Cond!GetWait, Cond!cond_wait, Cond!dataVars
  <2>2. CondMoves(t, "get_wait") /\ \A u \in Cond!Threads \ {t} : pc'[u] = pc[u]
    BY <2>1, CondPCsAre, CondGoto
  <2>3. FindsEmpty
    BY <2>1, <2>2 DEF CondMoves, FindsEmpty, Putters, Stuck
  <2>4. CondPcInv'
    BY <2>1, <2>2, CondPCsAre, CallMoves DEF CondPcInv, PutPCs
  <2> QED
    BY <2>3, <2>4
<1> QED
  BY <1>1, <1>2

LEMMA StoreStep ==
  ASSUME CondPcInv, NEW t \in Cond!Threads, Cond!PutStore(t)
  PROVE  CondPcInv' /\ Stores(t)
<1>1. /\ pc[t] = "put_test" /\ Cond!Goto(t, "put_leave") /\ i' = i /\ count' = count + 1
  BY DEF Cond!PutStore
<1>2. CondMoves(t, "put_leave") /\ \A u \in Cond!Threads \ {t} : pc'[u] = pc[u]
  BY <1>1, CondPCsAre, CondGoto
<1>3. Stores(t)
  BY <1>1, <1>2 DEF CondMoves, Stores, Takers, Putters, Starving, Stuck
<1>4. CondPcInv'
  BY <1>1, <1>2, CondPCsAre, CallMoves DEF CondPcInv, PutPCs
<1> QED
  BY <1>3, <1>4

LEMMA FetchStep ==
  ASSUME CondPcInv, NEW t \in Cond!Threads, Cond!GetFetch(t)
  PROVE  CondPcInv' /\ Fetches(t)
<1>1. /\ pc[t] = "get_test" /\ Cond!Goto(t, "get_leave") /\ i' = i /\ count' = count - 1
  BY DEF Cond!GetFetch
<1>2. CondMoves(t, "get_leave") /\ \A u \in Cond!Threads \ {t} : pc'[u] = pc[u]
  BY <1>1, CondPCsAre, CondGoto
<1>3. Fetches(t)
  BY <1>1, <1>2 DEF CondMoves, Fetches, Takers, Putters, Starving, Stuck
<1>4. CondPcInv'
  BY <1>1, <1>2, CondPCsAre, CallMoves DEF CondPcInv, PutPCs
<1> QED
  BY <1>3, <1>4

LEMMA PutLeaveStep ==
  ASSUME CondPcInv, NEW t \in Cond!Threads, Cond!PutLeave(t)
  PROVE  CondPcInv' /\ SignalsTaker(t)
<1> DEFINE l == Cond!NextPut(t)
<1>1. /\ pc[t] = "put_leave" /\ Cond!SignalAndGoto("get_wait", "get_lock", t, l)
      /\ i' = [i EXCEPT ![t] = @ + 1] /\ count' = count
  BY DEF Cond!PutLeave, Cond!SignalGet, Cond!dataVars
<1>2. l \in {"put_lock", "join_consumers", "done"} /\ l \in Cond!PCs
  BY NextPutIs, CondPCsAre
<1>3. l = "put_lock" => i[t] + 1 < Cond!Puts(t)
  BY DEF Cond!NextPut, Cond!AfterPuts
<1> HIDE DEF l
<1>4. /\ CondMoves(t, l)
      /\ \/ Wakes("get_wait", "get_lock", t)
         \/ /\ Cond!Waiting("get_wait") = {}
            /\ \A u \in Cond!Threads \ {t} : pc'[u] = pc[u]
  BY <1>1, <1>2, CondSignal
<1>5. /\ i' \in [Cond!Threads -> Nat] /\ i'[t] = i[t] + 1
      /\ \A u \in Cond!Threads \ {t} : i'[u] = i[u]
  BY <1>1 DEF CondPcInv
<1>6. CondPcInv'
  <2>1. l \in PutPCs => t \notin Cond!Consumers /\ i'[t] < Cond!Puts(t)
    BY <1>1, <1>2, <1>3, <1>5 DEF CondPcInv, PutPCs
  <2> QED
    BY <1>1, <1>2, <1>4, <1>5, <2>1, CallMoves
<1>7. SignalsTaker(t)
  <2>1. CASE Wakes("get_wait", "get_lock", t)
    BY <1>1, <1>2, <1>4, <2>1
    DEF CondMoves, Wakes, SignalsTaker, Takers, Putters, Starving, Stuck
  <2>2. CASE /\ Cond!Waiting("get_wait") = {}
             /\ \A u \in Cond!Threads \ {t} : pc'[u] = pc[u]
    BY <1>1, <1>2, <1>4, <2>2
    DEF CondMoves, SignalsTaker, Takers, Putters, Starving, Stuck, Cond!Waiting
  <2> QED
    BY <1>4, <2>1, <2>2
<1> QED
  BY <1>6, <1>7

LEMMA GetLeaveStep ==
  ASSUME CondPcInv, NEW t \in Cond!Threads, Cond!GetLeave(t), t \in Cond!Consumers
  PROVE  CondPcInv' /\ SignalsPutter(t)
<1>1. PICK l \in {"done", "get_lock"} :
        Cond!SignalAndGoto("put_wait", "put_lock", t, l)
  BY DEF Cond!GetLeave
<1>2. pc[t] = "get_leave" /\ i' = i /\ count' = count
  BY DEF Cond!GetLeave, Cond!dataVars
<1>3. l \in Cond!PCs
  BY CondPCsAre
<1>4. /\ CondMoves(t, l)
      /\ \/ Wakes("put_wait", "put_lock", t)
         \/ /\ Cond!Waiting("put_wait") = {}
            /\ \A u \in Cond!Threads \ {t} : pc'[u] = pc[u]
  BY <1>1, <1>2, <1>3, CondSignal
<1>5. CondPcInv'
  BY <1>2, <1>3, <1>4, CallMoves DEF CondPcInv, PutPCs
<1>6. SignalsPutter(t)
  <2>1. CASE Wakes("put_wait", "put_lock", t)
    BY <1>2, <1>4, <2>1
    DEF CondMoves, Wakes, SignalsPutter, Takers, Putters, Starving, Stuck
  <2>2. CASE /\ Cond!Waiting("put_wait") = {}
             /\ \A u \in Cond!Threads \ {t} : pc'[u] = pc[u]
    BY <1>2, <1>4, <2>2
    DEF CondMoves, SignalsPutter, Takers, Putters, Starving, Stuck, Cond!Waiting
  <2> QED
    BY <1>4, <2>1, <2>2
<1> QED
  BY <1>5, <1>6
LEMMA CondNextStep ==
  ASSUME CondPcInv, Cond!Next
  PROVE  CondPcInv' /\ CondEffect
<1>1. ASSUME NEW t \in Cond!Threads, Cond!Thread(t)
      PROVE  CondPcInv' /\ CondEffect
  BY <1>1, MainStep, LockStep, WaitStep, StoreStep, FetchStep, PutLeaveStep, GetLeaveStep
  DEF Cond!Thread, Cond!PutLock, Cond!GetLock, CondEffect
<1> QED
  BY <1>1, LockStep DEF Cond!Next, CondEffect

-----------------------------------------------------------------------------
(* bounded_buffer.c: the contents of the buffer                             *)

CondRing ==
  /\ Ring(buffer, in, out, sent, received)
  /\ count = Len(sent) - Len(received)

LEMMA CondItem ==
  ASSUME CondPcInv, NEW t \in Cond!Threads, pc[t] \in PutPCs
  PROVE  Cond!Item(t) \in Cond!Items /\ Cond!Item(t) \in Int
<1>1. CASE t = Cond!main
  BY <1>1 DEF Cond!Item, Cond!Items, Cond!STOP
<1>2. CASE t # Cond!main
  <2>1. t \in Cond!Producers
    BY <1>2, CondThreads DEF CondPcInv, CondWorkers
  <2>2. PICK n \in 1 .. NUM_PRODUCERS : t = <<"producer", n>>
    BY <2>1 DEF Cond!Producers
  <2>3. i[t] \in 0 .. PER_PRODUCER - 1
    BY <1>2, CondConstants DEF CondPcInv, Cond!Puts
  <2>4. Cond!Item(t) = n * 1000 + i[t]
    BY <1>2, <2>2 DEF Cond!Item
  <2> QED
    BY <2>2, <2>3, <2>4, CondConstants DEF Cond!Items
<1> QED
  BY <1>1, <1>2

LEMMA CondStore ==
  ASSUME CondPcInv, CondRing, NEW t \in Cond!Threads, Cond!PutStore(t)
  PROVE  CondRing' /\ Chan!Next
<1> DEFINE x == Cond!Item(t)
<1>1. /\ pc[t] = "put_test" /\ count # capacity
      /\ buffer' = [buffer EXCEPT ![in] = x] /\ in' = (in + 1) % capacity
      /\ out' = out /\ count' = count + 1
      /\ sent' = Append(sent, x) /\ received' = received
  BY DEF Cond!PutStore
<1>2. x \in Cond!Items /\ x \in Int
  BY <1>1, CondItem DEF PutPCs
<1> HIDE DEF x
<1>3. /\ Len(sent) - Len(received) < capacity
      /\ Len(sent) \in Nat /\ Len(received) \in Nat
      /\ sent \in Seq(Int)
  <2>1. /\ Len(sent) \in Nat /\ Len(received) \in Nat
        /\ sent \in Seq(Int)
    BY DEF CondRing, Ring
  <2>2. Len(sent) - Len(received) \in 0 .. capacity /\ Len(sent) - Len(received) # capacity
    BY <1>1 DEF CondRing, Ring
  <2> QED
    BY <2>1, <2>2, CondConstants
<1>4. Ring(buffer', in', out', sent', received')
  BY <1>1, <1>2, <1>3, RingPut DEF CondRing
<1>5. Len(sent') = Len(sent) + 1
  BY <1>1, <1>2, <1>3, AppendProperties
<1>6. CondRing'
  BY <1>1, <1>3, <1>4, <1>5 DEF CondRing
<1>7. Chan!Put(x)
  BY <1>1, <1>3 DEF Chan!Put
<1> QED
  BY <1>2, <1>6, <1>7 DEF Chan!Next

LEMMA CondFetch ==
  ASSUME CondRing, NEW t, Cond!GetFetch(t)
  PROVE  CondRing' /\ Chan!Next
<1>1. /\ count # 0 /\ buffer' = buffer /\ in' = in
      /\ out' = (out + 1) % capacity /\ count' = count - 1
      /\ received' = Append(received, buffer[out]) /\ sent' = sent
  BY DEF Cond!GetFetch, Cond!MayTake
<1>2. Len(received) < Len(sent) /\ Len(sent) \in Nat /\ Len(received) \in Nat
  BY <1>1, CondConstants DEF CondRing, Ring
<1>3. /\ buffer[out] = sent[Len(received) + 1] /\ buffer[out] \in Int
      /\ Ring(buffer', in', out', sent', received')
  BY <1>1, <1>2, RingGet DEF CondRing
<1>4. Len(received') = Len(received) + 1
  BY <1>1, <1>3, AppendProperties DEF CondRing, Ring
<1>5. CondRing'
  BY <1>1, <1>2, <1>3, <1>4 DEF CondRing
<1>6. Chan!Get
  BY <1>1, <1>2, <1>3 DEF Chan!Get
<1> QED
  BY <1>5, <1>6 DEF Chan!Next

LEMMA CondRingStep ==
  ASSUME CondPcInv, CondRing, Cond!Next
  PROVE  CondRing' /\ [Chan!Next]_(Chan!vars)
<1> DEFINE Same == UNCHANGED <<Cond!dataVars, sent, received>>
<1>1. Same => CondRing' /\ UNCHANGED Chan!vars
  BY DEF CondRing, Cond!dataVars, Chan!vars
<1>2. ASSUME NEW t \in Cond!Threads, Cond!Thread(t)
      PROVE  Same \/ Cond!PutStore(t) \/ Cond!GetFetch(t)
  BY <1>2 DEF Cond!Thread, Cond!Main, Cond!Create, Cond!AllCreated, Cond!JoinProducers,
     Cond!JoinConsumers, Cond!PutLock, Cond!GetLock, Cond!Lock, Cond!PutWait,
     Cond!GetWait, Cond!cond_wait, Cond!PutLeave, Cond!GetLeave
<1>3. ASSUME NEW t \in Cond!Threads, NEW waiting, NEW lock, Cond!Spurious(t, waiting, lock)
      PROVE  Same
  BY <1>3 DEF Cond!Spurious
<1> HIDE DEF Same
<1> QED
  BY <1>1, <1>2, <1>3, CondStore, CondFetch DEF Cond!Next

-----------------------------------------------------------------------------
(* bounded_buffer.c: the invariant                                          *)

CondInv == CondPcInv /\ WakeupInv /\ CondRing

LEMMA RingInit ==
  Ring([k \in 0 .. capacity - 1 |-> 0], 0, 0, <<>>, <<>>)
BY Capacity DEF Ring, Wrap

LEMMA CondInit == Cond!Init => CondInv
<1> SUFFICES ASSUME Cond!Init PROVE CondInv
  OBVIOUS
<1>1. CondPcInv
  <2>1. pc = [t \in Cond!Threads |-> IF t = Cond!main THEN "create" ELSE "new"]
        /\ i = [t \in Cond!Threads |-> 0]
    BY DEF Cond!Init
  <2>2. \A t \in CondWorkers : t \in Cond!Threads /\ pc[t] = "new"
    BY <2>1, CondThreads
  <2> QED
    BY <2>1, <2>2, CondThreads, CondCreated, CondPCsAre DEF CondPcInv, PutPCs
<1>2. WakeupInv
  BY DEF Cond!Init, WakeupInv, Starving, Stuck
<1>3. CondRing
  BY RingInit DEF Cond!Init, CondRing, Cond!Garbage
<1> QED
  BY <1>1, <1>2, <1>3 DEF CondInv

LEMMA CondStep == ASSUME CondInv, Cond!Next PROVE CondInv' /\ [Chan!Next]_(Chan!vars)
<1>1. CondPcInv' /\ CondEffect
  BY CondNextStep DEF CondInv
<1>2. count \in Int
  BY DEF CondInv, CondRing, Ring
<1>3. WakeupInv'
  BY <1>1, <1>2, WakeupStep DEF CondInv
<1> QED
  BY <1>1, <1>3, CondRingStep DEF CondInv

LEMMA CondCardinality == ASSUME NEW S PROVE Cond!Cardinality(S) = Cardinality(S)
BY DEF Cond!Cardinality, Cardinality, Cond!IsFiniteSet, IsFiniteSet

LEMMA CondWakeups == CondInv => Cond!NoLostWakeup
BY CondCardinality DEF CondInv, WakeupInv, Cond!NoLostWakeup, Starving, Stuck, Takers, Putters,
       Cond!Waiting, Cond!AwakeIn
-----------------------------------------------------------------------------
(* sem_buffer.c: the threads                                                *)

SemWorkers == Sem!Producers \cup Sem!Consumers
SemPCs == {"new", "create", "start", "wait", "lock", "access", "index", "post", "done"}
CallPCs == {"wait", "lock", "access", "index", "post"}

(* A thread knows its id once it has begun; its calls are numbered.         *)
SemPcInv ==
  /\ pc \in [Sem!Threads -> SemPCs]
  /\ i \in [Sem!Threads -> Nat]
  /\ id \in [Sem!Threads -> Int]
  /\ thread_ids \in [1 .. SEM_PRODUCERS -> Int]
  /\ \A t \in SemWorkers :
       /\ pc[t] # "create"
       /\ pc[t] # "new" => thread_ids[t[2]] = t[2]
       /\ pc[t] \notin {"new", "start"} => id[t] = t[2]
       /\ pc[t] \in {"new", "start"} => i[t] = 0
       /\ pc[t] \in CallPCs => i[t] < ITEMS_PER_PRODUCER
       /\ pc[t] = "done" => i[t] = ITEMS_PER_PRODUCER
  /\ pc[Sem!main] \in {"create", "done"}
  /\ pc[Sem!main] = "done" => \A t \in SemWorkers : pc[t] = "done"

(* The mutex is held between the lock and the advance of an index.          *)
MutexInv == \A t \in Sem!Threads : pc[t] \in {"access", "index"} <=> mutex = t

LEMMA SemConstants ==
  /\ capacity \in Nat /\ capacity > 0
  /\ SEM_PRODUCERS \in Nat /\ SEM_CONSUMERS = SEM_PRODUCERS
  /\ ITEMS_PER_PRODUCER \in 1 .. 100
  /\ None \notin Sem!Threads
BY BuffersAssumption DEF Sem!SemBufferAssumption

LEMMA SemThreads ==
  /\ IsFiniteSet(Sem!Threads) /\ IsFiniteSet(Sem!Producers) /\ IsFiniteSet(Sem!Consumers)
  /\ Sem!Threads = {Sem!main} \cup SemWorkers
  /\ Sem!main \notin SemWorkers
  /\ Sem!Producers \cap Sem!Consumers = {}
  /\ \A t \in SemWorkers : t[2] \in 1 .. SEM_PRODUCERS
<1>0. 1 \in Int /\ SEM_PRODUCERS \in Int /\ SEM_CONSUMERS \in Int
  BY SemConstants
<1>1. IsFiniteSet({"producer"} \X (1 .. SEM_PRODUCERS))
  BY <1>0, TaggedFinite
<1>2. IsFiniteSet({"consumer"} \X (1 .. SEM_CONSUMERS))
  BY <1>0, TaggedFinite
<1>3. IsFiniteSet({Sem!main})
  BY FS_Singleton
<1> USE DEF Sem!Producers, Sem!Consumers, Sem!Threads, SemWorkers
<1>4. IsFiniteSet(Sem!Threads) /\ IsFiniteSet(Sem!Producers) /\ IsFiniteSet(Sem!Consumers)
  BY <1>1, <1>2, <1>3, FS_Union
<1>5. Sem!main \notin SemWorkers /\ Sem!Producers \cap Sem!Consumers = {}
  BY DEF Sem!main
<1>6. \A t \in SemWorkers : t[2] \in 1 .. SEM_PRODUCERS
  BY SemConstants
<1> QED
  BY <1>4, <1>5, <1>6

LEMMA SemCreated ==
  ASSUME NEW k \in Nat, k < SEM_CONSUMERS + SEM_PRODUCERS
  PROVE  Sem!Created(k) \in SemWorkers
BY SemConstants DEF Sem!Created, SemWorkers, Sem!Producers, Sem!Consumers

LEMMA SemPCsAre ==
  {"start", "wait", "lock", "access", "index", "post", "done"} \subseteq SemPCs
BY DEF SemPCs

(* A thread t goes on from one point to the next, and nobody else moves.    *)
SemMoves(t, here, l) ==
  /\ pc[t] = here /\ pc'[t] = l
  /\ pc' \in [Sem!Threads -> SemPCs]
  /\ \A u \in Sem!Threads \ {t} : pc'[u] = pc[u]

LEMMA SemStepMoves ==
  ASSUME SemPcInv, NEW t \in Sem!Threads, NEW here, NEW l \in SemPCs, Sem!Step(t, here, l)
  PROVE  SemMoves(t, here, l)
BY DEF SemPcInv, Sem!Step, SemMoves

(* The steps of a call.                                                     *)
CallStep(t) ==
  \E m \in {<<"wait", "lock">>, <<"lock", "access">>, <<"access", "index">>, <<"index", "post">>} :
    /\ SemMoves(t, m[1], m[2])
    /\ UNCHANGED <<i, id, thread_ids>>

LEMMA CallStepPc ==
  ASSUME SemPcInv, NEW t \in SemWorkers, CallStep(t)
  PROVE  SemPcInv'
<1>1. PICK here, l :
        /\ <<here, l>> \in {<<"wait", "lock">>, <<"lock", "access">>,
                            <<"access", "index">>, <<"index", "post">>}
        /\ SemMoves(t, here, l) /\ UNCHANGED <<i, id, thread_ids>>
  BY DEF CallStep
<1> QED
  BY <1>1, SemThreads DEF SemPcInv, SemMoves, CallPCs

LEMMA NextCallPc ==
  ASSUME SemPcInv, NEW t \in SemWorkers, Sem!NextCall(t)
  PROVE  /\ SemPcInv'
         /\ SemMoves(t, "post", IF i[t] + 1 < ITEMS_PER_PRODUCER THEN "wait" ELSE "done")
<1> DEFINE l == IF i[t] + 1 < ITEMS_PER_PRODUCER THEN "wait" ELSE "done"
<1>1. l \in SemPCs /\ t \in Sem!Threads
  BY SemThreads DEF SemPCs
<1>2. Sem!Step(t, "post", l) /\ i' = [i EXCEPT ![t] = @ + 1] /\ UNCHANGED <<id, thread_ids>>
  BY DEF Sem!NextCall, Sem!ids
<1>3. SemMoves(t, "post", l)
  BY <1>1, <1>2, SemStepMoves
<1>4. /\ i' \in [Sem!Threads -> Nat] /\ i'[t] = i[t] + 1 /\ i[t] \in Nat
      /\ \A u \in Sem!Threads \ {t} : i'[u] = i[u]
  BY <1>1, <1>2 DEF SemPcInv
<1>5. i[t] < ITEMS_PER_PRODUCER
  BY <1>3 DEF SemMoves, SemPcInv, CallPCs
<1>6. /\ l = "wait" => i'[t] < ITEMS_PER_PRODUCER
      /\ l = "done" => i'[t] = ITEMS_PER_PRODUCER
      /\ l \in {"wait", "done"}
  BY <1>4, <1>5, SemConstants
<1> HIDE DEF l
<1>7. SemPcInv'
  BY <1>1, <1>2, <1>3, <1>4, <1>6, SemThreads DEF SemPcInv, SemMoves, CallPCs
<1> QED
  BY <1>3, <1>7 DEF l
-----------------------------------------------------------------------------
(* sem_buffer.c: the semaphores count the slots that no thread has claimed, *)
(* and the items that are complete and that no consumer has claimed.        *)

Inside == {t \in Sem!Threads : pc[t] \in {"lock", "access", "index", "post"}}
Filled == {t \in Sem!Producers : pc[t] \in {"index", "post"}}
Claiming == {t \in Sem!Consumers : pc[t] \in {"lock", "access"}}

Balance(empty, full, inside, filled, claiming, s, r) ==
  /\ empty \in Nat /\ full \in Nat
  /\ empty + full + inside = capacity
  /\ s - r = full + filled + claiming

SlotInv ==
  Balance(empty_slots, full_slots, Cardinality(Inside), Cardinality(Filled),
          Cardinality(Claiming), Len(sent), Len(received))

LengthsOK == Len(sent) \in Nat /\ Len(received) \in Nat

SameSlots == UNCHANGED <<empty_slots, full_slots>>
SameHistory == UNCHANGED <<sent, received>>

(* What the six steps that matter do to the balance.                        *)
LEMMA BalanceSteps ==
  ASSUME NEW e \in Nat, NEW f \in Nat, NEW n \in Nat, NEW a \in Nat, NEW b \in Nat,
         NEW s \in Nat, NEW r \in Nat, Balance(e, f, n, a, b, s, r)
  PROVE  /\ e > 0 => Balance(e - 1, f, n + 1, a, b, s, r)
         /\ f > 0 => Balance(e, f - 1, n + 1, a, b + 1, s, r)
         /\ Balance(e, f, n, a + 1, b, s + 1, r)
         /\ Balance(e, f, n, a, b - 1, s, r + 1)
         /\ Balance(e, f + 1, n - 1, a - 1, b, s, r)
         /\ Balance(e + 1, f, n - 1, a, b, s, r)
         /\ a + b + 1 <= n => s - r < capacity
         /\ b > 0 => r < s
BY SemConstants DEF Balance

LEMMA SlotsNat == SlotInv => empty_slots \in Nat /\ full_slots \in Nat
BY DEF SlotInv, Balance

LEMMA RolesFinite ==
  /\ IsFiniteSet(Inside) /\ IsFiniteSet(Filled) /\ IsFiniteSet(Claiming)
  /\ Cardinality(Inside) \in Nat /\ Cardinality(Filled) \in Nat
  /\ Cardinality(Claiming) \in Nat
<1>1. IsFiniteSet(Inside) /\ IsFiniteSet(Filled) /\ IsFiniteSet(Claiming)
  BY SemThreads, FS_Subset DEF Inside, Filled, Claiming
<1> QED
  BY <1>1, FS_CardinalityType

(* The cases of a step: who enters or leaves which set.                     *)
LEMMA SlotStill ==
  ASSUME SlotInv, SameSlots, SameHistory,
         Inside' = Inside, Filled' = Filled, Claiming' = Claiming
  PROVE  SlotInv'
BY DEF SlotInv, SameSlots, SameHistory

LEMMA SlotPutWait ==
  ASSUME SlotInv, LengthsOK, NEW t \in Sem!Producers, SemMoves(t, "wait", "lock"),
         empty_slots > 0, empty_slots' = empty_slots - 1, full_slots' = full_slots, SameHistory
  PROVE  SlotInv'
<1>1. t \in Sem!Threads /\ t \notin Sem!Consumers
  BY SemThreads DEF SemWorkers
<1>2. /\ Inside' = Inside \cup {t} /\ t \notin Inside
      /\ Filled' = Filled /\ Claiming' = Claiming
  BY <1>1, SemThreads DEF SemMoves, Inside, Filled, Claiming, SemWorkers
<1>3. Cardinality(Inside') = Cardinality(Inside) + 1
  BY <1>2, RolesFinite, FS_AddElement
<1>4. Balance(empty_slots - 1, full_slots, Cardinality(Inside) + 1,
              Cardinality(Filled), Cardinality(Claiming), Len(sent), Len(received))
  BY RolesFinite, SlotsNat, BalanceSteps DEF SlotInv, LengthsOK
<1> QED
  BY <1>2, <1>3, <1>4 DEF SlotInv, SameHistory

LEMMA SlotGetWait ==
  ASSUME SlotInv, LengthsOK, NEW t \in Sem!Consumers, SemMoves(t, "wait", "lock"),
         full_slots > 0, full_slots' = full_slots - 1, empty_slots' = empty_slots, SameHistory
  PROVE  SlotInv'
<1>1. t \in Sem!Threads /\ t \notin Sem!Producers
  BY SemThreads DEF SemWorkers
<1>2. /\ Inside' = Inside \cup {t} /\ t \notin Inside
      /\ Filled' = Filled /\ Claiming' = Claiming \cup {t} /\ t \notin Claiming
  BY <1>1, SemThreads DEF SemMoves, Inside, Filled, Claiming, SemWorkers
<1>3. /\ Cardinality(Inside') = Cardinality(Inside) + 1
      /\ Cardinality(Claiming') = Cardinality(Claiming) + 1
  BY <1>2, RolesFinite, FS_AddElement
<1>4. Balance(empty_slots, full_slots - 1, Cardinality(Inside) + 1,
              Cardinality(Filled), Cardinality(Claiming) + 1, Len(sent), Len(received))
  BY RolesFinite, SlotsNat, BalanceSteps DEF SlotInv, LengthsOK
<1> QED
  BY <1>2, <1>3, <1>4 DEF SlotInv, SameHistory

LEMMA SlotStore ==
  ASSUME SlotInv, LengthsOK, NEW t \in Sem!Producers, SemMoves(t, "access", "index"),
         SameSlots, Len(sent') = Len(sent) + 1, received' = received
  PROVE  SlotInv' /\ Len(sent) - Len(received) < capacity
<1>1. t \in Sem!Threads /\ t \notin Sem!Consumers
  BY SemThreads DEF SemWorkers
<1>2. /\ Inside' = Inside /\ Claiming' = Claiming
      /\ Filled' = Filled \cup {t} /\ t \notin Filled
  BY <1>1, SemThreads DEF SemMoves, Inside, Filled, Claiming, SemWorkers
<1>3. Cardinality(Filled') = Cardinality(Filled) + 1
  BY <1>2, RolesFinite, FS_AddElement
<1>6. Balance(empty_slots, full_slots, Cardinality(Inside),
              Cardinality(Filled) + 1, Cardinality(Claiming), Len(sent) + 1, Len(received))
  BY RolesFinite, SlotsNat, BalanceSteps DEF SlotInv, LengthsOK
<1>4. SlotInv'
  BY <1>2, <1>3, <1>6 DEF SlotInv, SameSlots
<1>5. Cardinality(Filled) + Cardinality(Claiming) + 1 <= Cardinality(Inside)
  <2>1. /\ Filled \cup Claiming \subseteq Inside \ {t} /\ Filled \cap Claiming = {}
        /\ t \in Inside
    BY <1>1, SemThreads DEF SemMoves, Inside, Filled, Claiming, SemWorkers
  <2>2. Cardinality(Filled \cup Claiming) = Cardinality(Filled) + Cardinality(Claiming)
    <3>1. Cardinality(Filled \cup Claiming)
            = Cardinality(Filled) + Cardinality(Claiming) - Cardinality(Filled \cap Claiming)
      BY RolesFinite, FS_Union
    <3>2. Cardinality(Filled \cap Claiming) = 0
      BY <2>1, FS_EmptySet
    <3> DEFINE all == Cardinality(Filled \cup Claiming)
               both == Cardinality(Filled \cap Claiming)
               a == Cardinality(Filled)
               b == Cardinality(Claiming)
    <3>3. all = a + b - both /\ both = 0 /\ a \in Nat /\ b \in Nat
      BY <3>1, <3>2, RolesFinite
    <3>4. all = a + b
      <4> HIDE DEF all, both, a, b
      <4> QED
        BY <3>3
    <3> QED
      BY <3>4
  <2>3. IsFiniteSet(Inside \ {t}) /\ Cardinality(Inside \ {t}) = Cardinality(Inside) - 1
    BY <2>1, RolesFinite, FS_RemoveElement
  <2>4. Cardinality(Filled \cup Claiming) <= Cardinality(Inside \ {t})
    BY <2>1, <2>3, FS_Subset
  <2> QED
    BY <2>2, <2>3, <2>4, RolesFinite
<1>7. Len(sent) - Len(received) < capacity
  BY <1>5, RolesFinite, SlotsNat, BalanceSteps DEF SlotInv, LengthsOK
<1> QED
  BY <1>4, <1>7

LEMMA SlotFetch ==
  ASSUME SlotInv, LengthsOK, NEW t \in Sem!Consumers, SemMoves(t, "access", "index"),
         SameSlots, Len(received') = Len(received) + 1, sent' = sent
  PROVE  SlotInv' 
<1>1. t \in Sem!Threads /\ t \notin Sem!Producers
  BY SemThreads DEF SemWorkers
<1>2. /\ Inside' = Inside /\ Filled' = Filled
      /\ Claiming' = Claiming \ {t} /\ t \in Claiming
  BY <1>1, SemThreads DEF SemMoves, Inside, Filled, Claiming, SemWorkers
<1>3. Cardinality(Claiming') = Cardinality(Claiming) - 1
  BY <1>2, RolesFinite, FS_RemoveElement
<1>4. Balance(empty_slots, full_slots, Cardinality(Inside),
              Cardinality(Filled), Cardinality(Claiming) - 1, Len(sent), Len(received) + 1)
  BY RolesFinite, SlotsNat, BalanceSteps DEF SlotInv, LengthsOK
<1> QED
  BY <1>2, <1>3, <1>4 DEF SlotInv, SameSlots

(* A consumer that has locked the mutex finds an item.                      *)
LEMMA SlotNotEmpty ==
  ASSUME SlotInv, LengthsOK, NEW t \in Sem!Consumers, pc[t] = "access"
  PROVE  Len(received) < Len(sent)
<1>1. t \in Claiming
  BY DEF Claiming
<1>2. Cardinality(Claiming) > 0
  BY <1>1, RolesFinite, FS_EmptySet
<1> QED
  BY <1>2, RolesFinite, SlotsNat, BalanceSteps DEF SlotInv, LengthsOK

LEMMA SlotPutPost ==
  ASSUME SlotInv, LengthsOK, NEW t \in Sem!Producers, NEW l \in {"wait", "done"},
         SemMoves(t, "post", l),
         full_slots' = full_slots + 1, empty_slots' = empty_slots, SameHistory
  PROVE  SlotInv'
<1>1. t \in Sem!Threads /\ t \notin Sem!Consumers
  BY SemThreads DEF SemWorkers
<1>2. /\ Inside' = Inside \ {t} /\ t \in Inside
      /\ Filled' = Filled \ {t} /\ t \in Filled /\ Claiming' = Claiming
  BY <1>1, SemThreads DEF SemMoves, Inside, Filled, Claiming, SemWorkers
<1>3. /\ Cardinality(Inside') = Cardinality(Inside) - 1
      /\ Cardinality(Filled') = Cardinality(Filled) - 1
  BY <1>2, RolesFinite, FS_RemoveElement
<1>4. Balance(empty_slots, full_slots + 1, Cardinality(Inside) - 1,
              Cardinality(Filled) - 1, Cardinality(Claiming), Len(sent), Len(received))
  BY RolesFinite, SlotsNat, BalanceSteps DEF SlotInv, LengthsOK
<1> QED
  BY <1>2, <1>3, <1>4 DEF SlotInv, SameHistory

LEMMA SlotGetPost ==
  ASSUME SlotInv, LengthsOK, NEW t \in Sem!Consumers, NEW l \in {"wait", "done"},
         SemMoves(t, "post", l),
         empty_slots' = empty_slots + 1, full_slots' = full_slots, SameHistory
  PROVE  SlotInv'
<1>1. t \in Sem!Threads /\ t \notin Sem!Producers
  BY SemThreads DEF SemWorkers
<1>2. /\ Inside' = Inside \ {t} /\ t \in Inside
      /\ Filled' = Filled /\ Claiming' = Claiming
  BY <1>1, SemThreads DEF SemMoves, Inside, Filled, Claiming, SemWorkers
<1>3. Cardinality(Inside') = Cardinality(Inside) - 1
  BY <1>2, RolesFinite, FS_RemoveElement
<1>4. Balance(empty_slots + 1, full_slots, Cardinality(Inside) - 1,
              Cardinality(Filled), Cardinality(Claiming), Len(sent), Len(received))
  BY RolesFinite, SlotsNat, BalanceSteps DEF SlotInv, LengthsOK
<1> QED
  BY <1>2, <1>3, <1>4 DEF SlotInv, SameHistory
-----------------------------------------------------------------------------
(* sem_buffer.c: the contents of the buffer.  A thread between its access   *)
(* and the advance of its index has put, or taken, its item already.        *)

Ahead(index, threads) ==
  IF \E t \in threads : pc[t] = "index" THEN (index + 1) % capacity ELSE index

SemRing ==
  /\ in \in 0 .. capacity - 1 /\ out \in 0 .. capacity - 1
  /\ Ring(buffer, Ahead(in, Sem!Producers), Ahead(out, Sem!Consumers), sent, received)

SemInv == SemPcInv /\ MutexInv /\ SlotInv /\ SemRing

LEMMA SemLengths == SemRing => LengthsOK
BY DEF SemRing, Ring, LengthsOK

LEMMA RingStill ==
  ASSUME SemRing, UNCHANGED <<buffer, in, out, sent, received>>,
         \A u \in SemWorkers : pc'[u] = "index" <=> pc[u] = "index"
  PROVE  SemRing'
<1>1. /\ Ahead(in, Sem!Producers)' = Ahead(in, Sem!Producers)
      /\ Ahead(out, Sem!Consumers)' = Ahead(out, Sem!Consumers)
  BY DEF Ahead, SemWorkers
<1> QED
  BY <1>1 DEF SemRing

LEMMA SemItem ==
  ASSUME SemPcInv, NEW t \in Sem!Producers, pc[t] \in CallPCs
  PROVE  Sem!Item(t) \in Sem!Items /\ Sem!Item(t) \in Int
<1>1. t \in SemWorkers /\ t \in Sem!Threads /\ t[2] \in 1 .. SEM_PRODUCERS
  BY SemThreads DEF SemWorkers
<1>2. id[t] = t[2] /\ i[t] \in 0 .. ITEMS_PER_PRODUCER - 1
  <2>1. id[t] = t[2]
    BY <1>1 DEF SemPcInv, CallPCs
  <2>2. i[t] \in Nat /\ i[t] < ITEMS_PER_PRODUCER
    BY <1>1 DEF SemPcInv
  <2> QED
    BY <2>1, <2>2, SemConstants
<1>3. Sem!Item(t) = t[2] * 100 + i[t]
  BY <1>2 DEF Sem!Item
<1> QED
  BY <1>1, <1>2, <1>3, SemConstants DEF Sem!Items

(* While a thread has the mutex no other one is between access and advance. *)
LEMMA Alone ==
  ASSUME MutexInv, NEW t \in Sem!Threads, pc[t] \in {"access", "index"}
  PROVE  \A u \in Sem!Threads \ {t} : pc[u] \notin {"access", "index"}
BY DEF MutexInv

LEMMA SemMainStep ==
  ASSUME SemInv, Sem!Create \/ Sem!Join
  PROVE  SemInv' /\ UNCHANGED Chan!vars
<1> USE SemThreads
<1>1. CASE Sem!Create
  <2> DEFINE t == Sem!Created(i[Sem!main])
  <2>1. /\ i[Sem!main] < SEM_CONSUMERS + SEM_PRODUCERS
        /\ Sem!Step(t, "new", "start")
        /\ thread_ids' = [thread_ids EXCEPT ![t[2]] = t[2]]
        /\ i' = [i EXCEPT ![Sem!main] = @ + 1]
        /\ UNCHANGED <<buffer, in, out, empty_slots, full_slots, mutex, id, sent, received>>
    BY <1>1 DEF Sem!Create, Sem!bufferVars, Sem!semVars, Sem!history
  <2>2. t \in SemWorkers /\ t \in Sem!Threads /\ t # Sem!main
    BY <2>1, SemCreated DEF SemInv, SemPcInv
  <2> HIDE DEF t
  <2>3. SemMoves(t, "new", "start")
    BY <2>1, <2>2, SemPCsAre, SemStepMoves DEF SemInv
  <2>4. SemPcInv'
    <3>1. \A u \in SemWorkers : u # Sem!main /\ i'[u] = i[u] /\ u \in Sem!Threads
      BY <2>1 DEF SemInv, SemPcInv
    <3>2. \A u \in SemWorkers : thread_ids'[u[2]] = IF u[2] = t[2] THEN t[2] ELSE thread_ids[u[2]]
      BY <2>1, <2>2 DEF SemInv, SemPcInv
    <3>3. thread_ids' \in [1 .. SEM_PRODUCERS -> Int] /\ i' \in [Sem!Threads -> Nat]
      BY <2>1, <2>2 DEF SemInv, SemPcInv
    <3> QED
      BY <2>1, <2>2, <2>3, <3>1, <3>2, <3>3 DEF SemInv, SemPcInv, SemMoves, CallPCs
  <2>5. MutexInv'
    BY <2>1, <2>3 DEF SemInv, MutexInv, SemMoves
  <2>6. SlotInv'
    <3>1. Inside' = Inside /\ Filled' = Filled /\ Claiming' = Claiming
      BY <2>3 DEF SemMoves, Inside, Filled, Claiming, SemWorkers
    <3> QED
      BY <2>1, <3>1, SlotStill DEF SemInv, SameSlots, SameHistory
  <2>7. SemRing'
    BY <2>1, <2>3, RingStill DEF SemInv, SemMoves
  <2> QED
    BY <2>1, <2>4, <2>5, <2>6, <2>7 DEF SemInv, Chan!vars
<1>2. CASE Sem!Join
  <2>1. /\ Sem!Step(Sem!main, "create", "done")
        /\ \A u \in Sem!Threads \ {Sem!main} : pc[u] = "done"
        /\ UNCHANGED <<buffer, in, out, empty_slots, full_slots, mutex, id, thread_ids, i,
                       sent, received>>
    BY <1>2 DEF Sem!Join, Sem!bufferVars, Sem!semVars, Sem!history, Sem!ids
  <2>2. SemMoves(Sem!main, "create", "done")
    BY <2>1, SemPCsAre, SemStepMoves DEF SemInv
  <2>3. SemPcInv'
    BY <2>1, <2>2 DEF SemInv, SemPcInv, SemMoves, CallPCs
  <2>4. MutexInv'
    BY <2>1, <2>2 DEF SemInv, MutexInv, SemMoves
  <2>5. SlotInv'
    <3>1. Inside' = Inside /\ Filled' = Filled /\ Claiming' = Claiming
      BY <2>2 DEF SemMoves, Inside, Filled, Claiming, SemWorkers
    <3> QED
      BY <2>1, <3>1, SlotStill DEF SemInv, SameSlots, SameHistory
  <2>6. SemRing'
    BY <2>1, <2>2, RingStill DEF SemInv, SemMoves
  <2> QED
    BY <2>1, <2>3, <2>4, <2>5, <2>6 DEF SemInv, Chan!vars
<1> QED
  BY <1>1, <1>2

(* A thread begins, waits on its semaphore, or takes the mutex.             *)
LEMMA SemEnterStep ==
  ASSUME SemInv, NEW t \in SemWorkers,
         \/ Sem!Start(t) \/ Sem!Lock(t)
         \/ t \in Sem!Producers /\ Sem!PutWait(t)
         \/ t \in Sem!Consumers /\ Sem!GetWait(t)
  PROVE  SemInv' /\ UNCHANGED Chan!vars
<1> USE SemThreads DEF SemInv
<1>0. t \in Sem!Threads /\ t # Sem!main
  OBVIOUS
<1>1. UNCHANGED <<buffer, in, out, sent, received, i, thread_ids>>
  BY DEF Sem!Start, Sem!Lock, Sem!PutWait, Sem!GetWait, Sem!bufferVars, Sem!history,
         Sem!ids
<1>2. CASE Sem!Start(t)
  <2>1. /\ SemMoves(t, "start", "wait") /\ UNCHANGED <<mutex, empty_slots, full_slots>>
        /\ id' = [id EXCEPT ![t] = thread_ids[t[2]]]
    BY <1>0, <1>2, SemPCsAre, SemStepMoves DEF Sem!Start, Sem!semVars
  <2>2. SemPcInv'
    <3>1. id' \in [Sem!Threads -> Int] /\ id'[t] = t[2]
          /\ \A u \in Sem!Threads \ {t} : id'[u] = id[u]
      BY <1>0, <2>1 DEF SemPcInv, SemMoves
    <3> QED
      BY <1>0, <1>1, <2>1, <3>1, SemConstants DEF SemPcInv, SemMoves, CallPCs
  <2>3. MutexInv'
    BY <2>1 DEF MutexInv, SemMoves
  <2>4. Inside' = Inside /\ Filled' = Filled /\ Claiming' = Claiming
    BY <2>1 DEF SemMoves, Inside, Filled, Claiming, SemWorkers
  <2>5. SlotInv'
    BY <1>1, <2>1, <2>4, SlotStill DEF SameSlots, SameHistory
  <2>6. SemRing'
    BY <1>1, <2>1, RingStill DEF SemMoves
  <2> QED
    BY <1>1, <2>2, <2>3, <2>5, <2>6 DEF Chan!vars
<1>3. CASE Sem!Lock(t)
  <2>1. /\ SemMoves(t, "lock", "access") /\ UNCHANGED <<id, empty_slots, full_slots>>
        /\ mutex = None /\ mutex' = t
    BY <1>0, <1>3, SemPCsAre, SemStepMoves DEF Sem!Lock, Sem!semVars, Sem!ids
  <2>2. SemPcInv'
    BY <1>1, <2>1, CallStepPc DEF CallStep
  <2>3. MutexInv'
    BY <2>1, SemConstants DEF MutexInv, SemMoves
  <2>4. Inside' = Inside /\ Filled' = Filled /\ Claiming' = Claiming
    BY <2>1 DEF SemMoves, Inside, Filled, Claiming, SemWorkers
  <2>5. SlotInv'
    BY <1>1, <2>1, <2>4, SlotStill DEF SameSlots, SameHistory
  <2>6. SemRing'
    BY <1>1, <2>1, RingStill DEF SemMoves
  <2> QED
    BY <1>1, <2>2, <2>3, <2>5, <2>6 DEF Chan!vars
<1>4. ASSUME \/ t \in Sem!Producers /\ Sem!PutWait(t)
             \/ t \in Sem!Consumers /\ Sem!GetWait(t)
      PROVE  SemInv' /\ UNCHANGED Chan!vars
  <2>1. /\ SemMoves(t, "wait", "lock") /\ UNCHANGED <<id, mutex>>
    BY <1>0, <1>4, SemPCsAre, SemStepMoves DEF Sem!PutWait, Sem!GetWait, Sem!ids
  <2>2. SemPcInv'
    BY <1>1, <2>1, CallStepPc DEF CallStep
  <2>3. MutexInv'
    BY <2>1 DEF MutexInv, SemMoves
  <2>4. SlotInv'
    <3>1. LengthsOK /\ SameHistory
      BY <1>1, SemLengths DEF SameHistory
    <3>2. CASE t \in Sem!Producers /\ Sem!PutWait(t)
      BY <2>1, <3>1, <3>2, SlotPutWait DEF Sem!PutWait
    <3>3. CASE t \in Sem!Consumers /\ Sem!GetWait(t)
      BY <2>1, <3>1, <3>3, SlotGetWait DEF Sem!GetWait
    <3> QED
      BY <1>4, <3>2, <3>3
  <2>5. SemRing'
    BY <1>1, <2>1, RingStill DEF SemMoves
  <2> QED
    BY <1>1, <2>2, <2>3, <2>4, <2>5 DEF Chan!vars
<1> QED
  BY <1>2, <1>3, <1>4

(* A producer stores its item: it is the only thread at its access.         *)
LEMMA SemStoreStep ==
  ASSUME SemInv, NEW t \in Sem!Producers, Sem!PutStore(t)
  PROVE  SemInv' /\ Chan!Next
<1> USE DEF SemInv
<1> DEFINE x == Sem!Item(t)
<1>0. t \in Sem!Threads /\ t \in SemWorkers /\ t \notin Sem!Consumers
  BY SemThreads DEF SemWorkers
<1>1. /\ SemMoves(t, "access", "index")
      /\ buffer' = [buffer EXCEPT ![in] = x] /\ sent' = Append(sent, x)
      /\ UNCHANGED <<in, out, empty_slots, full_slots, mutex, id, thread_ids, i, received>>
  BY <1>0, SemPCsAre, SemStepMoves DEF Sem!PutStore, Sem!semVars, Sem!ids
<1>2. x \in Sem!Items /\ x \in Int
  BY <1>1, SemItem DEF SemMoves, CallPCs
<1> HIDE DEF x
<1>3. SemPcInv'
  BY <1>0, <1>1, CallStepPc DEF CallStep
<1>4. MutexInv'
  BY <1>1 DEF MutexInv, SemMoves
<1>5. LengthsOK /\ sent \in Seq(Int)
  BY SemLengths DEF SemRing, Ring
<1>6. Len(sent') = Len(sent) + 1
  BY <1>1, <1>2, <1>5, AppendProperties
<1>7. SlotInv' /\ Len(sent) - Len(received) < capacity
  BY <1>1, <1>5, <1>6, SlotStore DEF SameSlots
<1>8. SemRing'
  <2>1. \A u \in Sem!Threads \ {t} : pc[u] # "index" /\ pc'[u] # "index"
    BY <1>0, <1>1, Alone DEF SemMoves
  <2>2. pc[t] # "index" /\ pc'[t] = "index"
    BY <1>1 DEF SemMoves
  <2>3. /\ Ahead(in, Sem!Producers) = in /\ Ahead(out, Sem!Consumers) = out
        /\ Ahead(in, Sem!Producers)' = (in + 1) % capacity
        /\ Ahead(out, Sem!Consumers)' = out
    BY <1>0, <1>1, <2>1, <2>2, SemThreads DEF Ahead, SemWorkers
  <2>4. Ring(buffer', (in + 1) % capacity, out, sent', received)
    BY <1>1, <1>2, <1>7, <2>3, RingPut DEF SemRing
  <2> QED
    BY <1>1, <2>3, <2>4 DEF SemRing
<1>9. Chan!Put(x)
  BY <1>1, <1>7 DEF Chan!Put
<1> QED
  BY <1>2, <1>3, <1>4, <1>7, <1>8, <1>9 DEF Chan!Next

(* A consumer takes the oldest item.                                        *)
LEMMA SemFetchStep ==
  ASSUME SemInv, NEW t \in Sem!Consumers, Sem!GetFetch(t)
  PROVE  SemInv' /\ Chan!Next
<1> USE DEF SemInv
<1>0. t \in Sem!Threads /\ t \in SemWorkers /\ t \notin Sem!Producers
  BY SemThreads DEF SemWorkers
<1>1. /\ SemMoves(t, "access", "index")
      /\ received' = Append(received, buffer[out])
      /\ UNCHANGED <<buffer, in, out, empty_slots, full_slots, mutex, id, thread_ids, i, sent>>
  BY <1>0, SemPCsAre, SemStepMoves DEF Sem!GetFetch, Sem!bufferVars, Sem!semVars, Sem!ids
<1>3. SemPcInv'
  BY <1>0, <1>1, CallStepPc DEF CallStep
<1>4. MutexInv'
  BY <1>1 DEF MutexInv, SemMoves
<1>5. LengthsOK /\ received \in Seq(Int)
  BY SemLengths DEF SemRing, Ring
<1>6. Len(received) < Len(sent)
  BY <1>1, <1>5, SlotNotEmpty DEF SemMoves
<1>7. \A u \in Sem!Threads \ {t} : pc[u] # "index" /\ pc'[u] # "index"
  BY <1>0, <1>1, Alone DEF SemMoves
<1>8. pc[t] # "index" /\ pc'[t] = "index"
  BY <1>1 DEF SemMoves
<1>9. /\ Ahead(in, Sem!Producers) = in /\ Ahead(out, Sem!Consumers) = out
      /\ Ahead(in, Sem!Producers)' = in
      /\ Ahead(out, Sem!Consumers)' = (out + 1) % capacity
  BY <1>0, <1>1, <1>7, <1>8, SemThreads DEF Ahead, SemWorkers
<1>10. /\ buffer[out] = sent[Len(received) + 1] /\ buffer[out] \in Int
       /\ Ring(buffer, in, (out + 1) % capacity, sent, received')
  BY <1>1, <1>6, <1>9, RingGet DEF SemRing
<1>11. SemRing'
  BY <1>1, <1>9, <1>10 DEF SemRing
<1>12. Len(received') = Len(received) + 1
  BY <1>1, <1>5, <1>10, AppendProperties
<1>13. SlotInv'
  BY <1>1, <1>5, <1>12, SlotFetch DEF SameSlots
<1>14. Chan!Get
  BY <1>1, <1>6, <1>10 DEF Chan!Get
<1> QED
  BY <1>3, <1>4, <1>11, <1>13, <1>14 DEF Chan!Next

(* The index follows, and the mutex is free.                                *)
LEMMA SemAdvanceStep ==
  ASSUME SemInv, NEW t \in SemWorkers,
         \/ t \in Sem!Producers /\ Sem!PutAdvance(t)
         \/ t \in Sem!Consumers /\ Sem!GetAdvance(t)
  PROVE  SemInv' /\ UNCHANGED Chan!vars
<1> USE DEF SemInv
<1>0. t \in Sem!Threads
  BY SemThreads
<1>1. /\ SemMoves(t, "index", "post") /\ mutex' = None
      /\ UNCHANGED <<buffer, empty_slots, full_slots, id, thread_ids, i, sent, received>>
  BY <1>0, SemPCsAre, SemStepMoves
  DEF Sem!PutAdvance, Sem!GetAdvance, Sem!semVars, Sem!ids, Sem!history
<1>2. SemPcInv'
  BY <1>1, CallStepPc DEF CallStep
<1>3. \A u \in Sem!Threads \ {t} : pc[u] \notin {"access", "index"}
  BY <1>0, <1>1, Alone DEF SemMoves
<1>4. MutexInv'
  BY <1>1, <1>3, SemConstants DEF MutexInv, SemMoves
<1>5. SlotInv'
  <2>1. Inside' = Inside /\ Filled' = Filled /\ Claiming' = Claiming
    BY <1>0, <1>1, SemThreads DEF SemMoves, Inside, Filled, Claiming, SemWorkers
  <2> QED
    BY <1>1, <2>1, SlotStill DEF SameSlots, SameHistory
<1>6. SemRing'
  <2>1. \A u \in Sem!Threads : pc'[u] # "index"
    BY <1>1, <1>3 DEF SemMoves
  <2>2. \A u \in Sem!Threads \ {t} : pc[u] # "index"
    BY <1>3
  <2>3. pc[t] = "index"
    BY <1>1 DEF SemMoves
  <2>4. \A m \in 0 .. capacity - 1 : (m + 1) % capacity \in 0 .. capacity - 1
    BY Advance
  <2>5. CASE t \in Sem!Producers /\ Sem!PutAdvance(t)
    <3>1. in' = (in + 1) % capacity /\ out' = out /\ t \notin Sem!Consumers
      BY <2>5, SemThreads DEF Sem!PutAdvance
    <3>2. /\ Ahead(in, Sem!Producers) = in' /\ Ahead(out, Sem!Consumers) = out
          /\ Ahead(in, Sem!Producers)' = in' /\ Ahead(out, Sem!Consumers)' = out
      BY <2>1, <2>2, <2>3, <2>5, <3>1, SemThreads DEF Ahead, SemWorkers
    <3> QED
      BY <1>1, <2>4, <3>1, <3>2 DEF SemRing
  <2>6. CASE t \in Sem!Consumers /\ Sem!GetAdvance(t)
    <3>1. out' = (out + 1) % capacity /\ in' = in /\ t \notin Sem!Producers
      BY <2>6, SemThreads DEF Sem!GetAdvance
    <3>2. /\ Ahead(out, Sem!Consumers) = out' /\ Ahead(in, Sem!Producers) = in
          /\ Ahead(out, Sem!Consumers)' = out' /\ Ahead(in, Sem!Producers)' = in
      BY <2>1, <2>2, <2>3, <2>6, <3>1, SemThreads DEF Ahead, SemWorkers
    <3> QED
      BY <1>1, <2>4, <3>1, <3>2 DEF SemRing
  <2> QED
    BY <2>5, <2>6
<1> QED
  BY <1>1, <1>2, <1>4, <1>5, <1>6 DEF Chan!vars

(* The call ends: the item, or the slot, is handed over.                    *)
LEMMA SemPostStep ==
  ASSUME SemInv, NEW t \in SemWorkers,
         \/ t \in Sem!Producers /\ Sem!PutPost(t)
         \/ t \in Sem!Consumers /\ Sem!GetPost(t)
  PROVE  SemInv' /\ UNCHANGED Chan!vars
<1> USE DEF SemInv
<1>0. Sem!NextCall(t)
  BY DEF Sem!PutPost, Sem!GetPost
<1>1. /\ SemPcInv'
      /\ \E l \in {"wait", "done"} : SemMoves(t, "post", l)
  BY <1>0, NextCallPc
<1>2. UNCHANGED <<buffer, in, out, mutex, sent, received>>
  BY <1>0 DEF Sem!NextCall, Sem!bufferVars, Sem!history
<1>3. MutexInv'
  BY <1>1, <1>2 DEF MutexInv, SemMoves
<1>4. SlotInv'
  <2>1. LengthsOK /\ SameHistory
    BY <1>2, SemLengths DEF SameHistory
  <2>2. CASE t \in Sem!Producers /\ Sem!PutPost(t)
    BY <1>1, <2>1, <2>2, SlotPutPost DEF Sem!PutPost
  <2>3. CASE t \in Sem!Consumers /\ Sem!GetPost(t)
    BY <1>1, <2>1, <2>3, SlotGetPost DEF Sem!GetPost
  <2> QED
    BY <2>2, <2>3
<1>5. SemRing'
  <2>1. \A u \in SemWorkers : pc'[u] = "index" <=> pc[u] = "index"
    BY <1>1, SemThreads DEF SemMoves
  <2> QED
    BY <1>2, <2>1, RingStill
<1> QED
  BY <1>1, <1>2, <1>3, <1>4, <1>5 DEF Chan!vars

LEMMA SemStep == ASSUME SemInv, Sem!Next PROVE SemInv' /\ [Chan!Next]_(Chan!vars)
<1>1. PICK t \in Sem!Threads : Sem!Thread(t)
  BY DEF Sem!Next
<1>2. CASE Sem!Create \/ Sem!Join
  BY <1>2, SemMainStep
<1>3. CASE \/ Sem!Start(t) /\ t # Sem!main
           \/ t \in Sem!Producers /\ Sem!Put(t)
           \/ t \in Sem!Consumers /\ Sem!Get(t)
  <2>1. t \in SemWorkers
    BY <1>3, SemThreads DEF SemWorkers
  <2> QED
    BY <1>3, <2>1, SemEnterStep, SemStoreStep, SemFetchStep, SemAdvanceStep, SemPostStep
    DEF Sem!Put, Sem!Get
<1> QED
  BY <1>1, <1>2, <1>3 DEF Sem!Thread

LEMMA SemInit == Sem!Init => SemInv
<1> SUFFICES ASSUME Sem!Init PROVE SemInv
  OBVIOUS
<1>1. /\ pc = [t \in Sem!Threads |-> IF t = Sem!main THEN "create" ELSE "new"]
      /\ i = [t \in Sem!Threads |-> 0] /\ id = [t \in Sem!Threads |-> 0]
      /\ thread_ids = [n \in 1 .. SEM_PRODUCERS |-> 0]
  BY DEF Sem!Init
<1>2. SemPcInv
  BY <1>1, SemThreads, SemConstants DEF SemPcInv, SemPCs, CallPCs
<1>3. MutexInv
  BY <1>1, SemConstants DEF MutexInv, Sem!Init
<1>4. SlotInv
  <2>1. Inside = {} /\ Filled = {} /\ Claiming = {}
    BY <1>1, SemThreads DEF Inside, Filled, Claiming, SemWorkers
  <2>2. Cardinality({}) = 0 /\ Len(<<>>) = 0
    BY FS_EmptySet
  <2> QED
    BY <2>1, <2>2, SemConstants DEF Sem!Init, SlotInv, Balance
<1>5. SemRing
  <2>1. Ahead(in, Sem!Producers) = 0 /\ Ahead(out, Sem!Consumers) = 0
    BY <1>1, SemThreads DEF Ahead, Sem!Init, SemWorkers
  <2> QED
    BY <2>1, RingInit, SemConstants DEF SemRing, Sem!Init, Sem!Garbage
<1> QED
  BY <1>2, <1>3, <1>4, <1>5 DEF SemInv

LEMMA SemCardinality == ASSUME NEW S PROVE Sem!Cardinality(S) = Cardinality(S)
BY DEF Sem!Cardinality, Cardinality, Sem!IsFiniteSet, IsFiniteSet

LEMMA SemSlots == SemInv => Sem!SlotsAccounted
BY SemCardinality DEF SemInv, SlotInv, Balance, Inside, Sem!SlotsAccounted
-----------------------------------------------------------------------------
(* Both programs together                                                   *)

BufferInv == (program = "cond" => CondInv) /\ (program = "sem" => SemInv)

LEMMA BufferStep ==
  ASSUME BufferInv, [Next]_vars PROVE BufferInv' /\ [Chan!Next]_(Chan!vars)
<1>1. CASE RunCond(Cond!Next)
  BY <1>1, CondStep DEF RunCond, BufferInv
<1>2. CASE RunSem(Sem!Next)
  BY <1>2, SemStep DEF RunSem, BufferInv
<1>3. CASE UNCHANGED vars
  <2>1. UNCHANGED <<program, buffer, in, out, mutex, pc, i, sent, received, count,
                    item, consumed_count, consumed_sum, spurious,
                    empty_slots, full_slots, thread_ids, id>>
    BY <1>3 DEF vars, condVars, semVars
  <2>2. CondInv => CondInv'
    BY <2>1 DEF CondInv, CondPcInv, WakeupInv, CondRing, Starving, Stuck, Takers, Putters
  <2>3. SemInv => SemInv'
    BY <2>1 DEF SemInv, SemPcInv, MutexInv, SlotInv, SemRing, Inside, Filled, Claiming, Ahead
  <2> QED
    BY <2>1, <2>2, <2>3 DEF BufferInv, Chan!vars
<1> QED
  BY <1>1, <1>2, <1>3 DEF Next

LEMMA BufferInit == Init => BufferInv
BY CondInit, SemInit DEF Init, BufferInv

LEMMA BufferInvariant == Spec => []BufferInv
<1>1. BufferInv /\ [Next]_vars => BufferInv'
  BY BufferStep
<1> QED
  BY <1>1, BufferInit, PTL DEF Spec

(* pthread_cond_signal() always finds the right sleeper: while a consumer   *)
(* waits, each item has somebody awake on the way to it, and while a        *)
(* producer waits, so has each free slot.                                   *)
THEOREM WakeupsKept == Spec => []NoLostWakeup
<1>1. BufferInv => NoLostWakeup
  BY CondWakeups DEF BufferInv, NoLostWakeup
<1> QED
  BY <1>1, BufferInvariant, PTL

(* The two semaphores and the threads inside buffer_put() and buffer_get()  *)
(* account for every slot of the buffer of sem_buffer.c.                    *)
THEOREM SlotsKept == Spec => []SlotsAccounted
<1>1. BufferInv => SlotsAccounted
  BY SemSlots DEF BufferInv, SlotsAccounted
<1> QED
  BY <1>1, BufferInvariant, PTL

(* Both buffers are bounded FIFO channels: what comes out is what went in,  *)
(* in that order, never lost, never twice, never overwritten.               *)
THEOREM BuffersAreChannels == Spec => ChannelSpec
<1>1. Init => Chan!Init
  BY DEF Init, Cond!Init, Sem!Init, Chan!Init
<1>2. BufferInv /\ [Next]_vars => [Chan!Next]_(Chan!vars)
  BY BufferStep
<1> QED
  BY <1>1, <1>2, BufferInvariant, PTL DEF Spec, ChannelSpec, Chan!Spec

-----------------------------------------------------------------------------
(* What the programs print at the end.  What has been taken is the first    *)
(* part of what has been put, in both of them.                              *)

Prefix(r, s) == \A j \in 1 .. Len(r) : r[j] = s[j]

LEMMA PrefixStep ==
  ASSUME sent \in Seq(Int), received \in Seq(Int), Len(received) <= Len(sent),
         Prefix(received, sent), [Chan!Next]_(Chan!vars)
  PROVE  Prefix(received', sent')
<1>1. CASE Chan!Get
  <2>1. Len(received) < Len(sent) /\ sent' = sent
        /\ received' = Append(received, sent[Len(received) + 1])
    BY <1>1 DEF Chan!Get
  <2>2. sent[Len(received) + 1] \in Int
    BY <2>1, ElementOfSeq
  <2>3. /\ Len(received') = Len(received) + 1
        /\ received'[Len(received) + 1] = sent[Len(received) + 1]
        /\ \A j \in 1 .. Len(received) : received'[j] = received[j]
    BY <2>1, <2>2, AppendProperties
  <2> QED
    BY <2>1, <2>3 DEF Prefix
<1>2. CASE \E x \in Cond!Items \cup Sem!Items : Chan!Put(x)
  <2>1. PICK x : sent' = Append(sent, x) /\ received' = received
    BY <1>2 DEF Chan!Put
  <2>2. \A j \in 1 .. Len(sent) : sent'[j] = sent[j]
    BY <2>1
  <2> QED
    BY <2>1, <2>2 DEF Prefix
<1>3. CASE UNCHANGED Chan!vars
  BY <1>3 DEF Chan!vars, Prefix
<1> QED
  BY <1>1, <1>2, <1>3 DEF Chan!Next

-----------------------------------------------------------------------------
(* sem_buffer.c: the thread t has put, or taken, Calls(t) items.            *)

Calls(t) == IF pc[t] \in {"index", "post"} THEN i[t] + 1 ELSE i[t]
CallsOf(S) == [t \in S |-> Calls(t)]
PutItems == {x \in Int : \E t \in Sem!Producers, k \in Nat : k < Calls(t) /\ x = t[2] * 100 + k}

SemCount ==
  /\ Len(sent) = SumOf(CallsOf(Sem!Producers), Sem!Producers)
  /\ Len(received) = SumOf(CallsOf(Sem!Consumers), Sem!Consumers)
  /\ {sent[j] : j \in 1 .. Len(sent)} = PutItems
  /\ Prefix(received, sent)

LEMMA SemSeqs ==
  SemInv => /\ sent \in Seq(Int) /\ received \in Seq(Int)
            /\ Len(received) <= Len(sent)
BY SemConstants DEF SemInv, SemRing, Ring

LEMMA CallsNat == ASSUME SemPcInv, NEW t \in SemWorkers PROVE Calls(t) \in Nat
BY SemThreads DEF SemPcInv, Calls

(* A worker completes a call: its count goes up, no other one changes.      *)
LEMMA CallsUp ==
  ASSUME SemPcInv, NEW S \in {Sem!Producers, Sem!Consumers}, NEW t \in S,
         SemMoves(t, "access", "index"), i' = i
  PROVE  /\ Calls(t)' = Calls(t) + 1 /\ Calls(t) = i[t] /\ i[t] \in Nat
         /\ \A u \in SemWorkers \ {t} : Calls(u)' = Calls(u)
         /\ SumOf(CallsOf(S)', S) = SumOf(CallsOf(S), S) + 1
<1>1. /\ S \subseteq SemWorkers /\ IsFiniteSet(S)
      /\ t \in SemWorkers /\ SemWorkers \subseteq Sem!Threads
  BY SemThreads DEF SemWorkers
<1>2. /\ Calls(t)' = Calls(t) + 1 /\ Calls(t) = i[t] /\ i[t] \in Nat
      /\ \A u \in SemWorkers \ {t} : Calls(u)' = Calls(u)
  BY <1>1 DEF SemMoves, Calls, SemPcInv
<1>3. \A u \in S : CallsOf(S)[u] = Calls(u) /\ CallsOf(S)[u] \in Int
  BY <1>1, CallsNat DEF CallsOf
<1>4. \A u \in S : CallsOf(S)'[u] = Calls(u)'
  BY DEF CallsOf
<1> DEFINE e == CallsOf(S)'
           f == CallsOf(S)
<1>5. e[t] = f[t] + 1 /\ f[t] \in Int /\ e[t] \in Int /\ \A u \in S \ {t} : e[u] = f[u]
  BY <1>1, <1>2, <1>3, <1>4
<1>6. \A u \in S : f[u] \in Int
  BY <1>3
<1> HIDE DEF e, f
<1>7. SumOf(e, S) = SumOf(f, S) - f[t] + e[t] /\ SumOf(f, S) \in Int
  BY <1>1, <1>5, <1>6, SumUpdate, SumInt
<1>8. SumOf(e, S) = SumOf(f, S) + 1
  BY <1>5, <1>7
<1> QED
  BY <1>2, <1>8 DEF e, f

LEMMA CallsStill ==
  ASSUME SemCount, SameHistory, \A u \in SemWorkers : Calls(u)' = Calls(u)
  PROVE  SemCount'
<1>1. /\ CallsOf(Sem!Producers)' = CallsOf(Sem!Producers)
      /\ CallsOf(Sem!Consumers)' = CallsOf(Sem!Consumers)
      /\ PutItems' = PutItems
  BY DEF CallsOf, PutItems, SemWorkers
<1> QED
  BY <1>1 DEF SemCount, SameHistory, Prefix

LEMMA SemCountStep == ASSUME SemInv, SemCount, Sem!Next PROVE SemCount'
<1> USE DEF SemInv
<1>1. PICK t \in Sem!Threads : Sem!Thread(t)
  BY DEF Sem!Next
<1>2. SemInv' /\ [Chan!Next]_(Chan!vars)
  BY SemStep
<1>3. Prefix(received', sent')
  BY <1>2, SemSeqs, PrefixStep DEF SemCount
<1>4. CASE Sem!Create \/ Sem!Join
  <2>1. SameHistory /\ \A u \in SemWorkers : i'[u] = i[u]
    BY <1>4, SemThreads DEF Sem!Create, Sem!Join, Sem!history, SameHistory, SemPcInv
  <2>2. \A u \in SemWorkers : pc'[u] \in {"index", "post"} <=> pc[u] \in {"index", "post"}
    <3>1. CASE Sem!Create
      <4>1. Sem!Step(Sem!Created(i[Sem!main]), "new", "start")
            /\ i[Sem!main] < SEM_CONSUMERS + SEM_PRODUCERS
        BY <3>1 DEF Sem!Create
      <4>2. Sem!Created(i[Sem!main]) \in Sem!Threads
        BY <4>1, SemCreated, SemThreads DEF SemPcInv
      <4>3. SemMoves(Sem!Created(i[Sem!main]), "new", "start")
        BY <4>1, <4>2, SemStepMoves, SemPCsAre
      <4> QED
        BY <4>3, SemThreads DEF SemMoves
    <3>2. CASE Sem!Join
      BY <3>2, SemThreads DEF Sem!Join, Sem!Step, SemPcInv
    <3> QED
      BY <1>4, <3>1, <3>2
  <2> QED
    BY <2>1, <2>2, CallsStill DEF Calls
<1>5. CASE t \in SemWorkers /\ (Sem!Start(t) \/ Sem!Lock(t) \/ Sem!PutWait(t) \/ Sem!GetWait(t)
                                 \/ Sem!PutAdvance(t) \/ Sem!GetAdvance(t))
  <2>1. SameHistory /\ i' = i
    BY <1>5 DEF Sem!Start, Sem!Lock, Sem!PutWait, Sem!GetWait, Sem!PutAdvance,
       Sem!GetAdvance, Sem!history, SameHistory
  <2>2. \E m \in {<<"start", "wait">>, <<"lock", "access">>, <<"wait", "lock">>,
                  <<"index", "post">>} : SemMoves(t, m[1], m[2])
    BY <1>5, SemStepMoves, SemPCsAre DEF Sem!Start, Sem!Lock, Sem!PutWait, Sem!GetWait,
       Sem!PutAdvance, Sem!GetAdvance
  <2>3. \A u \in SemWorkers : pc'[u] \in {"index", "post"} <=> pc[u] \in {"index", "post"}
    BY <2>2, SemThreads DEF SemMoves
  <2> QED
    BY <2>1, <2>3, CallsStill DEF Calls
<1>6. CASE t \in SemWorkers /\ (Sem!PutPost(t) \/ Sem!GetPost(t))
  <2>1. Sem!NextCall(t)
    BY <1>6 DEF Sem!PutPost, Sem!GetPost
  <2>2. SameHistory /\ i' = [i EXCEPT ![t] = @ + 1]
    BY <2>1 DEF Sem!NextCall, SameHistory, Sem!history
  <2>3. \E l \in {"wait", "done"} : SemMoves(t, "post", l)
    BY <1>6, <2>1, NextCallPc
  <2>4. \A u \in SemWorkers : Calls(u)' = Calls(u)
    BY <2>2, <2>3, SemThreads DEF SemMoves, Calls, SemPcInv
  <2> QED
    BY <2>2, <2>4, CallsStill
<1>7. CASE t \in Sem!Producers /\ Sem!PutStore(t)
  <2> DEFINE x == Sem!Item(t)
  <2>1. /\ Sem!Step(t, "access", "index") /\ sent' = Append(sent, x) /\ received' = received
        /\ i' = i
    BY <1>7 DEF Sem!PutStore
  <2>2. SemMoves(t, "access", "index")
    BY <2>1, SemStepMoves, SemPCsAre
  <2>3. t \notin Sem!Consumers /\ t \in SemWorkers /\ t \in Sem!Threads
    BY <1>7, SemThreads DEF SemWorkers
  <2>4. x \in Int /\ x = t[2] * 100 + i[t]
    BY <1>7, <2>2, <2>3, SemItem DEF SemMoves, CallPCs, Sem!Item, SemPcInv
  <2> HIDE DEF x
  <2>5. /\ Calls(t)' = Calls(t) + 1 /\ Calls(t) = i[t] /\ i[t] \in Nat
        /\ \A u \in SemWorkers \ {t} : Calls(u)' = Calls(u)
        /\ SumOf(CallsOf(Sem!Producers)', Sem!Producers)
             = SumOf(CallsOf(Sem!Producers), Sem!Producers) + 1
    BY <1>7, <2>1, <2>2, CallsUp
  <2>6. CallsOf(Sem!Consumers)' = CallsOf(Sem!Consumers)
    BY <2>3, <2>5 DEF CallsOf, SemWorkers
  <2>7. /\ Len(sent') = Len(sent) + 1 /\ sent'[Len(sent) + 1] = x /\ Len(sent) \in Nat
        /\ \A j \in 1 .. Len(sent) : sent'[j] = sent[j]
    BY <2>1, <2>4, SemSeqs, AppendProperties, LenProperties
  <2>8. {sent'[j] : j \in 1 .. Len(sent')} = {sent[j] : j \in 1 .. Len(sent)} \cup {x}
    BY <2>7
  <2>9. PutItems' = PutItems \cup {x}
    <3>1. \A u \in Sem!Producers : Calls(u)' = IF u = t THEN Calls(u) + 1 ELSE Calls(u)
      BY <2>5 DEF SemWorkers
    <3>2. \A k \in Nat : k < Calls(t) + 1 <=> (k < Calls(t) \/ k = Calls(t))
      BY <2>5
    <3>3. x \in Int /\ x = t[2] * 100 + Calls(t) /\ Calls(t) \in Nat
      BY <2>4, <2>5
    <3> DEFINE Good(y, u, k, n) == k < n /\ y = u[2] * 100 + k
    <3>4. \A y \in Int : (\E u \in Sem!Producers, k \in Nat : Good(y, u, k, Calls(u)'))
            <=> (y = x \/ \E u \in Sem!Producers, k \in Nat : Good(y, u, k, Calls(u)))
      BY <1>7, <3>1, <3>2, <3>3
    <3> QED
      BY <2>4, <3>4 DEF PutItems
  <2> QED
    BY <1>3, <2>1, <2>5, <2>6, <2>7, <2>8, <2>9 DEF SemCount
<1>8. CASE t \in Sem!Consumers /\ Sem!GetFetch(t)
  <2>1. /\ Sem!Step(t, "access", "index") /\ sent' = sent
        /\ received' = Append(received, buffer[out]) /\ i' = i
    BY <1>8 DEF Sem!GetFetch
  <2>2. SemMoves(t, "access", "index")
    BY <2>1, SemStepMoves, SemPCsAre
  <2>3. t \notin Sem!Producers
    BY <1>8, SemThreads
  <2>4. Len(received') = Len(received) + 1
    <3>1. buffer[out] \in Int
      BY DEF SemRing, Ring
    <3> QED
      BY <2>1, <3>1, SemSeqs, AppendProperties
  <2>5. /\ \A u \in SemWorkers \ {t} : Calls(u)' = Calls(u)
        /\ SumOf(CallsOf(Sem!Consumers)', Sem!Consumers)
             = SumOf(CallsOf(Sem!Consumers), Sem!Consumers) + 1
    BY <1>8, <2>1, <2>2, CallsUp
  <2>6. CallsOf(Sem!Producers)' = CallsOf(Sem!Producers) /\ PutItems' = PutItems
    BY <2>3, <2>5 DEF CallsOf, SemWorkers, PutItems
  <2> QED
    BY <1>3, <2>1, <2>4, <2>5, <2>6 DEF SemCount
<1> QED
  BY <1>1, <1>4, <1>5, <1>6, <1>7, <1>8, SemThreads
  DEF Sem!Thread, Sem!Put, Sem!Get, SemWorkers

LEMMA SemCountInit == ASSUME Sem!Init PROVE SemCount
<1>1. /\ pc = [t \in Sem!Threads |-> IF t = Sem!main THEN "create" ELSE "new"]
      /\ i = [t \in Sem!Threads |-> 0] /\ sent = <<>> /\ received = <<>>
  BY DEF Sem!Init
<1>2. \A t \in SemWorkers : Calls(t) = 0
  BY <1>1, SemThreads DEF Calls
<1>3. ASSUME NEW S \in {Sem!Producers, Sem!Consumers}
      PROVE  SumOf(CallsOf(S), S) = 0
  <2>1. \A t \in S : CallsOf(S)[t] = 0
    BY <1>2 DEF CallsOf, SemWorkers
  <2>2. IsFiniteSet(S) /\ Cardinality(S) \in Nat
    BY SemThreads, FS_CardinalityType
  <2>3. SumOf(CallsOf(S), S) = Cardinality(S) * 0
    BY <2>1, <2>2, SumConst
  <2> QED
    BY <2>2, <2>3
<1>4. Len(sent) = 0 /\ Len(received) = 0
  BY <1>1
<1>5. PutItems = {}
  BY <1>2 DEF PutItems, SemWorkers
<1>6. Prefix(received, sent) /\ {sent[j] : j \in 1 .. Len(sent)} = {}
  BY <1>4 DEF Prefix
<1> QED
  BY <1>3, <1>4, <1>5, <1>6 DEF SemCount

LEMMA SemPasses == ASSUME SemInv, SemCount PROVE Sem!Passes
<1> SUFFICES ASSUME pc[Sem!main] = "done"
             PROVE  /\ Sem!Range(received) = Sem!Items
                    /\ Len(received) = SEM_PRODUCERS * ITEMS_PER_PRODUCER
  BY DEF Sem!Passes
<1>1. \A t \in SemWorkers : Calls(t) = ITEMS_PER_PRODUCER
  BY DEF SemInv, SemPcInv, Calls
<1>2. ASSUME NEW S \in {Sem!Producers, Sem!Consumers}
      PROVE  SumOf(CallsOf(S), S) = SEM_PRODUCERS * ITEMS_PER_PRODUCER
  <2>1. \A t \in S : CallsOf(S)[t] = ITEMS_PER_PRODUCER
    BY <1>1 DEF CallsOf, SemWorkers
  <2>2. IsFiniteSet(S) /\ ITEMS_PER_PRODUCER \in Int
    BY SemThreads, SemConstants
  <2>3. SumOf(CallsOf(S), S) = Cardinality(S) * ITEMS_PER_PRODUCER
    BY <2>1, <2>2, SumConst
  <2>4. PICK tag : S = {tag} \X (1 .. SEM_PRODUCERS)
    BY SemConstants DEF Sem!Producers, Sem!Consumers
  <2>5. Cardinality(S) = SEM_PRODUCERS
    <3>1. IsFiniteSet(1 .. SEM_PRODUCERS) /\ Cardinality(1 .. SEM_PRODUCERS) = SEM_PRODUCERS
      BY SemConstants, FS_Interval
    <3>2. IsFiniteSet({tag}) /\ Cardinality({tag}) = 1
      BY FS_Singleton
    <3>3. Cardinality({tag} \X (1 .. SEM_PRODUCERS)) = 1 * SEM_PRODUCERS
      BY <3>1, <3>2, FS_Product
    <3> QED
      BY <2>4, <3>3, SemConstants
  <2> QED
    BY <2>3, <2>5
<1>3. /\ Len(sent) = SEM_PRODUCERS * ITEMS_PER_PRODUCER
      /\ Len(received) = SEM_PRODUCERS * ITEMS_PER_PRODUCER
  BY <1>2 DEF SemCount
<1>4. PutItems = Sem!Items
  <2>1. ASSUME NEW x \in PutItems PROVE x \in Sem!Items
    <3>1. PICK t \in Sem!Producers, k \in Nat : k < Calls(t) /\ x = t[2] * 100 + k
      BY DEF PutItems
    <3>2. t[2] \in 1 .. SEM_PRODUCERS /\ k \in 0 .. ITEMS_PER_PRODUCER - 1
      BY <1>1, <3>1, SemThreads, SemConstants DEF SemWorkers
    <3> QED
      BY <3>1, <3>2 DEF Sem!Items
  <2>2. ASSUME NEW x \in Sem!Items PROVE x \in PutItems
    <3>1. PICK n \in 1 .. SEM_PRODUCERS, k \in 0 .. ITEMS_PER_PRODUCER - 1 : x = n * 100 + k
      BY DEF Sem!Items
    <3>2. <<"producer", n>> \in Sem!Producers
      BY DEF Sem!Producers
    <3>3. k \in Nat /\ k < Calls(<<"producer", n>>) /\ n \in Int
      BY <1>1, <3>2, SemConstants DEF SemWorkers
    <3> QED
      BY <3>1, <3>2, <3>3 DEF PutItems
  <2> QED
    BY <2>1, <2>2
<1>5. Sem!Range(received) = {sent[j] : j \in 1 .. Len(sent)}
  <2>1. DOMAIN received = 1 .. Len(received)
    BY SemSeqs
  <2> QED
    BY <1>3, <2>1 DEF Sem!Range, SemCount, Prefix
<1> QED
  BY <1>3, <1>4, <1>5 DEF SemCount

-----------------------------------------------------------------------------
(* bounded_buffer.c: the items, their sum and the STOPs in a sequence       *)

Count == [x \in Int |-> IF x = Cond!STOP THEN 0 ELSE 1]
Value == [x \in Int |-> IF x = Cond!STOP THEN 0 ELSE x]
Stops == [x \in Int |-> IF x = Cond!STOP THEN 1 ELSE 0]

SeqSum(w, s) == SumOf([j \in 1 .. Len(s) |-> w[s[j]]], 1 .. Len(s))

LEMMA UpTo == ASSUME NEW n \in Nat
              PROVE  /\ IsFiniteSet(1 .. n)
                     /\ (1 .. n) \cup {n + 1} = 1 .. n + 1 /\ n + 1 \notin 1 .. n
                     /\ \A m \in Nat : m < n => /\ 1 .. m \in SUBSET ((1 .. n) \ {n})
                                                /\ n \in 1 .. n
<1>1. IsFiniteSet(1 .. n)
  BY FS_Interval
<1>2. \A j : j \in (1 .. n) \cup {n + 1} <=> j \in 1 .. n + 1
  OBVIOUS
<1>3. (1 .. n) \cup {n + 1} = 1 .. n + 1
  BY <1>2
<1> QED
  BY <1>1, <1>3

LEMMA SeqSumEmpty == ASSUME NEW w PROVE SeqSum(w, <<>>) = 0
BY SumEmpty DEF SeqSum

LEMMA SeqSumAppend ==
  ASSUME NEW w \in [Int -> Int], NEW s \in Seq(Int), NEW x \in Int
  PROVE  SeqSum(w, Append(s, x)) = SeqSum(w, s) + w[x]
<1> DEFINE n == Len(s)
           t == Append(s, x)
           f == [j \in 1 .. n |-> w[s[j]]]
           e == [j \in 1 .. n + 1 |-> w[t[j]]]
<1>1. /\ n \in Nat /\ Len(t) = n + 1 /\ t[n + 1] = x
      /\ \A j \in 1 .. n : t[j] = s[j] /\ s[j] \in Int
  BY AppendProperties, ElementOfSeq, LenProperties
<1> HIDE DEF n, t
<1>2. /\ \A j \in 1 .. n : e[j] = f[j]
      /\ \A j \in 1 .. n : e[j] \in Int
      /\ e[n + 1] = w[x] /\ w[x] \in Int
  <2>1. \A j \in 1 .. n : j \in 1 .. n + 1
    BY <1>1
  <2>2. n + 1 \in 1 .. n + 1
    BY <1>1
  <2>3. \A j \in 1 .. n + 1 : e[j] = w[t[j]]
    OBVIOUS
  <2>4. \A j \in 1 .. n : f[j] = w[s[j]]
    OBVIOUS
  <2> HIDE DEF e, f
  <2> QED
    BY <1>1, <2>1, <2>2, <2>3, <2>4
<1> HIDE DEF e, f
<1>3. SumOf(e, (1 .. n) \cup {n + 1}) = SumOf(e, 1 .. n) + e[n + 1]
  <2>1. n + 1 \notin 1 .. n /\ IsFiniteSet(1 .. n)
    BY <1>1, UpTo
  <2>2. \A j \in (1 .. n) \cup {n + 1} : e[j] \in Int
    BY <1>2
  <2> DEFINE S == 1 .. n
             c == n + 1
  <2>3. c \notin S /\ IsFiniteSet(S) /\ \A j \in S \cup {c} : e[j] \in Int
    BY <2>1, <2>2
  <2> HIDE DEF S, c
  <2>4. SumOf(e, S \cup {c}) = SumOf(e, S) + e[c]
    BY <2>3, SumAdd
  <2> QED
    BY <2>4 DEF S, c
<1>4. SumOf(e, 1 .. n) = SumOf(f, 1 .. n)
  BY <1>1, <1>2, UpTo, SumEqual
<1>5. SumOf(e, 1 .. n + 1) = SumOf(f, 1 .. n) + w[x]
  <2>1. (1 .. n) \cup {n + 1} = 1 .. n + 1
    BY <1>1, UpTo
  <2>2. SumOf(e, 1 .. n + 1) = SumOf(e, 1 .. n) + e[n + 1]
    BY <1>3, <2>1, Zenon
  <2> QED
    BY <1>2, <1>4, <2>2
<1>6. SeqSum(w, t) = SumOf(e, 1 .. n + 1)
  BY <1>1 DEF SeqSum, e
<1>7. SeqSum(w, s) = SumOf(f, 1 .. n)
  BY DEF SeqSum, f, n
<1> QED
  BY <1>5, <1>6, <1>7 DEF t

LEMMA SeqSumInt ==
  ASSUME NEW w \in [Int -> Int], NEW s \in Seq(Int)
  PROVE  SeqSum(w, s) \in Int
<1> DEFINE f == [j \in 1 .. Len(s) |-> w[s[j]]]
<1>1. Len(s) \in Nat /\ \A j \in 1 .. Len(s) : s[j] \in Int
  BY ElementOfSeq, LenProperties
<1>2. \A j \in 1 .. Len(s) : f[j] \in Int
  BY <1>1
<1> HIDE DEF f
<1>3. SumOf(f, 1 .. Len(s)) \in Int
  BY <1>1, <1>2, UpTo, SumInt
<1> QED
  BY <1>3 DEF SeqSum, f

LEMMA SeqSumPrefix ==
  ASSUME NEW w \in [Int -> Nat], NEW r \in Seq(Int), NEW s \in Seq(Int),
         Prefix(r, s), Len(r) < Len(s)
  PROVE  SeqSum(w, r) + w[s[Len(s)]] <= SeqSum(w, s)
<1> DEFINE n == Len(s)
           m == Len(r)
           f == [j \in 1 .. n |-> w[s[j]]]
           e == [j \in 1 .. m |-> w[r[j]]]
<1>1. /\ n \in Nat /\ m \in Nat /\ m < n
      /\ \A j \in 1 .. n : s[j] \in Int
      /\ \A j \in 1 .. m : r[j] = s[j]
  BY ElementOfSeq, LenProperties DEF Prefix
<1>2. SeqSum(w, s) = SumOf(f, 1 .. n) /\ SeqSum(w, r) = SumOf(e, 1 .. m)
  BY DEF SeqSum
<1> HIDE DEF n, m
<1>3. /\ \A j \in 1 .. n : f[j] \in Nat
      /\ \A j \in 1 .. m : e[j] = f[j]
      /\ f[n] = w[s[n]] /\ n \in 1 .. n
  <2>1. n \in 1 .. n /\ \A j \in 1 .. m : j \in 1 .. n
    BY <1>1, UpTo
  <2>2. (\A j \in 1 .. n : f[j] = w[s[j]]) /\ \A j \in 1 .. m : e[j] = w[r[j]]
    OBVIOUS
  <2> HIDE DEF e, f
  <2>3. \A j \in 1 .. n : f[j] \in Nat
    BY <1>1, <2>2
  <2>4. ASSUME NEW j \in 1 .. m PROVE e[j] = f[j]
    <3>1. e[j] = w[r[j]] /\ f[j] = w[s[j]]
      BY <2>1, <2>2
    <3>2. r[j] = s[j]
      BY <1>1
    <3> QED
      BY <3>1, <3>2, Zenon
  <2> QED
    BY <2>1, <2>2, <2>3, <2>4
<1>6. 1 .. m \in SUBSET ((1 .. n) \ {n})
  BY <1>1, UpTo
<1> HIDE DEF e, f
<1>4. SumOf(f, 1 .. m) + f[n] <= SumOf(f, 1 .. n)
  BY <1>1, <1>3, <1>6, UpTo, SumPart
<1>5. SumOf(e, 1 .. m) = SumOf(f, 1 .. m)
  BY <1>1, <1>3, UpTo, SumEqual
<1> QED
  BY <1>2, <1>3, <1>4, <1>5 DEF n

LEMMA SeqSumSame ==
  ASSUME NEW w, NEW r \in Seq(Int), NEW s \in Seq(Int), Prefix(r, s), Len(r) = Len(s)
  PROVE  SeqSum(w, r) = SeqSum(w, s)
<1> DEFINE f == [j \in 1 .. Len(s) |-> w[s[j]]]
           e == [j \in 1 .. Len(s) |-> w[r[j]]]
<1>1. \A j \in 1 .. Len(s) : e[j] = f[j]
  BY DEF Prefix
<1> HIDE DEF e, f
<1>2. IsFiniteSet(1 .. Len(s))
  BY UpTo, LenProperties
<1>3. SumOf(e, 1 .. Len(s)) = SumOf(f, 1 .. Len(s))
  BY <1>1, <1>2, SumEqual
<1> QED
  BY <1>3 DEF SeqSum, e, f

(* What the consumers have counted, with weight w, in base, together with   *)
(* the items they have taken and not counted yet.                           *)
Tally(w, base, p, it) ==
  [t \in Cond!Consumers |-> base[t] + (IF p[t] = "get_leave" THEN w[it[t]] ELSE 0)]
TallySum(w, base, p, it) == SumOf(Tally(w, base, p, it), Cond!Consumers)

LEMMA ConsumersFinite == IsFiniteSet(Cond!Consumers) /\ Cond!Consumers \subseteq Cond!Threads
<1>1. Cond!Consumers \subseteq Cond!Threads
  BY DEF Cond!Threads
<1> QED
  BY <1>1, CondThreads, FS_Subset

LEMMA TallyTake ==
  ASSUME NEW w \in [Int -> Int], NEW base \in [Cond!Consumers -> Int],
         NEW p, NEW q, NEW it \in [Cond!Consumers -> Int], NEW jt \in [Cond!Consumers -> Int],
         NEW t \in Cond!Consumers, p[t] # "get_leave", q[t] = "get_leave",
         \A u \in Cond!Consumers \ {t} :
           jt[u] = it[u] /\ (q[u] = "get_leave" <=> p[u] = "get_leave")
  PROVE  TallySum(w, base, q, jt) = TallySum(w, base, p, it) + w[jt[t]]
<1> DEFINE f == Tally(w, base, p, it)
           e == Tally(w, base, q, jt)
<1>1. \A u \in Cond!Consumers : f[u] \in Int /\ e[u] \in Int
  BY DEF Tally
<1>2. /\ f[t] = base[t] /\ e[t] = base[t] + w[jt[t]]
      /\ base[t] \in Int /\ w[jt[t]] \in Int
      /\ \A u \in Cond!Consumers \ {t} : e[u] = f[u]
  BY DEF Tally
<1> HIDE DEF e, f
<1>3. /\ SumOf(e, Cond!Consumers) = SumOf(f, Cond!Consumers) - f[t] + e[t]
      /\ SumOf(f, Cond!Consumers) \in Int
  BY <1>1, <1>2, ConsumersFinite, SumUpdate, SumInt
<1> QED
  BY <1>2, <1>3 DEF TallySum, e, f

LEMMA TallySame ==
  ASSUME NEW w, NEW base, NEW base2, NEW p, NEW q, NEW it, NEW jt,
         \A u \in Cond!Consumers :
           base[u] + (IF p[u] = "get_leave" THEN w[it[u]] ELSE 0)
           = base2[u] + (IF q[u] = "get_leave" THEN w[jt[u]] ELSE 0)
  PROVE  TallySum(w, base, p, it) = TallySum(w, base2, q, jt)
<1> DEFINE f == Tally(w, base, p, it)
           e == Tally(w, base2, q, jt)
<1>1. \A u \in Cond!Consumers : f[u] = e[u]
  BY DEF Tally
<1> HIDE DEF e, f
<1> QED
  BY <1>1, ConsumersFinite, SumEqual DEF TallySum, e, f

(* Who runs which code, and what main() has waited for.                     *)
GetPCs == {"get_lock", "get_test", "get_wait", "get_leave"}
AwaitsProducers == pc[Cond!main] \in {"create", "join_producers"}
RolesInv ==
  /\ \A t \in Cond!Producers : /\ pc[t] \in {"new", "done"} \cup PutPCs
                               /\ pc[t] = "done" => i[t] = PER_PRODUCER
  /\ \A t \in Cond!Consumers : pc[t] \in {"new", "done"} \cup GetPCs
  /\ pc[Cond!main] \in {"create", "join_producers", "join_consumers", "done"} \cup PutPCs
  /\ ~ AwaitsProducers => \A t \in Cond!Producers : pc[t] = "done"
  /\ pc[Cond!main] = "done" => \A t \in Cond!Consumers : pc[t] = "done"

Stopped(p) == [t \in Cond!Consumers |-> IF p[t] = "done" THEN 1 ELSE 0]
TakenInv ==
  /\ item \in [Cond!Consumers -> Int]
  /\ consumed_count \in [Cond!Consumers -> Int] /\ consumed_sum \in [Cond!Consumers -> Int]
  /\ SeqSum(Count, received) = TallySum(Count, consumed_count, pc, item)
  /\ SeqSum(Value, received) = TallySum(Value, consumed_sum, pc, item)
  /\ SeqSum(Stops, received) = TallySum(Stops, Stopped(pc), pc, item)

LEMMA Weights ==
  /\ Count \in [Int -> Int] /\ Value \in [Int -> Int]
  /\ Stops \in [Int -> Int] /\ Stops \in [Int -> Nat]
BY DEF Count, Value, Stops

LEMMA CondSeqs ==
  CondInv => /\ sent \in Seq(Int) /\ received \in Seq(Int)
             /\ Len(received) <= Len(sent)
BY CondConstants DEF CondInv, CondRing, Ring

LEMMA TakenStill ==
  ASSUME TakenInv, UNCHANGED <<item, consumed_count, consumed_sum, received>>,
         \A t \in Cond!Consumers : /\ pc'[t] = "get_leave" <=> pc[t] = "get_leave"
                                   /\ pc'[t] = "done" <=> pc[t] = "done"
  PROVE  TakenInv'
<1>1. /\ TallySum(Count, consumed_count, pc, item) = TallySum(Count, consumed_count, pc', item)
      /\ TallySum(Value, consumed_sum, pc, item) = TallySum(Value, consumed_sum, pc', item)
  BY TallySame
<1>2. Stopped(pc') = Stopped(pc)
  BY DEF Stopped
<1>3. TallySum(Stops, Stopped(pc), pc, item) = TallySum(Stops, Stopped(pc'), pc', item)
  BY <1>2, TallySame
<1> QED
  BY <1>1, <1>3 DEF TakenInv

LEMMA CondBounds == NUM_CONSUMERS \in Nat /\ NUM_CONSUMERS > 0 /\ PER_PRODUCER \in 1 .. 1000
BY BuffersAssumption DEF Cond!CondBufferAssumption

(* What the producers have put.  main() puts its STOPs after them.          *)
Made(t) == IF pc[t] = "put_leave" THEN i[t] + 1 ELSE i[t]
MadeOf == [t \in Cond!Producers |-> Made(t)]
MadeItems ==
  {x \in Int : \E t \in Cond!Producers, k \in Nat : k < Made(t) /\ x = t[2] * 1000 + k}
Ident == [x \in Int |-> x]
StopsPut ==
  IF AwaitsProducers THEN 0
  ELSE IF pc[Cond!main] \in PutPCs THEN Made(Cond!main) ELSE NUM_CONSUMERS

SentInv ==
  /\ IsFiniteSet(MadeItems)
  /\ SeqSum(Count, sent) = SumOf(MadeOf, Cond!Producers)
  /\ SeqSum(Value, sent) = SumOf(Ident, MadeItems)
  /\ SeqSum(Stops, sent) = StopsPut
  /\ StopsPut > 0 => Len(sent) > 0 /\ sent[Len(sent)] = Cond!STOP

CountInv == RolesInv /\ TakenInv /\ SentInv /\ Prefix(received, sent)

LEMMA SentStill ==
  ASSUME SentInv, sent' = sent, \A t \in Cond!Producers : Made(t)' = Made(t),
         StopsPut' = StopsPut
  PROVE  SentInv'
<1>1. MadeOf' = MadeOf /\ MadeItems' = MadeItems
  BY DEF MadeOf, MadeItems
<1> QED
  BY <1>1 DEF SentInv

(* A thread that moves within its code, and nothing is put or taken.        *)
LEMMA TakenQuiet ==
  ASSUME TakenInv, UNCHANGED <<item, consumed_count, consumed_sum, received>>,
         NEW t \in Cond!Threads, NEW l, CondMoves(t, l),
         t \in Cond!Consumers => {pc[t], l} \cap {"get_leave", "done"} = {}
  PROVE  TakenInv'
<1>1. \A u \in Cond!Consumers : /\ pc'[u] = "get_leave" <=> pc[u] = "get_leave"
                                /\ pc'[u] = "done" <=> pc[u] = "done"
  BY ConsumersFinite DEF CondMoves
<1> QED
  BY <1>1, TakenStill

LEMMA RolesMove ==
  ASSUME RolesInv, NEW t \in CondWorkers, NEW l, CondMoves(t, l), pc[t] # "done",
         \A u \in CondWorkers \ {t} : i'[u] = i[u],
         t \in Cond!Producers => l \in PutPCs \/ (l = "done" /\ i'[t] = PER_PRODUCER),
         t \in Cond!Consumers => l \in GetPCs \cup {"done"}
  PROVE  RolesInv'
<1> USE CondThreads DEF CondMoves, CondWorkers
<1>1. \/ pc'[Cond!main] = pc[Cond!main]
      \/ pc[Cond!main] = "put_wait" /\ pc'[Cond!main] = "put_lock"
  BY DEF RolesInv, GetPCs, PutPCs
<1>2. AwaitsProducers' <=> AwaitsProducers
  BY <1>1 DEF AwaitsProducers
<1>3. \A u \in CondWorkers : pc[u] = "done" => pc'[u] = "done"
  OBVIOUS
<1>4. \A u \in Cond!Producers : /\ pc'[u] \in {"new", "done"} \cup PutPCs
                                /\ pc'[u] = "done" => i'[u] = PER_PRODUCER
  BY DEF RolesInv, PutPCs
<1>5. \A u \in Cond!Consumers : pc'[u] \in {"new", "done"} \cup GetPCs
  BY DEF RolesInv, GetPCs
<1>6. pc'[Cond!main] \in {"create", "join_producers", "join_consumers", "done"} \cup PutPCs
  BY <1>1 DEF RolesInv, PutPCs
<1> QED
  BY <1>1, <1>2, <1>3, <1>4, <1>5, <1>6 DEF RolesInv

LEMMA RolesMain ==
  ASSUME RolesInv, NEW l, CondMoves(Cond!main, l),
         \A u \in CondWorkers : i'[u] = i[u],
         l \in {"join_producers", "join_consumers", "done"} \cup PutPCs,
         AwaitsProducers' \/ \A u \in Cond!Producers : pc[u] = "done",
         l = "done" => \A u \in Cond!Consumers : pc[u] = "done"
  PROVE  RolesInv'
<1> USE CondThreads DEF CondMoves, CondWorkers
<1>3. \A u \in CondWorkers : pc[u] = "done" => pc'[u] = "done"
  OBVIOUS
<1>4. \A u \in Cond!Producers : /\ pc'[u] \in {"new", "done"} \cup PutPCs
                                /\ pc'[u] = "done" => i'[u] = PER_PRODUCER
  BY DEF RolesInv, PutPCs
<1>5. \A u \in Cond!Consumers : pc'[u] \in {"new", "done"} \cup GetPCs
  BY DEF RolesInv, GetPCs
<1> QED
  BY <1>3, <1>4, <1>5 DEF RolesInv

LEMMA MainCounts ==
  ASSUME CondInv, CountInv, Cond!Main
  PROVE  RolesInv' /\ TakenInv' /\ SentInv'
<1> USE DEF CondInv, CountInv
<1>1. /\ UNCHANGED <<item, consumed_count, consumed_sum, sent, received>>
      /\ Cond!main \in Cond!Threads /\ CondWorkers \subseteq Cond!Threads
      /\ Cond!main \notin CondWorkers
      /\ Cond!Consumers \subseteq CondWorkers /\ Cond!Producers \subseteq CondWorkers
  BY CondThreads DEF Cond!Main, Cond!Create, Cond!AllCreated, Cond!JoinProducers,
     Cond!JoinConsumers, Cond!statVars, CondWorkers
<1>2. CASE Cond!Create
  <2> DEFINE t == Cond!Created(i[Cond!main])
             l == IF t \in Cond!Consumers THEN "get_lock" ELSE "put_lock"
  <2>1. /\ pc[Cond!main] = "create" /\ i[Cond!main] < NUM_CONSUMERS + NUM_PRODUCERS
        /\ Cond!Goto(t, l) /\ i' = [i EXCEPT ![Cond!main] = @ + 1]
    BY <1>2 DEF Cond!Create
  <2>2. t \in CondWorkers /\ pc[t] = "new" /\ i[Cond!main] \in Nat
    BY <1>1, <2>1, CondCreated DEF CondPcInv
  <2>3. l \in Cond!PCs /\ l \in {"get_lock", "put_lock"}
        /\ (l = "get_lock" <=> t \in Cond!Consumers)
    BY CondPCsAre
  <2> HIDE DEF t, l
  <2>4. CondMoves(t, l) /\ \A u \in Cond!Threads \ {t} : pc'[u] = pc[u]
    BY <1>1, <2>1, <2>2, <2>3, CondGoto
  <2>5. pc'[t] = l /\ pc'[Cond!main] = "create" /\ \A u \in CondWorkers : i'[u] = i[u]
    BY <1>1, <2>1, <2>2, <2>4 DEF CondMoves, CondPcInv
  <2>6. RolesInv'
    BY <2>2, <2>3, <2>4, <2>5, RolesMove, CondThreads DEF GetPCs, PutPCs
  <2>7. TakenInv'
    BY <1>1, <2>2, <2>3, <2>4, TakenQuiet
  <2>8. \A u \in Cond!Producers : Made(u)' = Made(u)
    BY <1>1, <2>2, <2>3, <2>4, <2>5 DEF Made
  <2>9. SentInv'
    BY <1>1, <2>1, <2>5, <2>8, SentStill DEF StopsPut, AwaitsProducers
  <2> QED
    BY <2>6, <2>7, <2>9
<1>3. CASE Cond!AllCreated \/ Cond!JoinProducers \/ Cond!JoinConsumers
  <2>1. PICK l \in Cond!PCs : Cond!Goto(Cond!main, l) /\
          \/ /\ pc[Cond!main] = "create" /\ l = "join_producers" /\ i' = i
          \/ /\ pc[Cond!main] = "join_producers" /\ l = "put_lock" /\ Cond!ProducersDone
             /\ i' = [i EXCEPT ![Cond!main] = 0]
          \/ /\ pc[Cond!main] = "join_consumers" /\ l = "done" /\ i' = i
             /\ \A u \in Cond!Consumers : pc[u] = "done"
    BY <1>3, CondPCsAre, CondBounds
    DEF Cond!AllCreated, Cond!JoinProducers, Cond!JoinConsumers
  <2>2. CondMoves(Cond!main, l) /\ \A u \in Cond!Threads \ {Cond!main} : pc'[u] = pc[u]
    BY <1>1, <2>1, CondGoto
  <2>3. pc'[Cond!main] = l /\ \A u \in CondWorkers : i'[u] = i[u] /\ pc'[u] = pc[u]
    BY <1>1, <2>1, <2>2 DEF CondMoves, CondPcInv
  <2>4. RolesInv'
    <3>1. AwaitsProducers' \/ \A u \in Cond!Producers : pc[u] = "done"
      BY <2>1, <2>3 DEF AwaitsProducers, RolesInv, Cond!ProducersDone
    <3>2. l \in {"join_producers", "join_consumers", "done"} \cup PutPCs
          /\ (l = "done" => \A u \in Cond!Consumers : pc[u] = "done")
      BY <2>1 DEF PutPCs
    <3> QED
      BY <2>2, <2>3, <3>1, <3>2, RolesMain
  <2>5. TakenInv'
    BY <1>1, <2>2, TakenQuiet
  <2>6. \A u \in Cond!Producers : Made(u)' = Made(u)
    BY <1>1, <2>3 DEF Made
  <2>7. StopsPut' = StopsPut
    <3>1. l = "put_lock" => i'[Cond!main] = 0
      BY <1>1, <2>1 DEF CondPcInv
    <3> QED
      BY <2>1, <2>3, <3>1 DEF StopsPut, AwaitsProducers, Made, PutPCs
  <2> QED
    BY <1>1, <2>4, <2>5, <2>6, <2>7, SentStill
<1> QED
  BY <1>2, <1>3 DEF Cond!Main

(* A thread locks, waits, or wakes without a signal.                        *)
LEMMA WaitCounts ==
  ASSUME CondInv, CountInv, NEW t \in Cond!Threads,
         \/ Cond!PutLock(t) \/ Cond!PutWait(t)
         \/ t \in Cond!Consumers /\ (Cond!GetLock(t) \/ Cond!GetWait(t))
         \/ Cond!Spurious(t, "put_wait", "put_lock") \/ Cond!Spurious(t, "get_wait", "get_lock")
  PROVE  RolesInv' /\ TakenInv' /\ SentInv'
<1> USE DEF CondInv, CountInv
<1>1. UNCHANGED <<i, item, consumed_count, consumed_sum, sent, received>>
  BY DEF Cond!PutLock, Cond!PutWait, Cond!GetLock, Cond!GetWait, Cond!Lock, Cond!cond_wait,
     Cond!Spurious, Cond!statVars
<1>2. PICK l \in Cond!PCs : /\ Cond!Goto(t, l)
                            /\ \/ /\ pc[t] \in PutPCs \ {"put_leave"}
                                  /\ l \in PutPCs \ {"put_leave"}
                               \/ /\ pc[t] \in GetPCs \ {"get_leave"}
                                  /\ l \in GetPCs \ {"get_leave"}
  BY CondPCsAre DEF Cond!PutLock, Cond!PutWait, Cond!GetLock, Cond!GetWait, Cond!Lock,
     Cond!cond_wait, Cond!Spurious, PutPCs, GetPCs
<1>3. CondMoves(t, l) /\ \A u \in Cond!Threads \ {t} : pc'[u] = pc[u]
  BY <1>2, CondGoto
<1>4. pc'[t] = l /\ t \in {Cond!main} \cup CondWorkers
      /\ Cond!main \notin CondWorkers /\ CondWorkers \subseteq Cond!Threads
  BY <1>3, CondThreads DEF CondMoves
<1>5. /\ t \in Cond!Producers \/ t = Cond!main => pc[t] \in PutPCs /\ l \in PutPCs
      /\ t \in Cond!Consumers => pc[t] \in GetPCs /\ l \in GetPCs
  BY <1>2, CondThreads DEF CondPcInv, PutPCs, GetPCs, RolesInv
<1>6. RolesInv'
  <2>1. CASE t = Cond!main
    <3>1. \A u \in Cond!Producers : pc[u] = "done"
      BY <1>5, <2>1 DEF RolesInv, AwaitsProducers, PutPCs
    <3> QED
      BY <1>1, <1>3, <1>5, <2>1, <3>1, RolesMain DEF PutPCs
  <2>2. CASE t \in CondWorkers
    <3>1. pc[t] # "done"
      BY <1>2 DEF PutPCs, GetPCs
    <3> QED
      BY <1>1, <1>3, <1>5, <2>2, <3>1, RolesMove DEF CondWorkers
  <2> QED
    BY <1>4, <2>1, <2>2
<1>7. TakenInv'
  <2>1. t \in Cond!Consumers => {pc[t], l} \cap {"get_leave", "done"} = {}
    BY <1>2 DEF PutPCs, GetPCs
  <2> QED
    BY <1>1, <1>3, <2>1, TakenQuiet
<1>8. SentInv'
  <2>1. \A u \in Cond!Threads : Made(u)' = Made(u)
    BY <1>1, <1>2, <1>3, <1>4 DEF Made, PutPCs, GetPCs
  <2>2. Cond!Producers \subseteq Cond!Threads /\ Cond!main \in Cond!Threads
    BY CondThreads DEF CondWorkers
  <2>3. StopsPut' = StopsPut
    <3>1. CASE t = Cond!main
      BY <1>3, <1>4, <1>5, <2>1, <2>2, <3>1 DEF StopsPut, AwaitsProducers, PutPCs
    <3>2. CASE t # Cond!main
      BY <1>3, <2>1, <2>2, <3>2 DEF StopsPut, AwaitsProducers, PutPCs
    <3> QED
      BY <3>1, <3>2
  <2> QED
    BY <1>1, <2>1, <2>2, <2>3, SentStill
<1> QED
  BY <1>6, <1>7, <1>8

(* buffer_put() ends.                                                       *)
LEMMA PutLeaveCounts ==
  ASSUME CondInv, CountInv, NEW t \in Cond!Threads, Cond!PutLeave(t)
  PROVE  RolesInv' /\ TakenInv' /\ SentInv'
<1> USE DEF CondInv, CountInv
<1> DEFINE l == Cond!NextPut(t)
<1>1. /\ pc[t] = "put_leave" /\ Cond!SignalAndGoto("get_wait", "get_lock", t, l)
      /\ i' = [i EXCEPT ![t] = @ + 1]
      /\ UNCHANGED <<item, consumed_count, consumed_sum, sent, received>>
  BY DEF Cond!PutLeave, Cond!SignalGet, Cond!statVars
<1>2. l \in Cond!PCs
  BY NextPutIs, CondPCsAre
<1>3. t \notin Cond!Consumers /\ i[t] < Cond!Puts(t)
  BY <1>1 DEF CondPcInv, PutPCs
<1>4. /\ i[t] \in Nat /\ i'[t] = i[t] + 1 /\ \A u \in Cond!Threads \ {t} : i'[u] = i[u]
      /\ CondWorkers \subseteq Cond!Threads /\ t \in {Cond!main} \cup CondWorkers
      /\ Cond!main \notin CondWorkers /\ Cond!main \in Cond!Threads
  BY <1>1, CondThreads DEF CondPcInv
<1>5. /\ l \in {"put_lock", "join_consumers", "done"}
      /\ l # "put_lock" => l = Cond!AfterPuts(t) /\ i'[t] = Cond!Puts(t)
  <2>1. Cond!Puts(t) \in Nat
    BY CondConstants DEF Cond!Puts
  <2> QED
    BY <1>3, <1>4, <2>1 DEF Cond!NextPut, Cond!AfterPuts
<1> HIDE DEF l
<1>6. CondMoves(t, l)
  BY <1>1, <1>2, CondSignal
<1>7. \A u \in Cond!Threads \ {t} : pc'[u] # pc[u] => pc[u] = "get_wait" /\ pc'[u] = "get_lock"
  <2>1. \/ Wakes("get_wait", "get_lock", t)
        \/ \A u \in Cond!Threads \ {t} : pc'[u] = pc[u]
    BY <1>1, <1>2, CondSignal
  <2> QED
    BY <2>1 DEF Wakes
<1>8. RolesInv'
  <2>1. CASE t = Cond!main
    <3>1. \A u \in Cond!Producers : pc[u] = "done"
      BY <1>1, <2>1 DEF RolesInv, AwaitsProducers
    <3>2. l \in {"put_lock", "join_consumers"}
      BY <1>5, <2>1 DEF Cond!AfterPuts
    <3> QED
      BY <1>4, <1>6, <2>1, <3>1, <3>2, RolesMain DEF PutPCs
  <2>2. CASE t \in CondWorkers
    <3>1. l = "put_lock" \/ (l = "done" /\ i'[t] = PER_PRODUCER)
      BY <1>4, <1>5, <2>2 DEF Cond!AfterPuts, Cond!Puts
    <3> QED
      BY <1>1, <1>3, <1>4, <1>6, <2>2, <3>1, RolesMove DEF PutPCs
  <2> QED
    BY <1>4, <2>1, <2>2
<1>9. TakenInv'
  BY <1>1, <1>3, <1>6, TakenQuiet
<1>10. SentInv'
  <2>1. pc'[t] = l /\ l # "put_leave"
    BY <1>5, <1>6 DEF CondMoves
  <2>2. \A u \in Cond!Threads : Made(u)' = Made(u)
    BY <1>1, <1>4, <1>7, <2>1 DEF Made
  <2>3. StopsPut' = StopsPut
    <3>1. CASE t = Cond!main
      <4>1. StopsPut = i[t] + 1
        BY <1>1, <3>1 DEF StopsPut, AwaitsProducers, PutPCs, Made
      <4>2. CASE l = "put_lock"
        BY <1>4, <2>1, <3>1, <4>1, <4>2 DEF StopsPut, AwaitsProducers, PutPCs, Made
      <4>3. CASE l = "join_consumers"
        <5>1. i'[t] = NUM_CONSUMERS
          BY <1>5, <3>1, <4>3 DEF Cond!Puts
        <5> QED
          BY <1>4, <2>1, <3>1, <4>1, <4>3, <5>1 DEF StopsPut, AwaitsProducers, PutPCs
      <4> QED
        BY <1>5, <3>1, <4>2, <4>3 DEF Cond!AfterPuts
    <3>2. CASE t # Cond!main
      <4>1. pc'[Cond!main] = pc[Cond!main]
        BY <1>4, <1>7, <3>2 DEF RolesInv, PutPCs
      <4> QED
        BY <1>4, <2>2, <4>1 DEF StopsPut, AwaitsProducers
    <3> QED
      BY <3>1, <3>2
  <2>4. Cond!Producers \subseteq Cond!Threads
    BY <1>4 DEF CondWorkers
  <2> QED
    BY <1>1, <2>2, <2>3, <2>4, SentStill
<1> QED
  BY <1>8, <1>9, <1>10

LEMMA TallyFetched ==
  ASSUME NEW w \in [Int -> Int], NEW base \in [Cond!Consumers -> Int], NEW t \in Cond!Consumers,
         \A u \in Cond!Consumers \ {t} :
            item'[u] = item[u] /\ (pc'[u] = "get_leave" <=> pc[u] = "get_leave"),
         item \in [Cond!Consumers -> Int], item' \in [Cond!Consumers -> Int],
         pc[t] # "get_leave", pc'[t] = "get_leave"
  PROVE  TallySum(w, base, pc', item') = TallySum(w, base, pc, item) + w[item'[t]]
BY TallyTake

(* A consumer takes an item; it has not counted it yet.                     *)
LEMMA FetchCounts ==
  ASSUME CondInv, CountInv, NEW t \in Cond!Consumers, Cond!GetFetch(t)
  PROVE  RolesInv' /\ TakenInv' /\ SentInv'
<1> USE DEF CondInv, CountInv
<1> DEFINE x == buffer[out]
<1>1. /\ pc[t] = "get_test" /\ Cond!Goto(t, "get_leave")
      /\ item' = [item EXCEPT ![t] = x] /\ received' = Append(received, x)
      /\ UNCHANGED <<i, consumed_count, consumed_sum, sent>>
  BY DEF Cond!GetFetch
<1>2. x \in Int /\ received \in Seq(Int)
  BY DEF CondRing, Ring
<1> HIDE DEF x
<1>3. t \in Cond!Threads /\ t \in CondWorkers /\ t \notin Cond!Producers /\ t # Cond!main
      /\ Cond!main \in Cond!Threads /\ Cond!Producers \subseteq Cond!Threads
      /\ CondWorkers \subseteq Cond!Threads
  BY CondThreads DEF CondWorkers
<1>4. CondMoves(t, "get_leave") /\ \A u \in Cond!Threads \ {t} : pc'[u] = pc[u]
  BY <1>1, <1>3, CondPCsAre, CondGoto
<1>5. RolesInv'
  BY <1>1, <1>3, <1>4, RolesMove DEF GetPCs
<1>6. SentInv'
  <2>1. \A u \in Cond!Producers : Made(u)' = Made(u)
    BY <1>1, <1>3, <1>4 DEF Made
  <2>2. StopsPut' = StopsPut
    BY <1>1, <1>3, <1>4 DEF StopsPut, AwaitsProducers, Made
  <2> QED
    BY <1>1, <2>1, <2>2, SentStill
<1>7. TakenInv'
  <2>1. item' \in [Cond!Consumers -> Int] /\ item'[t] = x
        /\ \A u \in Cond!Consumers \ {t} : item'[u] = item[u]
    BY <1>1, <1>2 DEF TakenInv
  <2>2. /\ pc[t] # "get_leave" /\ pc'[t] = "get_leave"
        /\ \A u \in Cond!Consumers \ {t} : pc'[u] = pc[u]
    BY <1>1, <1>4, ConsumersFinite DEF CondMoves
  <2>3. ASSUME NEW w \in [Int -> Int], NEW base \in [Cond!Consumers -> Int]
        PROVE  /\ TallySum(w, base, pc', item') = TallySum(w, base, pc, item) + w[x]
               /\ SeqSum(w, received') = SeqSum(w, received) + w[x]
    <3>1. TallySum(w, base, pc', item') = TallySum(w, base, pc, item) + w[item'[t]]
      <4>1. /\ \A u \in Cond!Consumers \ {t} :
                 item'[u] = item[u] /\ (pc'[u] = "get_leave" <=> pc[u] = "get_leave")
            /\ item \in [Cond!Consumers -> Int] /\ item' \in [Cond!Consumers -> Int]
            /\ pc[t] # "get_leave" /\ pc'[t] = "get_leave"
        BY <2>1, <2>2 DEF TakenInv
      <4> QED
        BY <4>1, TallyFetched
    <3>2. SeqSum(w, received') = SeqSum(w, received) + w[x]
      BY <1>1, <1>2, SeqSumAppend
    <3> QED
      BY <2>1, <3>1, <3>2
  <2>4. Stopped(pc') = Stopped(pc) /\ Stopped(pc) \in [Cond!Consumers -> Int]
    BY <2>2, <1>1 DEF Stopped
  <2>5. /\ SeqSum(Count, received') = TallySum(Count, consumed_count, pc', item')
        /\ SeqSum(Value, received') = TallySum(Value, consumed_sum, pc', item')
        /\ SeqSum(Stops, received') = TallySum(Stops, Stopped(pc'), pc', item')
    BY <2>3, <2>4, Weights DEF TakenInv
  <2> QED
    BY <1>1, <2>1, <2>5 DEF TakenInv
<1> QED
  BY <1>5, <1>6, <1>7

(* A consumer counts the item it has taken, or stops.                       *)
LEMMA GetLeaveCounts ==
  ASSUME CondInv, CountInv, NEW t \in Cond!Consumers, Cond!GetLeave(t)
  PROVE  RolesInv' /\ TakenInv' /\ SentInv'
<1> USE DEF CondInv, CountInv
<1> DEFINE l == IF item[t] = Cond!STOP THEN "done" ELSE "get_lock"
<1>1. /\ pc[t] = "get_leave" /\ Cond!SignalAndGoto("put_wait", "put_lock", t, l)
      /\ UNCHANGED <<i, item, sent, received>>
      /\ IF item[t] = Cond!STOP
           THEN UNCHANGED <<consumed_count, consumed_sum>>
           ELSE /\ consumed_count' = [consumed_count EXCEPT ![t] = @ + 1]
                /\ consumed_sum' = [consumed_sum EXCEPT ![t] = @ + item[t]]
  BY DEF Cond!GetLeave
<1>2. l \in Cond!PCs /\ l \in {"done", "get_lock"} /\ (l = "done" <=> item[t] = Cond!STOP)
  BY CondPCsAre
<1> HIDE DEF l
<1>3. t \in Cond!Threads /\ t \in CondWorkers /\ t \notin Cond!Producers /\ t # Cond!main
      /\ Cond!main \in Cond!Threads /\ Cond!Producers \subseteq Cond!Threads
      /\ CondWorkers \subseteq Cond!Threads
  BY CondThreads DEF CondWorkers
<1>4. CondMoves(t, l)
  BY <1>1, <1>2, <1>3, CondSignal
<1>5. \A u \in Cond!Threads \ {t} : pc'[u] # pc[u] => pc[u] = "put_wait" /\ pc'[u] = "put_lock"
  <2>1. \/ Wakes("put_wait", "put_lock", t)
        \/ \A u \in Cond!Threads \ {t} : pc'[u] = pc[u]
    BY <1>1, <1>2, <1>3, CondSignal
  <2> QED
    BY <2>1 DEF Wakes
<1>6. RolesInv'
  BY <1>1, <1>2, <1>3, <1>4, RolesMove DEF GetPCs
<1>7. SentInv'
  <2>1. \A u \in Cond!Threads : Made(u)' = Made(u)
    BY <1>1, <1>2, <1>4, <1>5 DEF Made, CondMoves
  <2>2. StopsPut' = StopsPut
    BY <1>3, <1>5, <2>1 DEF StopsPut, AwaitsProducers, PutPCs
  <2> QED
    BY <1>1, <1>3, <2>1, <2>2, SentStill
<1>8. TakenInv'
  <2>1. /\ item \in [Cond!Consumers -> Int] /\ item[t] \in Int
        /\ consumed_count \in [Cond!Consumers -> Int] /\ consumed_sum \in [Cond!Consumers -> Int]
    BY DEF TakenInv
  <2>2. /\ pc'[t] = l
        /\ \A u \in Cond!Consumers \ {t} : /\ pc'[u] = "get_leave" <=> pc[u] = "get_leave"
                                           /\ pc'[u] = "done" <=> pc[u] = "done"
    BY <1>4, ConsumersFinite DEF CondMoves
  <2>3. \/ /\ item[t] = Cond!STOP /\ l = "done"
           /\ Count[item[t]] = 0 /\ Value[item[t]] = 0 /\ Stops[item[t]] = 1
           /\ consumed_count' = consumed_count /\ consumed_sum' = consumed_sum
        \/ /\ item[t] # Cond!STOP /\ l # "done"
           /\ Count[item[t]] = 1 /\ Value[item[t]] = item[t] /\ Stops[item[t]] = 0
           /\ consumed_count' = [consumed_count EXCEPT ![t] = @ + 1]
           /\ consumed_sum' = [consumed_sum EXCEPT ![t] = @ + item[t]]
    BY <1>1, <1>2, <2>1 DEF Count, Value, Stops
  <2>4. consumed_count' \in [Cond!Consumers -> Int] /\ consumed_sum' \in [Cond!Consumers -> Int]
    BY <2>1, <2>3
  <2>5. /\ consumed_count'[t] = consumed_count[t] + Count[item[t]]
        /\ consumed_sum'[t] = consumed_sum[t] + Value[item[t]]
        /\ Stopped(pc')[t] = 0 + Stops[item[t]] /\ Stopped(pc)[t] = 0
        /\ consumed_count[t] \in Int /\ consumed_sum[t] \in Int /\ Stops[item[t]] \in Int
    BY <1>1, <2>1, <2>2, <2>3 DEF Stopped
  <2>6. \A u \in Cond!Consumers \ {t} :
          /\ consumed_count'[u] = consumed_count[u] /\ consumed_sum'[u] = consumed_sum[u]
          /\ Stopped(pc')[u] = Stopped(pc)[u]
    BY <2>1, <2>2, <2>3 DEF Stopped
  <2>7. pc[t] = "get_leave" /\ pc'[t] # "get_leave"
    BY <1>1, <1>2, <2>2
  <2>8. \A u \in Cond!Consumers :
          consumed_count[u] + (IF pc[u] = "get_leave" THEN Count[item[u]] ELSE 0)
          = consumed_count'[u] + (IF pc'[u] = "get_leave" THEN Count[item[u]] ELSE 0)
    <3>1. consumed_count'[t] + 0 = consumed_count[t] + Count[item[t]]
      BY <2>1, <2>3, <2>5
    <3> QED
      BY <2>2, <2>6, <2>7, <3>1
  <2>9. \A u \in Cond!Consumers :
          consumed_sum[u] + (IF pc[u] = "get_leave" THEN Value[item[u]] ELSE 0)
          = consumed_sum'[u] + (IF pc'[u] = "get_leave" THEN Value[item[u]] ELSE 0)
    <3>1. consumed_sum'[t] + 0 = consumed_sum[t] + Value[item[t]]
      BY <2>1, <2>3, <2>5
    <3> QED
      BY <2>2, <2>6, <2>7, <3>1
  <2>10. \A u \in Cond!Consumers :
          Stopped(pc)[u] + (IF pc[u] = "get_leave" THEN Stops[item[u]] ELSE 0)
          = Stopped(pc')[u] + (IF pc'[u] = "get_leave" THEN Stops[item[u]] ELSE 0)
    <3>1. Stopped(pc')[t] + 0 = Stopped(pc)[t] + Stops[item[t]]
      BY <2>3, <2>5
    <3> QED
      BY <2>2, <2>6, <2>7, <3>1
  <2>11. /\ TallySum(Count, consumed_count, pc, item) = TallySum(Count, consumed_count', pc', item)
         /\ TallySum(Value, consumed_sum, pc, item) = TallySum(Value, consumed_sum', pc', item)
         /\ TallySum(Stops, Stopped(pc), pc, item) = TallySum(Stops, Stopped(pc'), pc', item)
    BY <2>8, <2>9, <2>10, TallySame
  <2> QED
    BY <1>1, <2>1, <2>4, <2>11 DEF TakenInv
<1> QED
  BY <1>6, <1>7, <1>8

(* No two puts of the producers put the same item.                          *)
LEMMA ItemIsNew ==
  ASSUME CondPcInv, RolesInv, NEW t \in Cond!Producers, pc[t] = "put_test"
  PROVE  /\ Cond!Item(t) \notin MadeItems /\ Cond!Item(t) \in Int
         /\ Cond!Item(t) = t[2] * 1000 + Made(t) /\ Cond!Item(t) # Cond!STOP
         /\ Made(t) \in Nat
<1>1. t \in Cond!Threads /\ t # Cond!main /\ Cond!Producers \subseteq Cond!Threads
  BY CondThreads DEF CondWorkers
<1>2. ASSUME NEW u \in Cond!Producers
      PROVE  /\ Made(u) \in Nat /\ Made(u) <= 1000
             /\ \E n \in 1 .. NUM_PRODUCERS : u = <<"producer", n>>
  <2>1. i[u] \in Nat /\ pc[u] \in {"new", "done"} \cup PutPCs
    BY <1>1 DEF CondPcInv, RolesInv
  <2>2. CASE pc[u] \in PutPCs
    <3>1. i[u] < PER_PRODUCER
      BY <1>1, <2>2, CondThreads DEF CondPcInv, Cond!Puts, CondWorkers
    <3> QED
      BY <2>1, <3>1, CondBounds DEF Made, Cond!Producers
  <2>3. CASE pc[u] \in {"new", "done"}
    <3>1. i[u] = 0 \/ i[u] = PER_PRODUCER
      BY <2>3 DEF CondPcInv, RolesInv, CondWorkers
    <3>2. Made(u) = i[u]
      BY <2>3 DEF Made
    <3> QED
      BY <2>1, <3>1, <3>2, CondBounds DEF Cond!Producers
  <2> QED
    BY <2>1, <2>2, <2>3
<1>3. /\ Made(t) = i[t] /\ Cond!Item(t) = t[2] * 1000 + i[t]
      /\ i[t] \in Nat /\ i[t] < 1000
  <2>1. i[t] < PER_PRODUCER /\ i[t] \in Nat
    BY <1>1 DEF CondPcInv, Cond!Puts, PutPCs
  <2> QED
    BY <1>1, <2>1, CondBounds DEF Made, Cond!Item
<1>4. PICK n \in 1 .. NUM_PRODUCERS : t = <<"producer", n>>
  BY <1>2
<1>5. ASSUME Cond!Item(t) \in MadeItems PROVE FALSE
  <2>1. PICK u \in Cond!Producers, k \in Nat : k < Made(u) /\ Cond!Item(t) = u[2] * 1000 + k
    BY <1>5 DEF MadeItems
  <2>2. PICK m \in 1 .. NUM_PRODUCERS : u = <<"producer", m>>
    BY <1>2
  <2>3. n * 1000 + i[t] = m * 1000 + k /\ n \in Int /\ m \in Int /\ k < 1000
    <3>1. Made(u) \in Nat /\ Made(u) <= 1000
      BY <1>2
    <3> QED
      BY <1>3, <1>4, <2>1, <2>2, <3>1
  <2>4. n = m /\ i[t] = k
    BY <1>3, <2>3
  <2> QED
    BY <1>3, <1>4, <2>1, <2>2, <2>4
<1>6. Cond!Item(t) \in Int /\ Cond!Item(t) # Cond!STOP
  BY <1>3, <1>4, CondConstants DEF Cond!STOP
<1> QED
  BY <1>3, <1>5, <1>6

LEMMA IdentAdd ==
  ASSUME NEW S \in SUBSET Int, IsFiniteSet(S), NEW x \in Int, x \notin S
  PROVE  SumOf(Ident, S \cup {x}) = SumOf(Ident, S) + x
<1>1. \A y \in S \cup {x} : Ident[y] \in Int
  BY DEF Ident
<1>2. SumOf(Ident, S \cup {x}) = SumOf(Ident, S) + Ident[x]
  BY <1>1, SumAdd
<1> QED
  BY <1>2 DEF Ident

(* A producer, or main(), stores an item.                                   *)
LEMMA StoreCounts ==
  ASSUME CondInv, CountInv, NEW t \in Cond!Threads, Cond!PutStore(t)
  PROVE  RolesInv' /\ TakenInv' /\ SentInv'
<1> USE DEF CondInv, CountInv
<1> DEFINE x == Cond!Item(t)
<1>1. /\ pc[t] = "put_test" /\ Cond!Goto(t, "put_leave") /\ sent' = Append(sent, x)
      /\ UNCHANGED <<i, item, consumed_count, consumed_sum, received>>
  BY DEF Cond!PutStore, Cond!statVars
<1>2. t \notin Cond!Consumers /\ sent \in Seq(Int)
  BY <1>1 DEF CondPcInv, PutPCs, CondRing, Ring
<1>3. /\ t \in {Cond!main} \cup Cond!Producers /\ Cond!main \notin CondWorkers
      /\ Cond!main \in Cond!Threads
      /\ Cond!Producers \subseteq Cond!Threads /\ Cond!Producers \subseteq CondWorkers
  BY <1>2, CondThreads DEF CondWorkers
<1>4. /\ CondMoves(t, "put_leave") /\ \A u \in Cond!Threads \ {t} : pc'[u] = pc[u]
  BY <1>1, CondPCsAre, CondGoto
<1>5. pc'[t] = "put_leave"
  BY <1>4 DEF CondMoves
<1>6. TakenInv'
  BY <1>1, <1>2, <1>4, TakenQuiet
<1>7. x \in Int
  BY <1>1, CondItem DEF PutPCs
<1> HIDE DEF x
<1>8. /\ Len(sent') = Len(sent) + 1 /\ Len(sent) \in Nat
      /\ sent'[Len(sent')] = x
  BY <1>1, <1>2, <1>7, AppendProperties, LenProperties
<1>9. \A w \in {Count, Value, Stops} :
        SeqSum(w, sent') = SeqSum(w, sent) + w[x] /\ SeqSum(w, sent) \in Int
  BY <1>1, <1>2, <1>7, Weights, SeqSumAppend, SeqSumInt
<1>10. \A u \in Cond!Threads \ {t} : Made(u)' = Made(u)
  BY <1>1, <1>4 DEF Made
<1>11. i[t] \in Nat /\ Made(t) = i[t] /\ Made(t)' = Made(t) + 1
  BY <1>1, <1>5 DEF Made, CondPcInv
<1>12. CASE t = Cond!main
  <2>1. \A u \in Cond!Producers : pc[u] = "done"
    BY <1>1, <1>12 DEF RolesInv, AwaitsProducers
  <2>2. RolesInv'
    BY <1>1, <1>4, <1>12, <2>1, RolesMain DEF PutPCs
  <2>3. x = Cond!STOP
    BY <1>12 DEF x, Cond!Item
  <2>4. Count[x] = 0 /\ Value[x] = 0 /\ Stops[x] = 1
    BY <1>7, <2>3 DEF Count, Value, Stops
  <2>5. MadeOf' = MadeOf /\ MadeItems' = MadeItems
    BY <1>3, <1>10, <1>12 DEF MadeOf, MadeItems
  <2>6. StopsPut' = StopsPut + 1
    BY <1>1, <1>5, <1>11, <1>12 DEF StopsPut, AwaitsProducers, PutPCs
  <2>7. SentInv'
    BY <1>8, <1>9, <2>3, <2>4, <2>5, <2>6 DEF SentInv
  <2> QED
    BY <1>6, <2>2, <2>7
<1>13. CASE t \in Cond!Producers
  <2>0. t # Cond!main
    BY <1>3, <1>13
  <2>1. RolesInv'
    BY <1>1, <1>2, <1>3, <1>4, <1>13, RolesMove DEF PutPCs
  <2>2. /\ x \notin MadeItems /\ x # Cond!STOP
        /\ x = t[2] * 1000 + Made(t) /\ Made(t) \in Nat
    BY <1>1, <1>13, ItemIsNew DEF x
  <2>3. Count[x] = 1 /\ Value[x] = x /\ Stops[x] = 0
    BY <1>7, <2>2 DEF Count, Value, Stops
  <2>4. SumOf(MadeOf', Cond!Producers) = SumOf(MadeOf, Cond!Producers) + 1
    <3>1. \A u \in Cond!Producers : MadeOf[u] \in Int
      BY <1>3 DEF MadeOf, Made, CondPcInv
    <3>2. /\ MadeOf'[t] = MadeOf[t] + 1 /\ MadeOf[t] \in Int
          /\ \A u \in Cond!Producers \ {t} : MadeOf'[u] = MadeOf[u]
      BY <1>3, <1>10, <1>11, <1>13 DEF MadeOf
    <3>3. IsFiniteSet(Cond!Producers)
      BY <1>3, CondThreads, FS_Subset
    <3>4. /\ SumOf(MadeOf', Cond!Producers) = SumOf(MadeOf, Cond!Producers) - MadeOf[t] + MadeOf'[t]
          /\ SumOf(MadeOf, Cond!Producers) \in Int
      BY <1>13, <3>1, <3>2, <3>3, SumUpdate, SumInt
    <3> QED
      BY <3>2, <3>4
  <2>5. MadeItems' = MadeItems \cup {x}
    <3>1. \A u \in Cond!Producers : Made(u)' = IF u = t THEN Made(u) + 1 ELSE Made(u)
      BY <1>3, <1>10, <1>11
    <3>2. \A k \in Nat : k < Made(t) + 1 <=> (k < Made(t) \/ k = Made(t))
      BY <2>2
    <3> DEFINE Good(y, u, k, n) == k < n /\ y = u[2] * 1000 + k
    <3>4. \A y \in Int : (\E u \in Cond!Producers, k \in Nat : Good(y, u, k, Made(u)'))
            <=> (y = x \/ \E u \in Cond!Producers, k \in Nat : Good(y, u, k, Made(u)))
      BY <1>13, <2>2, <3>1, <3>2
    <3> QED
      BY <1>7, <3>4 DEF MadeItems
  <2>6. /\ IsFiniteSet(MadeItems')
        /\ SumOf(Ident, MadeItems') = SumOf(Ident, MadeItems) + x
    <3>1. IsFiniteSet(MadeItems) /\ MadeItems \subseteq Int
      BY DEF SentInv, MadeItems
    <3>2. SumOf(Ident, MadeItems \cup {x}) = SumOf(Ident, MadeItems) + x
      BY <1>7, <2>2, <3>1, IdentAdd
    <3> QED
      BY <2>5, <3>1, <3>2, FS_AddElement
  <2>7. AwaitsProducers /\ AwaitsProducers'
    BY <1>1, <1>3, <1>4, <1>13, <2>0 DEF RolesInv, AwaitsProducers
  <2>8. StopsPut' = StopsPut /\ StopsPut = 0
    BY <2>7 DEF StopsPut
  <2>9. SentInv'
    BY <1>9, <2>3, <2>4, <2>6, <2>8 DEF SentInv
  <2> QED
    BY <1>6, <2>1, <2>9
<1> QED
  BY <1>3, <1>12, <1>13

LEMMA CountStep == ASSUME CondInv, CountInv, Cond!Next PROVE CountInv'
<1>1. Prefix(received', sent')
  BY CondStep, CondSeqs, PrefixStep DEF CountInv
<1>2. PICK t \in Cond!Threads : \/ Cond!Thread(t)
                                 \/ Cond!Spurious(t, "put_wait", "put_lock")
                                 \/ Cond!Spurious(t, "get_wait", "get_lock")
  BY DEF Cond!Next
<1>3. RolesInv' /\ TakenInv' /\ SentInv'
  BY <1>2, MainCounts, WaitCounts, StoreCounts, PutLeaveCounts, FetchCounts, GetLeaveCounts
  DEF Cond!Thread
<1> QED
  BY <1>1, <1>3 DEF CountInv

LEMMA CountInit == ASSUME Cond!Init PROVE CountInv
<1>1. /\ pc = [t \in Cond!Threads |-> IF t = Cond!main THEN "create" ELSE "new"]
      /\ i = [t \in Cond!Threads |-> 0] /\ sent = <<>> /\ received = <<>>
      /\ item = [t \in Cond!Consumers |-> 0]
      /\ consumed_count = [t \in Cond!Consumers |-> 0]
      /\ consumed_sum = [t \in Cond!Consumers |-> 0]
  BY DEF Cond!Init, Cond!Garbage
<1>2. /\ pc[Cond!main] = "create" /\ Cond!main \in Cond!Threads
      /\ \A t \in CondWorkers : pc[t] = "new" /\ i[t] = 0
  BY <1>1, CondThreads
<1>3. RolesInv
  BY <1>2 DEF RolesInv, AwaitsProducers, CondWorkers
<1>4. ASSUME NEW w, NEW base, \A t \in Cond!Consumers : base[t] = 0
      PROVE  TallySum(w, base, pc, item) = 0
  <2>1. \A t \in Cond!Consumers : Tally(w, base, pc, item)[t] = 0
    BY <1>2, <1>4 DEF Tally, CondWorkers
  <2>2. TallySum(w, base, pc, item) = Cardinality(Cond!Consumers) * 0
    BY <2>1, ConsumersFinite, SumConst DEF TallySum
  <2> QED
    BY <2>2, ConsumersFinite, FS_CardinalityType
<1>5. \A t \in Cond!Consumers : Stopped(pc)[t] = 0
  BY <1>2 DEF Stopped, CondWorkers
<1>6. TakenInv
  BY <1>1, <1>4, <1>5, SeqSumEmpty DEF TakenInv
<1>7. \A t \in Cond!Producers : Made(t) = 0
  BY <1>2 DEF Made, CondWorkers
<1>8. SumOf(MadeOf, Cond!Producers) = 0
  <2>1. \A t \in Cond!Producers : MadeOf[t] = 0
    BY <1>7 DEF MadeOf
  <2>2. IsFiniteSet(Cond!Producers) /\ Cardinality(Cond!Producers) \in Nat
    BY CondThreads, FS_Subset, FS_CardinalityType DEF CondWorkers
  <2>3. SumOf(MadeOf, Cond!Producers) = Cardinality(Cond!Producers) * 0
    BY <2>1, <2>2, SumConst
  <2> QED
    BY <2>2, <2>3
<1>9. MadeItems = {}
  BY <1>7 DEF MadeItems
<1>10. SentInv
  BY <1>1, <1>2, <1>8, <1>9, SeqSumEmpty, SumEmpty, FS_EmptySet
  DEF SentInv, StopsPut, AwaitsProducers
<1> QED
  BY <1>1, <1>3, <1>6, <1>10 DEF CountInv, Prefix

LEMMA TotalIs == ASSUME NEW f PROVE Cond!Total(f) = SumOf(f, Cond!Consumers)
BY DEF Cond!Total, Cond!MapThenSumSet, Cond!MapThenFoldSet, SumOf, MapThenSumSet, MapThenFoldSet

LEMMA CondSumSetIs == ASSUME NEW S PROVE Cond!SumSet(S) = SumSet(S)
BY DEF Cond!SumSet, Cond!FoldSet, Cond!MapThenFoldSet, SumSet, FoldSet, MapThenFoldSet

LEMMA TaggedSize ==
  ASSUME NEW tag, NEW m \in Int, NEW n \in Int, m <= n + 1
  PROVE  Cardinality({tag} \X (m .. n)) = n - m + 1
<1>1. IsFiniteSet(m .. n) /\ Cardinality(m .. n) = n - m + 1
  BY FS_Interval
<1>2. IsFiniteSet({tag}) /\ Cardinality({tag}) = 1
  BY FS_Singleton
<1>3. Cardinality({tag} \X (m .. n)) = 1 * (n - m + 1)
  BY <1>1, <1>2, FS_Product
<1> QED
  BY <1>3

LEMMA CondPasses == ASSUME CondInv, CountInv PROVE Cond!Passes
<1> SUFFICES ASSUME pc[Cond!main] = "done"
             PROVE  /\ count = 0
                    /\ Cond!Total(consumed_count) = NUM_PRODUCERS * PER_PRODUCER
                    /\ Cond!Total(consumed_sum) = Cond!SumSet(Cond!Items \ {Cond!STOP})
  BY DEF Cond!Passes
<1> USE DEF CountInv
<1>1. /\ \A t \in Cond!Producers : pc[t] = "done" /\ Made(t) = PER_PRODUCER
      /\ \A t \in Cond!Consumers : pc[t] = "done"
      /\ ~ AwaitsProducers /\ StopsPut = NUM_CONSUMERS
  BY DEF RolesInv, AwaitsProducers, StopsPut, PutPCs, Made
<1>2. ASSUME NEW w, NEW base \in [Cond!Consumers -> Int]
      PROVE  TallySum(w, base, pc, item) = SumOf(base, Cond!Consumers)
  <2>1. \A t \in Cond!Consumers : Tally(w, base, pc, item)[t] = base[t]
    BY <1>1 DEF Tally
  <2> QED
    BY <2>1, ConsumersFinite, SumEqual DEF TallySum
<1>3. SumOf(Stopped(pc), Cond!Consumers) = NUM_CONSUMERS
  <2>1. \A t \in Cond!Consumers : Stopped(pc)[t] = 1
    BY <1>1 DEF Stopped
  <2>2. Cardinality(Cond!Consumers) = NUM_CONSUMERS
    <3>1. 0 \in Int /\ NUM_CONSUMERS - 1 \in Int /\ 0 <= NUM_CONSUMERS - 1 + 1
      BY CondBounds
    <3>2. Cardinality(Cond!Consumers) = NUM_CONSUMERS - 1 - 0 + 1
      BY <3>1, TaggedSize DEF Cond!Consumers
    <3> QED
      BY <3>2, CondBounds
  <2>3. SumOf(Stopped(pc), Cond!Consumers) = Cardinality(Cond!Consumers) * 1
    BY <2>1, ConsumersFinite, SumConst
  <2> QED
    BY <2>2, <2>3, CondBounds
<1>4. SeqSum(Stops, received) = NUM_CONSUMERS /\ SeqSum(Stops, sent) = NUM_CONSUMERS
  <2>1. Stopped(pc) \in [Cond!Consumers -> Int]
    BY DEF Stopped
  <2> QED
    BY <1>1, <1>2, <1>3, <2>1 DEF TakenInv, SentInv
(* The last item put is a STOP, and as many have been taken as were put.    *)
<1>5. Len(received) = Len(sent)
  <2>1. Len(sent) > 0 /\ sent[Len(sent)] = Cond!STOP
    BY <1>1, CondBounds DEF SentInv
  <2>2. ASSUME Len(received) < Len(sent) PROVE FALSE
    <3>1. SeqSum(Stops, received) + Stops[sent[Len(sent)]] <= SeqSum(Stops, sent)
      BY <2>2, CondSeqs, Weights, SeqSumPrefix
    <3>2. Stops[sent[Len(sent)]] = 1
      BY <2>1 DEF Stops, Cond!STOP
    <3> QED
      BY <1>4, <3>1, <3>2, CondBounds
  <2>3. Len(received) \in Nat /\ Len(sent) \in Nat /\ Len(received) <= Len(sent)
    BY CondSeqs, LenProperties
  <2> QED
    BY <2>2, <2>3
<1>6. count = 0
  BY <1>5, CondSeqs, LenProperties DEF CondInv, CondRing
<1>7. \A w : SeqSum(w, received) = SeqSum(w, sent)
  BY <1>5, CondSeqs, SeqSumSame
<1>8. Cond!Total(consumed_count) = NUM_PRODUCERS * PER_PRODUCER
  <2>1. Cond!Total(consumed_count) = SeqSum(Count, sent)
    BY <1>2, <1>7, TotalIs DEF TakenInv
  <2>2. SumOf(MadeOf, Cond!Producers) = Cardinality(Cond!Producers) * PER_PRODUCER
    <3>1. \A t \in Cond!Producers : MadeOf[t] = PER_PRODUCER
      BY <1>1 DEF MadeOf
    <3>2. IsFiniteSet(Cond!Producers)
      BY CondThreads, FS_Subset DEF CondWorkers
    <3> QED
      BY <3>1, <3>2, CondConstants, SumConst
  <2>3. Cardinality(Cond!Producers) = NUM_PRODUCERS
    <3>1. 1 \in Int /\ NUM_PRODUCERS \in Int /\ 1 <= NUM_PRODUCERS + 1
      BY CondConstants
    <3>2. Cardinality(Cond!Producers) = NUM_PRODUCERS - 1 + 1
      BY <3>1, TaggedSize DEF Cond!Producers
    <3> QED
      BY <3>2, CondConstants
  <2> QED
    BY <2>1, <2>2, <2>3 DEF SentInv
<1>9. MadeItems = Cond!Items \ {Cond!STOP}
  <2>1. ASSUME NEW x \in MadeItems PROVE x \in Cond!Items \ {Cond!STOP}
    <3>1. PICK t \in Cond!Producers, k \in Nat : k < Made(t) /\ x = t[2] * 1000 + k
      BY DEF MadeItems
    <3>2. PICK n \in 1 .. NUM_PRODUCERS : t = <<"producer", n>>
      BY DEF Cond!Producers
    <3>3. x = n * 1000 + k /\ k \in 0 .. PER_PRODUCER - 1 /\ x # -1
      BY <1>1, <3>1, <3>2, CondConstants
    <3> QED
      BY <3>3 DEF Cond!Items, Cond!STOP
  <2>2. ASSUME NEW x \in Cond!Items \ {Cond!STOP} PROVE x \in MadeItems
    <3>1. PICK n \in 1 .. NUM_PRODUCERS, k \in 0 .. PER_PRODUCER - 1 : x = n * 1000 + k
      BY DEF Cond!Items
    <3>2. <<"producer", n>> \in Cond!Producers
      BY DEF Cond!Producers
    <3>3. k \in Nat /\ k < Made(<<"producer", n>>) /\ n \in Int
      BY <1>1, <3>2, CondConstants
    <3> QED
      BY <3>1, <3>2, <3>3 DEF MadeItems
  <2> QED
    BY <2>1, <2>2
<1>10. Cond!Total(consumed_sum) = Cond!SumSet(Cond!Items \ {Cond!STOP})
  <2>1. Cond!Total(consumed_sum) = SumOf(Ident, MadeItems)
    BY <1>2, <1>7, TotalIs DEF TakenInv, SentInv
  <2>2. SumSet(MadeItems) = SumOf([x \in MadeItems |-> x], MadeItems)
    BY SumSetIs DEF SentInv
  <2>3. SumOf([x \in MadeItems |-> x], MadeItems) = SumOf(Ident, MadeItems)
    <3>1. \A x \in MadeItems : Ident[x] = [y \in MadeItems |-> y][x]
      BY DEF Ident, MadeItems
    <3> QED
      BY <3>1, SumEqual DEF SentInv
  <2> QED
    BY <1>9, <2>1, <2>2, <2>3, CondSumSetIs
<1> QED
  BY <1>6, <1>8, <1>10

-----------------------------------------------------------------------------
PassInv == (program = "cond" => CountInv) /\ (program = "sem" => SemCount)

(* When bounded_buffer.c prints its totals they are those of the items that *)
(* were made, each taken exactly once, and the buffer is empty; when        *)
(* sem_buffer.c ends every item has been taken once.                        *)
THEOREM ProgramsPass == Spec => []Passes
<1>1. Init => PassInv /\ (program = "cond" \/ program = "sem")
  BY CountInit, SemCountInit DEF Init, PassInv
<1>2. ASSUME BufferInv, PassInv, program = "cond" \/ program = "sem", [Next]_vars
      PROVE  PassInv' /\ (program = "cond" \/ program = "sem")'
  <2>1. CASE RunCond(Cond!Next)
    BY <1>2, <2>1, CountStep DEF RunCond, BufferInv, PassInv
  <2>2. CASE RunSem(Sem!Next)
    BY <1>2, <2>2, SemCountStep DEF RunSem, BufferInv, PassInv
  <2>3. CASE UNCHANGED vars
    <3>1. UNCHANGED <<program, buffer, in, out, mutex, pc, i, sent, received, count,
                      item, consumed_count, consumed_sum, spurious,
                      empty_slots, full_slots, thread_ids, id>>
      BY <2>3 DEF vars, condVars, semVars
    <3>2. CountInv => CountInv'
      BY <3>1 DEF CountInv, RolesInv, TakenInv, SentInv, Prefix, AwaitsProducers, Made,
         MadeOf, MadeItems, StopsPut, TallySum, Tally, Stopped, SeqSum
    <3>3. SemCount => SemCount'
      BY <3>1, CallsStill DEF SameHistory, Calls
    <3> QED
      BY <1>2, <3>1, <3>2, <3>3 DEF PassInv
  <2> QED
    BY <1>2, <2>1, <2>2, <2>3 DEF Next
<1>3. BufferInv /\ PassInv /\ (program = "cond" \/ program = "sem") => Passes
  BY CondPasses, SemPasses DEF BufferInv, PassInv, Passes
<1> QED
  BY <1>1, <1>2, <1>3, BufferInvariant, PTL DEF Spec
=============================================================================
