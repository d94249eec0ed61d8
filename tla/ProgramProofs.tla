--------------------------- MODULE ProgramProofs ---------------------------
(***************************************************************************)
(* Theorems about the programs that only start threads and join them, for  *)
(* any number of threads: the racing counter, the bank, the two programs   *)
(* that add up an array, of any size, in slices, and the linked list.      *)
(***************************************************************************)
EXTENDS MCPrograms, Sums, SequenceTheorems

-----------------------------------------------------------------------------
(* The racing counter                                                       *)

(* A thread that has stored once keeps the counter from 0 in its later      *)
(* loads, and a store that is not the thread's first leaves at least 2.     *)
RaceInv ==
  /\ TypeOK
  /\ \A t \in Threads :
       /\ pc[t] = "done" <=> i[t] = ITERS
       /\ i[t] >= 1 => counter >= 1
       /\ pc[t] = "store" /\ i[t] >= 1 => tmp[t] >= 1
  /\ (\A t \in Threads : i[t] >= 2) => counter >= 2

(* No thread has begun. *)
LEMMA RaceInit == Init => RaceInv
  BY RaceAssumption DEF Init, RaceInv, TypeOK

(* Each access to the counter preserves the invariant. *)
LEMMA RaceStep == RaceInv /\ [Next]_vars => RaceInv'
<1> SUFFICES ASSUME RaceInv, [Next]_vars PROVE RaceInv'
  OBVIOUS
<1> USE RaceAssumption DEF RaceInv, TypeOK
<1>1. ASSUME NEW t \in Threads, Load(t) PROVE RaceInv'
  BY <1>1 DEF Load
<1>2. ASSUME NEW t \in Threads, Store(t) PROVE RaceInv'
  <2>1. TypeOK'
    BY <1>2 DEF Store
  <2>2. counter' >= 1 /\ (i'[t] >= 2 => counter' >= 2)
    BY <1>2 DEF Store
  <2>3. \A u \in Threads : /\ pc'[u] = "done" <=> i'[u] = ITERS
                           /\ pc'[u] = "store" /\ i'[u] >= 1 => tmp'[u] >= 1
    BY <1>2 DEF Store
  <2> QED
    BY <2>1, <2>2, <2>3
<1>3. ASSUME UNCHANGED vars PROVE RaceInv'
  BY <1>3 DEF vars
<1> QED
  BY <1>1, <1>2, <1>3 DEF Next

(* The invariant holds always. *)
THEOREM RaceAlways == Spec => []RaceInv
  BY RaceInit, RaceStep, PTL DEF Spec

(* The variables keep their types. *)
THEOREM TypeCorrect == Spec => []TypeOK
  BY RaceAlways, PTL DEF RaceInv

(* With two iterations or more the final counter is at least 2, however    *)
(* the loads and stores of increment() interleave.                         *)
THEOREM TwoSurvive == Spec => []AtLeastTwo
<1>1. RaceInv => AtLeastTwo
  BY RaceAssumption DEF RaceInv, TypeOK, AtLeastTwo, Done
<1> QED
  BY RaceAlways, <1>1, PTL
-----------------------------------------------------------------------------
(* The bank                                                                 *)

(* Only the owner of the lock is between its check of the balance and the   *)
(* end of its attempt; who is to withdraw has seen enough.                  *)
BankInv ==
  /\ opening \in Nat /\ balance \in Nat
  /\ wpc \in [Customers -> {"lock", "check", "withdraw", "done"}]
  /\ successful \in [Customers -> Nat] /\ rejected \in [Customers -> Nat]
  /\ \A c \in Customers : wpc[c] \in {"check", "withdraw"} => lock = c
  /\ \A c \in Customers : wpc[c] = "withdraw" => balance >= AMOUNT
  /\ balance + AMOUNT * SumOf(successful, Customers) = opening
  /\ (\E c \in Customers : rejected[c] > 0) => balance < AMOUNT

LEMMA BankConstants ==
  /\ AMOUNT \in Nat \ {0} /\ Balances \subseteq Nat
  /\ IsFiniteSet(Customers) /\ None \notin Customers
<1>1. Account!IsFiniteSet(Customers) <=> IsFiniteSet(Customers)
  BY DEF Account!IsFiniteSet, IsFiniteSet
<1> QED
  BY <1>1, ProgramsAssumption DEF Account!BankAssumption

LEMMA BankInit == Account!Init => BankInv
<1> SUFFICES ASSUME Account!Init PROVE BankInv
  OBVIOUS
<1>1. /\ opening \in Nat /\ balance = opening
      /\ wpc = [c \in Customers |-> "lock"]
      /\ successful = [c \in Customers |-> 0] /\ rejected = [c \in Customers |-> 0]
  BY BankConstants DEF Account!Init
<1>2. SumOf(successful, Customers) = 0
  <2> DEFINE f == successful
             S == Customers
  <2>1. IsFiniteSet(S) /\ \A c \in S : f[c] = 0
    BY <1>1, BankConstants
  <2>2. Cardinality(S) \in Nat
    BY <2>1, FS_CardinalityType
  <2> HIDE DEF f, S
  <2>3. SumOf(f, S) = Cardinality(S) * 0
    BY <2>1, SumConst
  <2> QED
    BY <2>2, <2>3 DEF f, S
<1>3. balance + AMOUNT * SumOf(successful, Customers) = opening
  <2>1. AMOUNT * 0 = 0
    BY BankConstants
  <2> QED
    BY <1>1, <1>2, <2>1
<1> QED
  BY <1>1, <1>3 DEF BankInv

LEMMA WithdrawStep ==
  ASSUME BankInv, NEW c \in Customers, Account!Withdraw(c)
  PROVE  BankInv'
<1>1. /\ wpc[c] = "withdraw" /\ balance' = balance - AMOUNT
      /\ successful' = [successful EXCEPT ![c] = @ + 1]
      /\ wpc' = [wpc EXCEPT ![c] = IF wi[c] + 1 < ATTEMPTS THEN "lock" ELSE "done"]
      /\ UNCHANGED <<opening, rejected>>
  BY DEF Account!Withdraw, Account!Unlock
<1>2. balance \in Nat /\ balance >= AMOUNT /\ AMOUNT \in Nat \ {0} /\ opening \in Nat
  BY <1>1, BankConstants DEF BankInv
<1>3. /\ balance' \in Nat /\ successful' \in [Customers -> Nat]
      /\ wpc' \in [Customers -> {"lock", "check", "withdraw", "done"}]
  BY <1>1, <1>2 DEF BankInv
<1>4. /\ wpc'[c] \in {"lock", "done"} /\ lock = c
      /\ \A d \in Customers \ {c} :
           wpc'[d] = wpc[d] /\ wpc[d] \notin {"check", "withdraw"}
  BY <1>1 DEF BankInv
<1>5. balance' + AMOUNT * SumOf(successful', Customers) = opening
  <2> DEFINE f == successful
             e == successful'
             S == Customers
             s == SumOf(f, S)
  <2>1. /\ IsFiniteSet(S) /\ c \in S /\ \A d \in S : f[d] \in Int
        /\ e[c] = f[c] + 1 /\ \A d \in S \ {c} : e[d] = f[d]
        /\ f[c] \in Int /\ e[c] \in Int
    BY <1>1, BankConstants DEF BankInv
  <2>2. SumOf(e, S) = s + 1 /\ s \in Int
    <3> HIDE DEF f, e, S
    <3>1. SumOf(e, S) = SumOf(f, S) - f[c] + e[c] /\ SumOf(f, S) \in Int
      BY <2>1, SumUpdate, SumInt
    <3> QED
      BY <2>1, <3>1
  <2>3. balance + AMOUNT * s = opening
    BY DEF BankInv
  <2>4. \A a, b, x, o \in Int :
          b + a * x = o => (b - a) + a * (x + 1) = o
    OBVIOUS
  <2> HIDE DEF f, e, S, s
  <2>5. (balance - AMOUNT) + AMOUNT * (s + 1) = opening
    BY <1>2, <2>2, <2>3, <2>4
  <2> QED
    BY <1>1, <2>2, <2>5 DEF e, S
<1>6. ~ \E d \in Customers : rejected'[d] > 0
  BY <1>1, <1>2 DEF BankInv
<1> QED
  BY <1>1, <1>3, <1>4, <1>5, <1>6 DEF BankInv

LEMMA BankStep == BankInv /\ Account!Next => BankInv'
<1> SUFFICES ASSUME BankInv, NEW c \in Customers,
                    \/ Account!Lock(c) \/ Account!CheckEnough(c)
                    \/ Account!Reject(c) \/ Account!Withdraw(c)
             PROVE  BankInv'
  BY DEF Account!Next
<1>1. CASE Account!Lock(c)
  <2>1. \A d \in Customers : wpc[d] \notin {"check", "withdraw"}
    BY <1>1, BankConstants DEF Account!Lock, BankInv
  <2> QED
    BY <1>1, <2>1 DEF Account!Lock, BankInv
<1>2. CASE Account!CheckEnough(c)
  BY <1>2, BankConstants DEF Account!CheckEnough, BankInv
<1>3. CASE Account!Reject(c)
  <2>1. /\ wpc[c] = "check" /\ lock = c /\ balance < AMOUNT
        /\ rejected' = [rejected EXCEPT ![c] = @ + 1]
        /\ wpc' = [wpc EXCEPT ![c] = IF wi[c] + 1 < ATTEMPTS THEN "lock" ELSE "done"]
        /\ UNCHANGED <<opening, balance, successful>>
    BY <1>3 DEF Account!Reject, Account!Unlock, BankInv
  <2>2. \A d \in Customers \ {c} : wpc'[d] = wpc[d] /\ wpc[d] \notin {"check", "withdraw"}
    BY <2>1 DEF BankInv
  <2>3. wpc'[c] \in {"lock", "done"}
    BY <2>1 DEF BankInv
  <2> QED
    BY <2>1, <2>2, <2>3 DEF BankInv
<1>4. CASE Account!Withdraw(c)
  BY <1>4, WithdrawStep
<1> QED
  BY <1>1, <1>2, <1>3, <1>4

LEMMA BankBooks == BankInv => Account!BooksAgree
<1>1. Account!Total(successful) = SumOf(successful, Customers)
  BY DEF Account!Total, Account!MapThenSumSet, Account!MapThenFoldSet,
         SumOf, MapThenSumSet, MapThenFoldSet
<1> QED
  BY <1>1 DEF BankInv, Account!BooksAgree

-----------------------------------------------------------------------------
(* The slices of the array                                                  *)

Elem == [k \in Nat |-> 3 ^ k]
SumTo(a, b) == SumOf(Elem, a .. b - 1)
Ids == 0 .. NUM_THREADS - 1

(* Thread t begins at Cut(t) and ends before Cut(t + 1).                     *)
Cut(t) == IF t = NUM_THREADS THEN size ELSE t * (size \div NUM_THREADS)

LEMMA ArrayConstants ==
  /\ NUM_THREADS \in Nat \ {0} /\ Sizes \subseteq Nat /\ None \notin Ids
  /\ Sum!ThreadIds = Ids /\ Stats!ThreadIds = Ids /\ IsFiniteSet(Ids)
<1>1. IsFiniteSet(Ids)
  BY ProgramsAssumption, FS_Interval DEF Sum!SumAssumption, Ids
<1> QED
  BY <1>1, ProgramsAssumption
     DEF Sum!SumAssumption, Sum!ThreadIds, Stats!ThreadIds, Ids

LEMMA ElemInt == \A k \in Nat : Elem[k] = 3 ^ k /\ Elem[k] \in Int
BY DEF Elem

(* Every slice but the last has the same length, and the last is no shorter. *)
LEMMA ChunkFits ==
  ASSUME NEW d \in Nat \ {0}, NEW s \in Nat, NEW k \in 0 .. d
  PROVE  /\ s \div d \in Nat /\ k * (s \div d) \in Nat /\ k * (s \div d) <= s
         /\ (k + 1) * (s \div d) = k * (s \div d) + (s \div d)
<1> DEFINE c == s \div d
<1>1. c \in Nat /\ d * c <= s
  OBVIOUS
<1> HIDE DEF c
<1>2. k * c \in Nat /\ k * c <= d * c
  BY <1>1
<1>3. d * c \in Int /\ (k + 1) * c = k * c + c
  BY <1>1
<1> QED
  BY <1>1, <1>2, <1>3 DEF c

LEMMA CutFacts ==
  ASSUME size \in Nat
  PROVE  /\ Cut(0) = 0 /\ Cut(NUM_THREADS) = size
         /\ \A t \in 0 .. NUM_THREADS : Cut(t) \in Nat
         /\ \A t \in Ids : Cut(t) <= Cut(t + 1)
<1> DEFINE d == NUM_THREADS
           c == size \div d
<1>1. d \in Nat \ {0}
  BY ArrayConstants
<1>2. /\ c \in Nat /\ \A k \in 0 .. d : k * c \in Nat /\ k * c <= size
      /\ \A k \in 0 .. d : (k + 1) * c = k * c + c
  <2> HIDE DEF d
  <2>1. 0 \in 0 .. d
    BY <1>1
  <2> QED
    BY <1>1, <2>1, ChunkFits
<1>3. \A t : Cut(t) = IF t = d THEN size ELSE t * c
  BY DEF Cut
<1> HIDE DEF c, d
<1>4. \A t \in 0 .. d - 1 : Cut(t) <= Cut(t + 1)
  <2> SUFFICES ASSUME NEW t \in 0 .. d - 1 PROVE Cut(t) <= Cut(t + 1)
    OBVIOUS
  <2>1. t # d /\ t \in 0 .. d /\ t * c \in Nat /\ t * c <= size
    BY <1>1, <1>2
  <2>2. (t + 1) * c = t * c + c
    BY <1>2, <2>1
  <2>3. Cut(t) = t * c
    BY <1>3, <2>1
  <2>4. Cut(t + 1) = size \/ Cut(t + 1) = t * c + c
    BY <1>3, <2>2
  <2> QED
    BY <1>2, <2>1, <2>3, <2>4
<1>5. 0 * c = 0 /\ 0 # d
  BY <1>1, <1>2
<1>6. \A t \in 0 .. d : Cut(t) \in Nat
  BY <1>2, <1>3
<1> QED
  BY <1>1, <1>3, <1>4, <1>5, <1>6 DEF d, Ids

(* The slices cover the array without overlap.                              *)
LEMMA SlicesCover ==
  ASSUME size \in Nat, NEW g, \A t \in Ids : g[t] = SumTo(Cut(t), Cut(t + 1))
  PROVE  SumOf(g, Ids) = SumTo(0, size)
<1> DEFINE k == NUM_THREADS
           cut == [t \in 0 .. k |-> Cut(t)]
           f == Elem
<1>1. k \in Nat /\ \A x \in Nat : f[x] \in Int
  BY ArrayConstants, ElemInt
<1>2. cut \in [0 .. k -> Nat] /\ cut[0] = 0 /\ cut[k] = size
  BY <1>1, CutFacts
<1>3. \A t \in 0 .. k - 1 : cut[t] = Cut(t) /\ cut[t + 1] = Cut(t + 1)
  BY <1>1
<1>4. \A t \in 0 .. k - 1 : cut[t] <= cut[t + 1]
  BY <1>3, CutFacts DEF Ids
<1>5. \A t \in 0 .. k - 1 : g[t] = SumOf(f, cut[t] .. cut[t + 1] - 1)
  BY <1>3 DEF Ids, SumTo
<1> HIDE DEF k, cut, f
<1>6. SumOf(g, 0 .. k - 1) = SumOf(f, cut[0] .. cut[k] - 1)
  BY <1>1, <1>2, <1>4, <1>5, SumSlices
<1> QED
  BY <1>2, <1>6 DEF k, f, Ids, SumTo

LEMMA SumToNext ==
  ASSUME NEW a \in Nat, NEW b \in Nat, a <= b
  PROVE  SumTo(a, b + 1) = SumTo(a, b) + 3 ^ b /\ SumTo(a, b) \in Int
<1>1. \A x \in a .. b : Elem[x] \in Int
  BY ElemInt
<1>2. SumOf(Elem, a .. b) = SumOf(Elem, a .. b - 1) + Elem[b]
  BY <1>1, SumAppend
<1>3. SumOf(Elem, a .. b - 1) \in Int
  <2> DEFINE S == a .. b - 1
  <2>1. IsFiniteSet(S) /\ \A x \in S : Elem[x] \in Int
    BY <1>1, FS_Interval
  <2> HIDE DEF S
  <2> QED
    BY <2>1, SumInt DEF S
<1>4. Elem[b] = 3 ^ b /\ (b + 1) - 1 = b
  BY ElemInt
<1> QED
  BY <1>2, <1>3, <1>4 DEF SumTo

LEMMA SumToEmpty == ASSUME NEW a \in Nat PROVE SumTo(a, a) = 0
<1>1. a .. a - 1 = {}
  OBVIOUS
<1> QED
  BY <1>1, SumEmpty DEF SumTo

LEMMA SumToConcat ==
  ASSUME NEW a \in Nat, NEW b \in Nat, NEW c \in Nat, a <= b, b <= c
  PROVE  SumTo(a, c) = SumTo(a, b) + SumTo(b, c)
<1>1. \A x \in Nat : Elem[x] \in Int
  BY ElemInt
<1> DEFINE f == Elem
<1> HIDE DEF f
<1>2. SumOf(f, a .. c - 1) = SumOf(f, a .. b - 1) + SumOf(f, b .. c - 1)
  BY <1>1, SumConcat DEF f
<1> QED
  BY <1>2 DEF f, SumTo

(* The sums of the two modules are these sums.                              *)
LEMMA SumSumTo ==
  ASSUME NEW a \in Nat, NEW b \in Int
  PROVE  Sum!SumTo(a, b) = SumTo(a, b)
<1> DEFINE S == a .. b - 1
           f == Elem
           Is(g) == g = [U \in SUBSET S |-> IF U = {} THEN 0
                                   ELSE 3 ^ First(U) + g[U \ {First(U)}]]
           h == CHOOSE g : Is(g)
<1>1. Sum!SumTo(a, b) = h[S]
  BY DEF Sum!MapThenSumSet, Sum!MapThenFoldSet, First, Sum!SumTo, Sum!array
<1>2. ASSUME NEW g PROVE Is(g) <=> Solves(g, f, S)
  <2>1. \A U \in SUBSET S : (IF U = {} THEN 0 ELSE 3 ^ First(U) + g[U \ {First(U)}])
                               = Body(f, g, U)
    <3>1. ASSUME NEW U \in SUBSET S, U # {} PROVE f[First(U)] = 3 ^ First(U)
      <4>1. First(U) \in S
        BY <3>1, FirstIn
      <4> QED
        BY <4>1 DEF Elem
    <3> HIDE DEF f, S
    <3> QED
      BY <3>1 DEF Body
  <2>2. [U \in SUBSET S |-> IF U = {} THEN 0 ELSE 3 ^ First(U) + g[U \ {First(U)}]]
          = [U \in SUBSET S |-> Body(f, g, U)]
    <3> HIDE DEF f, S
    <3> QED
      BY <2>1, Zenon
  <2> HIDE DEF f, S
  <2> QED
    BY <2>2, Zenon DEF Solves
<1>3. IsFiniteSet(S)
  BY FS_Interval
<1> HIDE DEF f, S
<1>4. Solves(Solution(f, S), f, S)
  BY <1>3, SolutionExists
<1>5. Is(h)
  <2>1. Is(Solution(f, S))
    BY <1>2, <1>4
  <2> HIDE DEF Is
  <2> QED
    BY <2>1
<1> HIDE DEF Is, h
<1>6. Solves(h, f, S)
  BY <1>2, <1>5
<1>7. h[S] = Solution(f, S)[S]
  BY <1>3, <1>4, <1>6, SolutionsAgree
<1>8. SumOf(f, S) = Solution(f, S)[S]
  BY SumIs
<1> QED
  BY <1>1, <1>7, <1>8 DEF f, S, SumTo

LEMMA StatsSumTo ==
  ASSUME NEW a \in Nat, NEW b \in Int
  PROVE  Stats!SumTo(a, b) = SumTo(a, b)
<1> DEFINE S == a .. b - 1
           f == Elem
           Is(g) == g = [U \in SUBSET S |-> IF U = {} THEN 0
                                   ELSE 3 ^ First(U) + g[U \ {First(U)}]]
           h == CHOOSE g : Is(g)
<1>1. Stats!SumTo(a, b) = h[S]
  BY DEF Stats!MapThenSumSet, Stats!MapThenFoldSet, First, Stats!SumTo, Stats!data
<1>2. ASSUME NEW g PROVE Is(g) <=> Solves(g, f, S)
  <2>1. \A U \in SUBSET S : (IF U = {} THEN 0 ELSE 3 ^ First(U) + g[U \ {First(U)}])
                               = Body(f, g, U)
    <3>1. ASSUME NEW U \in SUBSET S, U # {} PROVE f[First(U)] = 3 ^ First(U)
      <4>1. First(U) \in S
        BY <3>1, FirstIn
      <4> QED
        BY <4>1 DEF Elem
    <3> HIDE DEF f, S
    <3> QED
      BY <3>1 DEF Body
  <2>2. [U \in SUBSET S |-> IF U = {} THEN 0 ELSE 3 ^ First(U) + g[U \ {First(U)}]]
          = [U \in SUBSET S |-> Body(f, g, U)]
    <3> HIDE DEF f, S
    <3> QED
      BY <2>1, Zenon
  <2> HIDE DEF f, S
  <2> QED
    BY <2>2, Zenon DEF Solves
<1>3. IsFiniteSet(S)
  BY FS_Interval
<1> HIDE DEF f, S
<1>4. Solves(Solution(f, S), f, S)
  BY <1>3, SolutionExists
<1>5. Is(h)
  <2>1. Is(Solution(f, S))
    BY <1>2, <1>4
  <2> HIDE DEF Is
  <2> QED
    BY <2>1
<1> HIDE DEF Is, h
<1>6. Solves(h, f, S)
  BY <1>2, <1>5
<1>7. h[S] = Solution(f, S)[S]
  BY <1>3, <1>4, <1>6, SolutionsAgree
<1>8. SumOf(f, S) = Solution(f, S)[S]
  BY SumIs
<1> QED
  BY <1>1, <1>7, <1>8 DEF f, S, SumTo

-----------------------------------------------------------------------------
(* parallel_sum_fixed.c                                                     *)

(* What thread t has added to the total.                                    *)
Passed == [t \in Ids |-> SumTo(Cut(t), wi[t])]

SumInv ==
  /\ size \in Nat /\ total \in Int /\ total_lock \in Ids \cup {None}
  /\ wpc \in [Ids -> {"loop", "load", "store", "done"}]
  /\ wi \in [Ids -> Nat] /\ loaded \in [Ids -> Int]
  /\ \A t \in Ids : Cut(t) <= wi[t] /\ wi[t] <= Cut(t + 1)
  /\ \A t \in Ids : wpc[t] \in {"load", "store"} => total_lock = t /\ wi[t] < Cut(t + 1)
  /\ \A t \in Ids : wpc[t] = "store" => loaded[t] = total
  /\ \A t \in Ids : wpc[t] = "done" => wi[t] = Cut(t + 1)
  /\ total = SumOf(Passed, Ids)

LEMMA SumSlice ==
  \A t \in Ids : Sum!start_index(t) = Cut(t) /\ Sum!end_index(t) = Cut(t + 1)
BY ArrayConstants
   DEF Ids, Cut, Sum!start_index, Sum!end_index, Sum!chunk

LEMMA SumInit == Sum!Init => SumInv
<1> SUFFICES ASSUME Sum!Init PROVE SumInv
  OBVIOUS
<1>1. /\ size \in Nat /\ total = 0 /\ total_lock = None
      /\ wpc = [t \in Ids |-> "loop"] /\ wi = [t \in Ids |-> Sum!start_index(t)]
      /\ loaded = [t \in Ids |-> 0]
  BY ArrayConstants DEF Sum!Init
<1>2. \A t \in Ids : wi[t] = Cut(t) /\ Cut(t) \in Nat /\ Cut(t) <= Cut(t + 1)
  BY <1>1, SumSlice, CutFacts, ArrayConstants DEF Ids
<1>3. wi \in [Ids -> Nat]
  BY <1>1, <1>2
<1>4. SumOf(Passed, Ids) = 0
  <2> DEFINE f == Passed
             S == Ids
  <2>1. IsFiniteSet(S) /\ \A t \in S : f[t] = 0
    BY <1>2, ArrayConstants, SumToEmpty DEF Passed
  <2>2. Cardinality(S) \in Nat
    BY <2>1, FS_CardinalityType
  <2> HIDE DEF f, S
  <2>3. SumOf(f, S) = Cardinality(S) * 0
    BY <2>1, SumConst
  <2> QED
    BY <2>2, <2>3 DEF f, S
<1> QED
  BY <1>1, <1>2, <1>3, <1>4 DEF SumInv

(* A store adds the thread's next element: nobody has changed the total     *)
(* since it was loaded.                                                     *)
LEMMA StoreStep ==
  ASSUME SumInv, NEW t \in Ids, Sum!StoreUnlock(t)
  PROVE  SumInv'
<1>1. /\ wpc[t] = "store" /\ total' = loaded[t] + 3 ^ wi[t]
      /\ loaded' = [loaded EXCEPT ![t] = 0] /\ wi' = [wi EXCEPT ![t] = @ + 1]
      /\ wpc' = [wpc EXCEPT ![t] = "loop"] /\ total_lock' = None /\ size' = size
  BY DEF Sum!StoreUnlock, Sum!array
<1>2. /\ size \in Nat /\ total \in Int /\ wi[t] \in Nat /\ Cut(t) <= wi[t]
      /\ wi[t] < Cut(t + 1) /\ total_lock = t /\ loaded[t] = total
  BY <1>1 DEF SumInv
<1>3. \A u \in 0 .. NUM_THREADS : Cut(u) \in Nat /\ Cut(u)' = Cut(u)
  BY <1>1, <1>2, CutFacts DEF Cut
<1>4. \A u \in Ids : /\ u \in 0 .. NUM_THREADS /\ u + 1 \in 0 .. NUM_THREADS
                     /\ Cut(u) \in Nat /\ Cut(u + 1) \in Nat
                     /\ Cut(u)' = Cut(u) /\ Cut(u + 1)' = Cut(u + 1)
  BY <1>3, ArrayConstants DEF Ids
<1>5. /\ wi'[t] = wi[t] + 1 /\ wpc'[t] = "loop" /\ loaded'[t] = 0
      /\ \A u \in Ids \ {t} : wi'[u] = wi[u] /\ wpc'[u] = wpc[u] /\ loaded'[u] = loaded[u]
  BY <1>1 DEF SumInv
<1>6. SumTo(Cut(t), wi[t] + 1) = SumTo(Cut(t), wi[t]) + 3 ^ wi[t] /\ 3 ^ wi[t] \in Int
  <2>1. PICK a \in Nat, b \in Nat : a = Cut(t) /\ b = wi[t] /\ a <= b
    BY <1>2, <1>4
  <2>2. SumTo(a, b + 1) = SumTo(a, b) + 3 ^ b /\ 3 ^ b \in Int
    BY <2>1, SumToNext, ElemInt
  <2> QED
    BY <2>1, <2>2
<1>7. /\ total' \in Int /\ wi' \in [Ids -> Nat] /\ loaded' \in [Ids -> Int]
      /\ wpc' \in [Ids -> {"loop", "load", "store", "done"}]
  BY <1>1, <1>2, <1>6 DEF SumInv
<1>8. total' = SumOf(Passed', Ids)
  <2> DEFINE f == Passed
             e == Passed'
             S == Ids
             x == 3 ^ wi[t]
  <2>1. e = [u \in S |-> SumTo(Cut(u)', wi'[u])]
    BY DEF Passed, Ids
  <2>2. \A u \in S \ {t} : e[u] = f[u]
    BY <1>4, <1>5, <2>1 DEF Passed
  <2>3. e[t] = f[t] + x
    BY <1>4, <1>5, <1>6, <2>1 DEF Passed
  <2>4. \A u \in S : f[u] \in Int
    <3>1. \A u \in Ids : Cut(u) \in Nat /\ wi[u] \in Nat /\ Cut(u) <= wi[u]
      BY <1>4 DEF SumInv
    <3> QED
      BY <3>1, SumToNext DEF Passed
  <2>5. IsFiniteSet(S) /\ t \in S /\ x \in Int /\ total = SumOf(f, S)
    BY <1>6, ArrayConstants DEF SumInv
  <2> HIDE DEF f, e, S, x
  <2>6. SumOf(e, S) = SumOf(f, S) - f[t] + e[t] /\ SumOf(f, S) \in Int
    <3>1. e[t] \in Int
      BY <2>3, <2>4, <2>5
    <3> QED
      BY <2>2, <2>4, <2>5, <3>1, SumUpdate, SumInt
  <2>7. SumOf(e, S) = total + x
    BY <2>3, <2>4, <2>5, <2>6
  <2> QED
    BY <1>1, <1>2, <2>7 DEF e, S, x
<1>9. \A u \in Ids \ {t} : wpc[u] \notin {"load", "store"}
  BY <1>2 DEF SumInv
<1>10. \A u \in Ids : Cut(u)' <= wi'[u] /\ wi'[u] <= Cut(u + 1)'
  BY <1>2, <1>4, <1>5 DEF SumInv
<1> QED
  BY <1>1, <1>2, <1>4, <1>5, <1>7, <1>8, <1>9, <1>10 DEF SumInv, Ids

LEMMA SumStep == SumInv /\ Sum!Next => SumInv'
<1> SUFFICES ASSUME SumInv, NEW t \in Ids,
                    \/ Sum!Lock(t) \/ Sum!Load(t) \/ Sum!StoreUnlock(t) \/ Sum!Finish(t)
             PROVE  SumInv'
  BY ArrayConstants DEF Sum!Next
<1>1. ASSUME UNCHANGED <<size, wi>>
      PROVE  Passed' = Passed /\ \A u : Cut(u)' = Cut(u)
  BY <1>1 DEF Passed, Cut, Ids
<1>2. CASE Sum!Lock(t)
  <2>1. /\ wpc[t] = "loop" /\ wi[t] < Cut(t + 1) /\ total_lock = None
        /\ total_lock' = t /\ wpc' = [wpc EXCEPT ![t] = "load"]
        /\ UNCHANGED <<size, total, wi, loaded>>
    BY <1>2, SumSlice DEF Sum!Lock
  <2>2. \A u \in Ids : wpc[u] \notin {"load", "store"}
    BY <2>1, ArrayConstants DEF SumInv
  <2> QED
    BY <1>1, <2>1, <2>2 DEF SumInv, Ids
<1>3. CASE Sum!Load(t)
  <2>1. /\ wpc[t] = "load" /\ wpc' = [wpc EXCEPT ![t] = "store"]
        /\ loaded' = [loaded EXCEPT ![t] = total]
        /\ UNCHANGED <<size, total, total_lock, wi>>
    BY <1>3 DEF Sum!Load
  <2> QED
    BY <1>1, <2>1 DEF SumInv, Ids
<1>4. CASE Sum!Finish(t)
  <2>1. /\ wpc[t] = "loop" /\ wi[t] >= Cut(t + 1) /\ wpc' = [wpc EXCEPT ![t] = "done"]
        /\ UNCHANGED <<size, total, total_lock, wi, loaded>>
    BY <1>4, SumSlice DEF Sum!Finish
  <2>2. wi[t] = Cut(t + 1)
    <3>1. wi[t] <= Cut(t + 1) /\ wi[t] \in Nat /\ Cut(t + 1) \in Nat
      BY CutFacts, ArrayConstants DEF SumInv, Ids
    <3> QED
      BY <2>1, <3>1
  <2> QED
    BY <1>1, <2>1, <2>2 DEF SumInv, Ids
<1> QED
  BY <1>2, <1>3, <1>4, StoreStep

LEMMA SumPassed ==
  ASSUME size \in Nat, wi \in [Ids -> Nat]
  PROVE  Sum!MapThenSumSet(LAMBDA t : Sum!SumTo(Sum!start_index(t), wi[t]), Sum!ThreadIds)
           = SumOf(Passed, Ids)
<1> DEFINE S == Ids
           f == Passed
           Is(g) == g = [U \in SUBSET S |-> IF U = {} THEN 0
                                   ELSE Sum!SumTo(Sum!start_index(First(U)), wi[First(U)]) + g[U \ {First(U)}]]
           h == CHOOSE g : Is(g)
<1>1. Sum!MapThenSumSet(LAMBDA t : Sum!SumTo(Sum!start_index(t), wi[t]), S) = h[S]
  BY DEF Sum!MapThenSumSet, Sum!MapThenFoldSet, First
<1>2. ASSUME NEW g PROVE Is(g) <=> Solves(g, f, S)
  <2>1. \A U \in SUBSET S : (IF U = {} THEN 0 ELSE Sum!SumTo(Sum!start_index(First(U)), wi[First(U)]) + g[U \ {First(U)}])
                               = Body(f, g, U)
    <3>1. ASSUME NEW U \in SUBSET S, U # {} PROVE f[First(U)] = Sum!SumTo(Sum!start_index(First(U)), wi[First(U)])
      <4>1. First(U) \in S
        BY <3>1, FirstIn
      <4> QED
        <5>1. PICK x \in Ids : x = First(U)
          BY <4>1
        <5>2. Sum!start_index(x) = Cut(x) /\ Cut(x) \in Nat /\ wi[x] \in Int
          BY SumSlice, CutFacts, ArrayConstants DEF Ids
        <5>3. Sum!SumTo(Cut(x), wi[x]) = SumTo(Cut(x), wi[x])
          BY <5>2, SumSumTo
        <5> QED
          BY <5>1, <5>2, <5>3 DEF Passed
    <3> HIDE DEF f, S
    <3> QED
      BY <3>1 DEF Body
  <2>2. [U \in SUBSET S |-> IF U = {} THEN 0 ELSE Sum!SumTo(Sum!start_index(First(U)), wi[First(U)]) + g[U \ {First(U)}]]
          = [U \in SUBSET S |-> Body(f, g, U)]
    <3> HIDE DEF f, S
    <3> QED
      BY <2>1, Zenon
  <2> HIDE DEF f, S
  <2> QED
    BY <2>2, Zenon DEF Solves
<1>3. IsFiniteSet(S)
  BY ArrayConstants
<1> HIDE DEF f, S
<1>4. Solves(Solution(f, S), f, S)
  BY <1>3, SolutionExists
<1>5. Is(h)
  <2>1. Is(Solution(f, S))
    BY <1>2, <1>4
  <2> HIDE DEF Is
  <2> QED
    BY <2>1
<1> HIDE DEF Is, h
<1>6. Solves(h, f, S)
  BY <1>2, <1>5
<1>7. h[S] = Solution(f, S)[S]
  BY <1>3, <1>4, <1>6, SolutionsAgree
<1>8. SumOf(f, S) = Solution(f, S)[S]
  BY SumIs
<1> QED
  BY <1>1, <1>7, <1>8, ArrayConstants DEF f, S

LEMMA SumTotal == SumInv => Sum!TotalExact
<1> SUFFICES ASSUME SumInv PROVE Sum!TotalExact
  OBVIOUS
<1>1. size \in Nat /\ wi \in [Ids -> Nat] /\ total = SumOf(Passed, Ids)
  BY DEF SumInv
<1>2. total = Sum!MapThenSumSet(LAMBDA t : Sum!SumTo(Sum!start_index(t), wi[t]),
                                Sum!ThreadIds)
  BY <1>1, SumPassed
<1>3. ASSUME \A t \in Ids : wpc[t] = "done" PROVE total = Sum!SumTo(0, size)
  <2> DEFINE g == Passed
  <2>1. \A t \in Ids : g[t] = SumTo(Cut(t), Cut(t + 1))
    BY <1>3 DEF SumInv, Passed
  <2> HIDE DEF g
  <2>2. SumOf(g, Ids) = SumTo(0, size)
    BY <1>1, <2>1, SlicesCover
  <2>3. Sum!SumTo(0, size) = SumTo(0, size)
    BY <1>1, SumSumTo
  <2> QED
    BY <1>1, <2>2, <2>3 DEF g
<1> QED
  BY <1>2, <1>3, ArrayConstants DEF Sum!TotalExact

-----------------------------------------------------------------------------
(* parallel_stats.c                                                         *)

(* Worker t's field holds the sum of what it has read of its slice, and     *)
(* main() has added up the fields of the workers it has joined.             *)
StatsInv ==
  /\ size \in Nat /\ total_sum \in Int
  /\ start \in [Ids -> Int] /\ end \in [Ids -> Int] /\ sum \in [Ids -> Int]
  /\ wpc \in [Ids -> {"new", "start", "loop", "done"}] /\ wi \in [Ids -> Nat]
  /\ mpc \in {"create", "join", "done"} /\ n \in 0 .. NUM_THREADS
  /\ mpc = "create" => total_sum = 0 /\ \A t \in Ids : wpc[t] = "new" <=> t >= n
  /\ mpc # "create" => /\ \A t \in Ids : wpc[t] # "new"
                       /\ total_sum = SumTo(0, Cut(n))
  /\ \A t \in Ids : wpc[t] # "new" => start[t] = Cut(t) /\ end[t] = Cut(t + 1)
  /\ \A t \in Ids : wpc[t] \in {"loop", "done"} =>
       /\ Cut(t) <= wi[t] /\ wi[t] <= Cut(t + 1)
       /\ sum[t] = SumTo(Cut(t), wi[t])
  /\ \A t \in Ids : wpc[t] = "done" => wi[t] = Cut(t + 1)

LEMMA StatsInit == Stats!Init => StatsInv
<1> SUFFICES ASSUME Stats!Init PROVE StatsInv
  OBVIOUS
<1>1. /\ size \in Nat /\ mpc = "create" /\ n = 0 /\ total_sum = 0
      /\ start = [t \in Ids |-> -1] /\ end = [t \in Ids |-> -1]
      /\ sum = [t \in Ids |-> -1]
      /\ wpc = [t \in Ids |-> "new"] /\ wi = [t \in Ids |-> 0]
  BY ArrayConstants DEF Stats!Init, Stats!Garbage
<1>2. 0 \in 0 .. NUM_THREADS /\ \A t \in Ids : t >= 0
  BY ArrayConstants DEF Ids
<1> QED
  BY <1>1, <1>2 DEF StatsInv

(* While the size is the same, so are the slices.                           *)
LEMMA SameCuts ==
  ASSUME size \in Nat, UNCHANGED size
  PROVE  /\ \A t : Cut(t)' = Cut(t)
         /\ \A t \in Ids : /\ Cut(t) \in Nat /\ Cut(t + 1) \in Nat
                           /\ Cut(t) <= Cut(t + 1)
<1>1. \A t \in Ids : t \in 0 .. NUM_THREADS /\ t + 1 \in 0 .. NUM_THREADS
  BY ArrayConstants DEF Ids
<1> QED
  BY <1>1, CutFacts DEF Cut

LEMMA StatsCreate == StatsInv /\ Stats!Create => StatsInv'
<1> SUFFICES ASSUME StatsInv, Stats!Create PROVE StatsInv'
  OBVIOUS
<1>1. /\ mpc = "create" /\ n < NUM_THREADS /\ n' = n + 1
      /\ wpc' = [wpc EXCEPT ![n] = "start"]
      /\ start' = [start EXCEPT ![n] = n * Stats!chunk_size]
      /\ end' = [end EXCEPT ![n] = IF n = NUM_THREADS - 1 THEN size
                                   ELSE (n + 1) * Stats!chunk_size]
      /\ UNCHANGED <<size, sum, wi, mpc, total_sum>>
  BY DEF Stats!Create
<1>2. /\ n \in Ids /\ n' \in 0 .. NUM_THREADS
      /\ \A t \in Ids : t >= n' <=> t >= n /\ t # n
  BY <1>1, ArrayConstants DEF StatsInv, Ids
<1>3. /\ \A t : Cut(t)' = Cut(t)
      /\ \A t \in Ids : Cut(t) \in Nat /\ Cut(t + 1) \in Nat
  BY <1>1, SameCuts DEF StatsInv
<1>4. /\ n * Stats!chunk_size = Cut(n)
      /\ (IF n = NUM_THREADS - 1 THEN size ELSE (n + 1) * Stats!chunk_size) = Cut(n + 1)
  BY <1>2, ArrayConstants DEF Ids, Cut, Stats!chunk_size
<1>5. /\ start'[n] = Cut(n) /\ end'[n] = Cut(n + 1) /\ wpc'[n] = "start"
      /\ \A t \in Ids \ {n} : start'[t] = start[t] /\ end'[t] = end[t] /\ wpc'[t] = wpc[t]
  BY <1>1, <1>2, <1>4 DEF StatsInv
<1>6. /\ start' \in [Ids -> Int] /\ end' \in [Ids -> Int]
      /\ wpc' \in [Ids -> {"new", "start", "loop", "done"}]
  BY <1>1, <1>2, <1>3, <1>4 DEF StatsInv
<1> QED
  BY <1>1, <1>2, <1>3, <1>5, <1>6 DEF StatsInv, Ids

(* A field that is joined is complete: the slices joined so far follow each *)
(* other.                                                                   *)
LEMMA StatsJoin == StatsInv /\ Stats!Join => StatsInv'
<1> SUFFICES ASSUME StatsInv, Stats!Join PROVE StatsInv'
  OBVIOUS
<1>1. /\ mpc = "join" /\ n < NUM_THREADS /\ wpc[n] = "done"
      /\ total_sum' = total_sum + sum[n] /\ n' = n + 1
      /\ UNCHANGED <<size, start, end, sum, wpc, wi, mpc>>
  BY DEF Stats!Join, Stats!results
<1>2. n \in Ids /\ n' \in 0 .. NUM_THREADS
  BY <1>1, ArrayConstants DEF StatsInv, Ids
<1>3. /\ \A t : Cut(t)' = Cut(t)
      /\ \A t \in Ids : Cut(t) \in Nat /\ Cut(t + 1) \in Nat /\ Cut(t) <= Cut(t + 1)
  BY <1>1, SameCuts DEF StatsInv
<1>4. sum[n] = SumTo(Cut(n), Cut(n + 1)) /\ total_sum = SumTo(0, Cut(n))
  BY <1>1, <1>2 DEF StatsInv
<1>5. SumTo(0, Cut(n + 1)) = total_sum + sum[n]
  <2>1. PICK a \in Nat, b \in Nat : a = Cut(n) /\ b = Cut(n + 1) /\ a <= b
    BY <1>2, <1>3
  <2>2. SumTo(0, b) = SumTo(0, a) + SumTo(a, b)
    BY <2>1, SumToConcat
  <2> QED
    BY <1>4, <2>1, <2>2
<1>6. total_sum' \in Int /\ total_sum' = SumTo(0, Cut(n'))
  BY <1>1, <1>2, <1>5 DEF StatsInv
<1>7. Cut(n)' = Cut(n')
  BY <1>1 DEF Cut
<1> QED
  BY <1>1, <1>2, <1>3, <1>6, <1>7 DEF StatsInv, Ids

LEMMA StatsWorker ==
  ASSUME StatsInv, NEW t \in Ids, Stats!Start(t) \/ Stats!Add(t) \/ Stats!Finish(t)
  PROVE  StatsInv'
<1>1. UNCHANGED <<size, start, end, mpc, n, total_sum>>
  BY DEF Stats!Start, Stats!Add, Stats!Finish, Stats!results
<1>2. /\ \A u : Cut(u)' = Cut(u)
      /\ \A u \in Ids : Cut(u) \in Nat /\ Cut(u + 1) \in Nat /\ Cut(u) <= Cut(u + 1)
  BY <1>1, SameCuts DEF StatsInv
<1>3. /\ \A u \in Ids \ {t} : wpc'[u] = wpc[u] /\ wi'[u] = wi[u] /\ sum'[u] = sum[u]
      /\ wpc[t] # "new" /\ wpc'[t] # "new"
      /\ wpc' \in [Ids -> {"new", "start", "loop", "done"}]
  BY DEF Stats!Start, Stats!Add, Stats!Finish, Stats!results, StatsInv
<1>4. /\ wi' \in [Ids -> Nat] /\ sum' \in [Ids -> Int]
      /\ wpc'[t] \in {"loop", "done"}
      /\ Cut(t) <= wi'[t] /\ wi'[t] <= Cut(t + 1)
      /\ sum'[t] = SumTo(Cut(t), wi'[t])
      /\ wpc'[t] = "done" => wi'[t] = Cut(t + 1)
  <2>1. start[t] = Cut(t) /\ end[t] = Cut(t + 1)
    BY <1>3 DEF StatsInv
  <2>2. CASE Stats!Start(t)
    <3>1. /\ wpc'[t] = "loop" /\ wi' = [wi EXCEPT ![t] = Cut(t)]
          /\ sum' = [sum EXCEPT ![t] = 0]
      BY <2>1, <2>2 DEF Stats!Start, StatsInv
    <3>2. SumTo(Cut(t), Cut(t)) = 0
      BY <1>2, SumToEmpty
    <3> QED
      BY <1>2, <3>1, <3>2 DEF StatsInv
  <2>3. CASE Stats!Add(t)
    <3>1. /\ wpc[t] = "loop" /\ wi[t] < Cut(t + 1) /\ wpc' = wpc
          /\ wi' = [wi EXCEPT ![t] = @ + 1]
          /\ sum' = [sum EXCEPT ![t] = @ + 3 ^ wi[t]]
      BY <2>1, <2>3 DEF Stats!Add, Stats!data
    <3>2. /\ wi[t] \in Nat /\ sum[t] \in Int /\ Cut(t) <= wi[t]
          /\ sum[t] = SumTo(Cut(t), wi[t])
      BY <3>1 DEF StatsInv
    <3>3. /\ SumTo(Cut(t), wi[t] + 1) = SumTo(Cut(t), wi[t]) + 3 ^ wi[t]
          /\ 3 ^ wi[t] \in Int
      <4>1. PICK a \in Nat, b \in Nat : a = Cut(t) /\ b = wi[t] /\ a <= b
        BY <1>2, <3>2
      <4>2. SumTo(a, b + 1) = SumTo(a, b) + 3 ^ b /\ 3 ^ b \in Int
        BY <4>1, SumToNext, ElemInt
      <4> QED
        BY <4>1, <4>2
    <3>4. wi'[t] = wi[t] + 1 /\ sum'[t] = sum[t] + 3 ^ wi[t]
      BY <3>1 DEF StatsInv
    <3>5. wi' \in [Ids -> Nat] /\ sum' \in [Ids -> Int]
      BY <3>1, <3>2, <3>3 DEF StatsInv
    <3>6. wi[t] + 1 <= Cut(t + 1) /\ Cut(t) <= wi[t] + 1
      BY <1>2, <3>1, <3>2
    <3> QED
      BY <3>1, <3>2, <3>3, <3>4, <3>5, <3>6
  <2>4. CASE Stats!Finish(t)
    <3>1. /\ wpc[t] = "loop" /\ wi[t] >= Cut(t + 1) /\ wpc'[t] = "done"
          /\ wi' = wi /\ sum' = sum
      BY <2>1, <2>4 DEF Stats!Finish, Stats!results, StatsInv
    <3>2. wi[t] \in Nat /\ wi[t] <= Cut(t + 1) /\ Cut(t + 1) \in Nat
      BY <1>2, <3>1 DEF StatsInv
    <3>3. wi[t] = Cut(t + 1)
      BY <3>1, <3>2
    <3> QED
      BY <3>1, <3>3 DEF StatsInv
  <2> QED
    BY <2>2, <2>3, <2>4
<1> QED
  BY <1>1, <1>2, <1>3, <1>4 DEF StatsInv, Ids

LEMMA StatsStep == StatsInv /\ Stats!Next => StatsInv'
<1> SUFFICES ASSUME StatsInv, Stats!Next PROVE StatsInv'
  OBVIOUS
<1>1. CASE Stats!AllCreated
  <2>1. /\ mpc = "create" /\ n = NUM_THREADS /\ n' = 0 /\ mpc' = "join"
        /\ UNCHANGED <<size, start, end, sum, wpc, wi, total_sum>>
    BY <1>1 DEF Stats!AllCreated, Stats!results
  <2>2. \A t \in Ids : wpc[t] # "new"
    BY <2>1, ArrayConstants DEF StatsInv, Ids
  <2>3. \A t : Cut(t)' = Cut(t)
    BY <2>1, SameCuts DEF StatsInv
  <2>4. total_sum = SumTo(0, Cut(n)')
    BY <2>1, SumToEmpty, CutFacts DEF StatsInv, Cut
  <2>5. 0 \in 0 .. NUM_THREADS
    BY ArrayConstants
  <2> QED
    BY <2>1, <2>2, <2>3, <2>4, <2>5 DEF StatsInv, Ids
<1>2. CASE Stats!AllJoined
  <2>1. /\ mpc = "join" /\ mpc' = "done"
        /\ UNCHANGED <<size, start, end, sum, wpc, wi, n, total_sum>>
    BY <1>2 DEF Stats!AllJoined, Stats!results
  <2>2. \A t : Cut(t)' = Cut(t)
    BY <2>1, SameCuts DEF StatsInv
  <2>3. Cut(n)' = Cut(n)
    BY <2>1 DEF Cut
  <2> QED
    BY <2>1, <2>2, <2>3 DEF StatsInv, Ids
<1>3. CASE Stats!Create \/ Stats!Join
  BY <1>3, StatsCreate, StatsJoin
<1>4. CASE \E t \in Ids : Stats!Start(t) \/ Stats!Add(t) \/ Stats!Finish(t)
  BY <1>4, StatsWorker
<1> QED
  BY <1>1, <1>2, <1>3, <1>4, ArrayConstants DEF Stats!Next

LEMMA StatsJoined == StatsInv => Stats!JoinedExact
<1> SUFFICES ASSUME StatsInv, mpc # "create"
             PROVE  total_sum = Stats!SumTo(0, IF n = NUM_THREADS THEN size
                                               ELSE n * Stats!chunk_size)
  BY DEF Stats!JoinedExact
<1>1. (IF n = NUM_THREADS THEN size ELSE n * Stats!chunk_size) = Cut(n)
  BY DEF Cut, Stats!chunk_size
<1>2. Cut(n) \in Int
  BY CutFacts DEF StatsInv
<1>3. Stats!SumTo(0, Cut(n)) = SumTo(0, Cut(n))
  BY <1>2, StatsSumTo
<1> QED
  BY <1>1, <1>3 DEF StatsInv

-----------------------------------------------------------------------------
(* The linked list                                                          *)

Node(L, m, k) == IF k \in 1 .. m THEN L[k] ELSE None

(* The chain from where the list begins.                                    *)
Chain(L, m) ==
  /\ \A j, k \in 1 .. m : L[j] = L[k] => j = k
  /\ \A k \in 1 .. m : L[k] \in allocated
  /\ Linked!Begin = Node(L, m, 1)
  /\ \A k \in 1 .. m : next[L[k]] = Node(L, m, k + 1)

LEMMA ListConstants ==
  /\ IsFiniteSet(Nodes) /\ None \notin Nodes /\ None \notin Linked!Callers
  /\ main \in Linked!Callers /\ main \notin Workers
  /\ Linked!Callers = Workers \cup {main}
  /\ Cardinality(Nodes) \in Nat /\ Linked!Cardinality(Nodes) = Cardinality(Nodes)
<1>1. Linked!IsFiniteSet(Nodes) <=> IsFiniteSet(Nodes)
  BY DEF Linked!IsFiniteSet, IsFiniteSet
<1>2. Linked!Cardinality(Nodes) = Cardinality(Nodes)
  BY DEF Linked!Cardinality, Cardinality
<1>3. IsFiniteSet(Nodes) => Cardinality(Nodes) \in Nat
  BY FS_CardinalityType
<1> QED
  BY <1>1, <1>2, <1>3, ProgramsAssumption DEF Linked!ListAssumption, Linked!Callers

LEMMA ChainFits ==
  ASSUME NEW m \in Nat, NEW L \in [1 .. m -> Nodes],
         \A j, k \in 1 .. m : L[j] = L[k] => j = k
  PROVE  m <= Cardinality(Nodes)
<1>1. L \in Injection(1 .. m, Nodes)
  BY DEF Injection, IsInjective
<1>2. Cardinality(1 .. m) <= Cardinality(Nodes)
  <2> DEFINE S == 1 .. m
  <2> HIDE DEF S
  <2> QED
    BY <1>1, ListConstants, FS_Injection DEF S
<1>3. Cardinality(1 .. m) = m
  BY FS_Interval
<1> QED
  BY <1>2, <1>3

(* The path along the list is the chain.                                    *)
LEMMA PathIs ==
  ASSUME NEW m \in Nat, NEW L \in [1 .. m -> Nodes], Chain(L, m)
  PROVE  /\ DOMAIN Linked!Path = 0 .. Cardinality(Nodes)
         /\ \A k \in 0 .. Cardinality(Nodes) : Linked!Path[k] = Node(L, m, k + 1)
<1> DEFINE N == Cardinality(Nodes)
           Is(p) == p = [k \in 0 .. N |->
                           IF k = 0 THEN Linked!Begin
                           ELSE IF p[k - 1] = None THEN None ELSE next[p[k - 1]]]
           h == CHOOSE p : Is(p)
           g == [k \in 0 .. N |-> Node(L, m, k + 1)]
<1>1. Linked!Path = h
  BY ListConstants DEF Linked!Path
<1>2. N \in Nat
  BY ListConstants
<1> HIDE DEF N
<1>3. Is(g)
  <2> SUFFICES ASSUME NEW k \in 0 .. N
               PROVE  g[k] = IF k = 0 THEN Linked!Begin
                             ELSE IF g[k - 1] = None THEN None ELSE next[g[k - 1]]
    BY Zenon
  <2>1. CASE k = 0
    BY <2>1 DEF Chain
  <2>2. CASE k # 0
    <3>1. k - 1 \in 0 .. N /\ k \in Nat /\ (k - 1) + 1 = k
      BY <1>2, <2>2
    <3>2. g[k - 1] = Node(L, m, k) /\ g[k] = Node(L, m, k + 1)
      BY <3>1
    <3>3. CASE k \in 1 .. m
      <4>1. g[k - 1] = L[k] /\ L[k] # None
        BY <3>2, <3>3, ListConstants DEF Node
      <4> QED
        BY <2>2, <3>2, <3>3, <4>1 DEF Chain
    <3>4. CASE k \notin 1 .. m
      <4>1. k + 1 \notin 1 .. m
        BY <2>2, <3>1, <3>4
      <4> QED
        BY <2>2, <3>2, <3>4, <4>1 DEF Node
    <3> QED
      BY <3>3, <3>4
  <2> QED
    BY <2>1, <2>2
<1> HIDE DEF g
<1>4. Is(h)
  <2> HIDE DEF Is
  <2> QED
    BY <1>3
<1> HIDE DEF h
<1>5. \A k \in 0 .. N : h[k] = g[k]
  <2> DEFINE B == {k \in 0 .. N : h[k] = g[k]}
  <2>1. 0 \in B
    BY <1>2, <1>3, <1>4
  <2>2. \A k \in 0 .. N - 1 : k \in B => k + 1 \in B
    <3> SUFFICES ASSUME NEW k \in 0 .. N - 1, k \in B PROVE k + 1 \in B
      OBVIOUS
    <3>1. k + 1 \in 0 .. N /\ k + 1 # 0 /\ (k + 1) - 1 = k /\ h[k] = g[k]
      BY <1>2
    <3>2. h[k + 1] = IF h[k] = None THEN None ELSE next[h[k]]
      BY <1>4, <3>1
    <3>3. g[k + 1] = IF g[k] = None THEN None ELSE next[g[k]]
      BY <1>3, <3>1
    <3> QED
      BY <3>1, <3>2, <3>3
  <2> HIDE DEF B
  <2>3. \A k \in 0 .. N : k \in B
    BY <1>2, <2>1, <2>2, UpToInduction
  <2> QED
    BY <2>3 DEF B
<1>6. DOMAIN h = 0 .. N
  BY <1>4
<1> QED
  BY <1>1, <1>5, <1>6 DEF N, g

(* What the chain shows of the list.                                        *)
LEMMA ChainReachable ==
  ASSUME NEW m \in Nat, NEW L \in [1 .. m -> Nodes], Chain(L, m)
  PROVE  /\ Linked!Reachable = {L[k] : k \in 1 .. m}
         /\ Linked!Acyclic
         /\ Linked!Cardinality(Linked!Reachable) = m
<1> DEFINE N == Cardinality(Nodes)
<1>1. N \in Nat /\ m <= N
  BY ListConstants, ChainFits DEF Chain
<1>2. /\ DOMAIN Linked!Path = 0 .. N
      /\ \A k \in 0 .. N : Linked!Path[k] = Node(L, m, k + 1)
  BY PathIs
<1> HIDE DEF N
<1>3. Linked!Reachable = {L[k] : k \in 1 .. m}
  <2>1. ASSUME NEW k \in 0 .. N, Linked!Path[k] # None
        PROVE  \E j \in 1 .. m : Linked!Path[k] = L[j]
    BY <1>2, <2>1 DEF Node
  <2>2. ASSUME NEW j \in 1 .. m
        PROVE  j - 1 \in 0 .. N /\ Linked!Path[j - 1] = L[j] /\ L[j] # None
    <3>1. j - 1 \in 0 .. N /\ (j - 1) + 1 = j
      BY <1>1
    <3> QED
      BY <1>2, <3>1, ListConstants DEF Node
  <2>3. Linked!Reachable = {Linked!Path[k] : k \in 0 .. N} \ {None}
    BY <1>2 DEF Linked!Reachable
  <2>4. ASSUME NEW x PROVE x \in Linked!Reachable <=> \E j \in 1 .. m : x = L[j]
    <3>1. ASSUME x \in Linked!Reachable PROVE \E j \in 1 .. m : x = L[j]
      BY <2>1, <2>3, <3>1
    <3>2. ASSUME NEW j \in 1 .. m, x = L[j] PROVE x \in Linked!Reachable
      BY <2>2, <2>3, <3>2
    <3> QED
      BY <3>1, <3>2
  <2> QED
    BY <2>4
<1>4. Linked!Acyclic
  <2>1. N \in 0 .. N /\ N + 1 \notin 1 .. m
    BY <1>1
  <2> QED
    BY <1>2, <2>1, ListConstants DEF Linked!Acyclic, Node, N
<1>5. Linked!Cardinality({L[k] : k \in 1 .. m}) = m
  <2> DEFINE S == 1 .. m
             T == {L[k] : k \in 1 .. m}
  <2>1. L \in Bijection(S, T)
    BY DEF Bijection, Injection, Surjection, IsInjective, Chain
  <2>2. IsFiniteSet(S) /\ Cardinality(S) = m
    BY FS_Interval
  <2> HIDE DEF S, T
  <2>3. Cardinality(T) = m
    BY <2>1, <2>2, FS_Bijection DEF ExistsBijection
  <2>4. Linked!Cardinality(T) = Cardinality(T)
    BY DEF Linked!Cardinality, Cardinality
  <2> QED
    BY <2>3, <2>4 DEF T
<1> QED
  BY <1>3, <1>4, <1>5

-----------------------------------------------------------------------------
Thr == Linked!Callers

(* Where a thread has a node of its own, outside of the list.               *)
Holding == {"insert", "link", "publish", "free"}

ListTypes ==
  /\ head \in Nodes \cup {None} /\ allocated \subseteq Nodes
  /\ value \in [Nodes -> Linked!AllValues] /\ next \in [Nodes -> Nodes \cup {None}]
  /\ val \in [Thr -> Linked!AllValues] /\ answer \in [Thr -> BOOLEAN]
  /\ curr \in [Thr -> Nodes \cup {None}] /\ prev \in [Thr -> Nodes \cup {None}]
  /\ \A t \in Thr : wpc[t] \notin {"hunt", "free"} => prev[t] = None

(* main() waits for the workers before it does anything else; who is inside *)
(* of an operation owns the lock.                                           *)
ListPcs ==
  /\ wpc \in [Thr -> Linked!Idle \cup Linked!AtLock \cup Linked!Locked]
  /\ \A t \in Workers : wpc[t] \notin {"join", "destroy", "drain"}
  /\ wpc[main] \notin {"call", "remove", "hunt", "free"}
  /\ wpc[main] # "join" => \A t \in Workers : wpc[t] = "done"
  /\ \A t \in Thr : wpc[t] \in Linked!Locked => lock = t

(* Thread t has come to the j-th node without having met its value.         *)
WalksAt(L, m, t, j) ==
  /\ curr[t] = Node(L, m, j)
  /\ wpc[t] = "hunt" => prev[t] = Node(L, m, j - 1)
  /\ \A k \in 1 .. j - 1 : value[L[k]] # val[t]

Heap(L, m) ==
  /\ Chain(L, m)
  /\ wpc[main] = "done" => m = 0
  /\ \A t \in Thr : wpc[t] \in Holding =>
       curr[t] \in allocated /\ \A k \in 1 .. m : L[k] # curr[t]
  /\ \A t, u \in Thr :
       wpc[t] \in Holding /\ wpc[u] \in Holding /\ curr[t] = curr[u] => t = u
  /\ \A x \in allocated : \/ \E k \in 1 .. m : x = L[k]
                          \/ \E t \in Thr : wpc[t] \in Holding /\ curr[t] = x
  /\ \A t \in Thr : wpc[t] = "publish" => next[curr[t]] = head
  /\ \A t \in Thr : wpc[t] \in {"search", "hunt"} =>
       \E j \in 1 .. m + 1 : WalksAt(L, m, t, j)

ListInv ==
  /\ ListTypes /\ ListPcs
  /\ \E m \in Nat : \E L \in [1 .. m -> Nodes] : Heap(L, m)

LEMMA ListThreads ==
  /\ None \notin Thr /\ main \in Thr /\ main \notin Workers /\ None \notin Nodes
  /\ Thr = Workers \cup {main}
BY ListConstants DEF Thr

(* A thread t goes on to l: alone, and with the lock if l needs it.         *)
LEMMA PcsStep ==
  ASSUME ListPcs, NEW t \in Thr,
         NEW l \in Linked!Idle \cup Linked!AtLock \cup Linked!Locked,
         wpc' = [wpc EXCEPT ![t] = l],
         t \in Workers => wpc[t] # "done" /\ l \notin {"join", "destroy", "drain"},
         t = main => /\ l \notin {"call", "remove", "hunt", "free"}
                     /\ \A u \in Workers : wpc[u] = "done",
         l \in Linked!Locked => lock' = t,
         lock' = lock \/ \A u \in Thr \ {t} : wpc[u] \notin Linked!Locked
  PROVE  ListPcs'
<1>1. /\ wpc' \in [Thr -> Linked!Idle \cup Linked!AtLock \cup Linked!Locked]
      /\ wpc'[t] = l /\ \A u \in Thr \ {t} : wpc'[u] = wpc[u]
  BY DEF ListPcs
<1>2. \A u \in Thr : wpc'[u] \in Linked!Locked => lock' = u
  BY <1>1 DEF ListPcs
<1>3. \A u \in Workers : wpc'[u] \notin {"join", "destroy", "drain"}
  BY <1>1, ListThreads DEF ListPcs
<1>4. wpc'[main] \notin {"call", "remove", "hunt", "free"}
  BY <1>1, ListThreads DEF ListPcs
<1>5. wpc'[main] # "join" => \A u \in Workers : wpc'[u] = "done"
  BY <1>1, ListThreads DEF ListPcs
<1> QED
  BY <1>1, <1>2, <1>3, <1>4, <1>5 DEF ListPcs

(* Who acts is not done, and main() acts when the workers are.              *)
LEMMA ListActor ==
  ASSUME ListPcs, NEW t \in Thr,
         Linked!Operation(t) \/ (t \in Workers /\ (Linked!Worker(t) \/ Linked!WorkerDone(t)))
                             \/ (t = main /\ Linked!Main)
  PROVE  /\ t \in Workers => wpc[t] # "done"
         /\ t = main => \A u \in Workers : wpc[u] = "done"
<1>1. CASE t = main /\ Linked!Main
  BY <1>1, ListThreads DEF Linked!Main
<1>2. CASE t \in Workers /\ (Linked!Worker(t) \/ Linked!WorkerDone(t))
  BY <1>2, ListThreads DEF Linked!Worker, Linked!WorkerDone
<1>3. CASE Linked!Operation(t)
  <2>1. wpc[t] \in Linked!AtLock \cup Linked!Locked
    BY <1>3 DEF Linked!Operation, Linked!InsertLock, Linked!InsertLink,
       Linked!InsertPublish, Linked!ContainsLock, Linked!ContainsNext,
       Linked!ContainsFound, Linked!ContainsNot, Linked!RemoveLock,
       Linked!RemoveNext, Linked!RemoveNot, Linked!RemoveUnlink, Linked!RemoveFree,
       Linked!DestroyLock, Linked!DestroyNode, Linked!DestroyEnd, Linked!LockAtHead,
       Linked!Lock, Linked!AtLock, Linked!Locked
  <2> QED
    BY <2>1, ListThreads DEF ListPcs, Linked!AtLock, Linked!Locked
<1> QED
  BY <1>1, <1>2, <1>3

(* A step of t that leaves the heap alone.                                  *)
LEMMA SameHeap ==
  ASSUME NEW m \in Nat, NEW L \in [1 .. m -> Nodes], ListTypes, Heap(L, m),
         NEW t \in Thr, UNCHANGED <<head, value, next, allocated>>,
         \A u \in Thr \ {t} : /\ wpc'[u] = wpc[u] /\ curr'[u] = curr[u]
                              /\ prev'[u] = prev[u] /\ val'[u] = val[u],
         wpc'[t] \in Holding <=> wpc[t] \in Holding,
         wpc[t] \in Holding => curr'[t] = curr[t],
         wpc'[t] # "publish",
         t = main => /\ wpc[t] # "drain" /\ wpc'[t] # "done"
                     /\ wpc'[t] = "drain" => curr'[t] = head,
         wpc'[t] \in {"search", "hunt"} => \E j \in 1 .. m + 1 : WalksAt(L, m, t, j)'
  PROVE  Heap(L, m)'
<1>1. Linked!Begin' = Linked!Begin
  BY ListThreads DEF Linked!Begin
<1>2. \A k : Node(L, m, k)' = Node(L, m, k)
  BY DEF Node
<1>3. Chain(L, m)'
  BY <1>1, <1>2 DEF Heap, Chain
<1>4. wpc'[main] = "done" => m = 0
  BY ListThreads DEF Heap
<1>5. \A u \in Thr : wpc'[u] \in Holding <=> wpc[u] \in Holding
  OBVIOUS
<1>6. \A u \in Thr : wpc[u] \in Holding => curr'[u] = curr[u]
  OBVIOUS
<1>7. \A u \in Thr : wpc'[u] \in Holding =>
        curr'[u] \in allocated' /\ \A k \in 1 .. m : L[k] # curr'[u]
  BY <1>5, <1>6 DEF Heap
<1>8. \A u, v \in Thr :
        wpc'[u] \in Holding /\ wpc'[v] \in Holding /\ curr'[u] = curr'[v] => u = v
  BY <1>5, <1>6 DEF Heap
<1>9. \A x \in allocated' : \/ \E k \in 1 .. m : x = L[k]
                            \/ \E u \in Thr : wpc'[u] \in Holding /\ curr'[u] = x
  BY <1>5, <1>6 DEF Heap
<1>10. \A u \in Thr : wpc'[u] = "publish" => next'[curr'[u]] = head'
  BY DEF Heap
<1>11. \A u \in Thr : wpc'[u] \in {"search", "hunt"} =>
         \E j \in 1 .. m + 1 : WalksAt(L, m, u, j)'
  <2> SUFFICES ASSUME NEW u \in Thr \ {t}, wpc'[u] \in {"search", "hunt"}
               PROVE  \E j \in 1 .. m + 1 : WalksAt(L, m, u, j)'
    OBVIOUS
  <2>1. PICK j \in 1 .. m + 1 : WalksAt(L, m, u, j)
    BY DEF Heap
  <2>2. WalksAt(L, m, u, j)'
    BY <1>2, <2>1 DEF WalksAt
  <2> QED
    BY <2>2
<1> QED
  BY <1>3, <1>4, <1>7, <1>8, <1>9, <1>10, <1>11 DEF Heap

LEMMA Places ==
  /\ Holding \cap {"search", "hunt"} = {}
  /\ Linked!Idle = {"call", "join", "done"}
  /\ Linked!AtLock = {"insert", "contains", "remove", "destroy"}
  /\ Linked!Locked = {"link", "publish", "search", "hunt", "free", "drain"}
  /\ Holding = {"insert", "link", "publish", "free"}
BY DEF Holding, Linked!Idle, Linked!AtLock, Linked!Locked

(* What is known of the list when thread t acts.                            *)
Acts(L, m, t) ==
  /\ m \in Nat /\ L \in [1 .. m -> Nodes] /\ t \in Thr
  /\ ListTypes /\ ListPcs /\ Heap(L, m)
  /\ t \in Workers => wpc[t] # "done"
  /\ t = main => \A u \in Workers : wpc[u] = "done"

(* What a step keeps, and whether what the list holds is the same.          *)
Keeps(L, m) == ListTypes' /\ ListPcs' /\ Heap(L, m)'
Emptied == wpc[main] \in {"drain", "done"}

(* The list is locked at its head for a walk.                               *)
LEMMA WalkBegins ==
  ASSUME NEW m, NEW L, NEW t, Acts(L, m, t),
         Linked!ContainsLock(t) \/ Linked!RemoveLock(t)
  PROVE  Keeps(L, m) /\ (Emptied' <=> Emptied) /\ UNCHANGED <<value, answer>>
<1> DEFINE l == IF wpc[t] = "contains" THEN "search" ELSE "hunt"
<1>1. /\ wpc[t] \in {"contains", "remove"} /\ lock = None /\ lock' = t
      /\ wpc' = [wpc EXCEPT ![t] = l] /\ curr' = [curr EXCEPT ![t] = head]
      /\ UNCHANGED <<head, value, next, allocated, val, prev, answer>>
  BY DEF Linked!ContainsLock, Linked!RemoveLock, Linked!LockAtHead, Linked!Lock,
         Linked!Goto, Linked!heapVars
<1>2. Acts(L, m, t)
  OBVIOUS
<1> USE DEF Acts
<1>3. /\ l \in {"search", "hunt"} /\ (wpc[t] = "contains" => l = "search")
      /\ (t = main => wpc[t] = "contains")
  BY <1>1, <1>2, ListThreads DEF ListPcs
<1> HIDE DEF l
<1>4. ListPcs'
  <2>1. \A u \in Thr \ {t} : wpc[u] \notin Linked!Locked
    BY <1>1, <1>2, ListThreads DEF ListPcs
  <2> QED
    BY <1>1, <1>2, <1>3, <2>1, PcsStep, Places
<1>5. /\ \A u \in Thr \ {t} : /\ wpc'[u] = wpc[u] /\ curr'[u] = curr[u]
                              /\ prev'[u] = prev[u] /\ val'[u] = val[u]
      /\ wpc'[t] = l /\ curr'[t] = head /\ prev[t] = None
  BY <1>1, <1>2 DEF ListTypes, ListPcs
<1>6. ListTypes'
  BY <1>1, <1>2, <1>3, <1>5 DEF ListTypes
<1>7. wpc[main] # "drain"
  BY <1>1, <1>2, ListThreads, Places DEF ListPcs
<1>8. Heap(L, m)'
  <2>1. 1 \in 1 .. m + 1 /\ 1 .. 1 - 1 = {} /\ 1 - 1 \notin 1 .. m
    BY <1>2
  <2>2. WalksAt(L, m, t, 1)'
    BY <1>1, <1>2, <1>5, <1>7, <2>1 DEF WalksAt, Heap, Chain, Linked!Begin, Node
  <2> QED
    BY <1>1, <1>2, <1>3, <1>5, <2>1, <2>2, SameHeap, Places
<1> QED
  BY <1>1, <1>3, <1>4, <1>5, <1>6, <1>7, <1>8, ListThreads DEF Keeps, Emptied

(* The walk goes on to the next node.                                       *)
LEMMA WalkGoesOn ==
  ASSUME NEW m, NEW L, NEW t, Acts(L, m, t),
         Linked!ContainsNext(t) \/ Linked!RemoveNext(t)
  PROVE  Keeps(L, m) /\ (Emptied' <=> Emptied) /\ UNCHANGED <<value, answer>>
<1> USE DEF Acts
<1>1. /\ wpc[t] \in {"search", "hunt"} /\ curr[t] # None /\ value[curr[t]] # val[t]
      /\ curr' = [curr EXCEPT ![t] = next[curr[t]]]
      /\ prev' = IF wpc[t] = "hunt" THEN [prev EXCEPT ![t] = curr[t]] ELSE prev
      /\ UNCHANGED <<head, value, next, allocated, lock, wpc, val, answer>>
  BY DEF Linked!ContainsNext, Linked!RemoveNext, Linked!heapVars
<1>2. ListPcs'
  BY <1>1 DEF ListPcs
<1>3. curr[t] \in Nodes /\ next[curr[t]] \in Nodes \cup {None}
  BY <1>1 DEF ListTypes
<1>4. /\ \A u \in Thr \ {t} : curr'[u] = curr[u] /\ prev'[u] = prev[u]
      /\ curr'[t] = next[curr[t]] /\ (wpc[t] = "hunt" => prev'[t] = curr[t])
  BY <1>1 DEF ListTypes
<1>5. ListTypes'
  BY <1>1, <1>3, <1>4 DEF ListTypes
<1>6. \E j \in 1 .. m + 1 : WalksAt(L, m, t, j)'
  <2>1. PICK j \in 1 .. m + 1 : WalksAt(L, m, t, j)
    BY <1>1 DEF Heap
  <2>2. j \in 1 .. m /\ curr[t] = L[j]
    BY <1>1, <2>1 DEF WalksAt, Node
  <2>3. j + 1 \in 1 .. m + 1 /\ (j + 1) - 1 = j /\ 1 .. j = (1 .. j - 1) \cup {j}
    BY <2>2
  <2>4. next[L[j]] = Node(L, m, j + 1) /\ Node(L, m, j) = L[j]
    BY <2>2 DEF Heap, Chain, Node
  <2>5. WalksAt(L, m, t, j + 1)'
    <3>1. curr'[t] = Node(L, m, j + 1)'
      BY <1>4, <2>2, <2>4 DEF Node
    <3>2. wpc'[t] = "hunt" => prev'[t] = Node(L, m, (j + 1) - 1)'
      BY <1>1, <1>4, <2>2, <2>3, <2>4 DEF Node
    <3>3. \A k \in 1 .. (j + 1) - 1 : value'[L[k]] # val'[t]
      BY <1>1, <2>1, <2>2, <2>3 DEF WalksAt
    <3> QED
      BY <3>1, <3>2, <3>3 DEF WalksAt
  <2> QED
    BY <2>3, <2>5
<1>7. Heap(L, m)'
  BY <1>1, <1>4, <1>6, SameHeap, Places
<1> QED
  BY <1>1, <1>2, <1>5, <1>7 DEF Keeps, Emptied

(* The walk ends: list_contains() answers whether its value is there, and    *)
(* list_remove() gives up when its value is not.                            *)
LEMMA WalkEnds ==
  ASSUME NEW m, NEW L, NEW t, Acts(L, m, t),
         Linked!ContainsFound(t) \/ Linked!ContainsNot(t) \/ Linked!RemoveNot(t)
  PROVE  /\ Keeps(L, m) /\ (Emptied' <=> Emptied) /\ UNCHANGED value /\ ~ Emptied
         /\ IF wpc[t] = "search"
              THEN answer' = [answer EXCEPT ![t] = \E k \in 1 .. m : value[L[k]] = val[t]]
              ELSE UNCHANGED answer /\ \A k \in 1 .. m : value[L[k]] # val[t]
<1> USE DEF Acts
<1> DEFINE l == IF t = main THEN "join" ELSE "call"
<1>1. /\ wpc[t] \in {"search", "hunt"} /\ lock' = None
      /\ wpc' = [wpc EXCEPT ![t] = l]
      /\ curr' = [curr EXCEPT ![t] = None] /\ prev' = [prev EXCEPT ![t] = None]
      /\ UNCHANGED <<head, value, next, allocated, val>>
  BY DEF Linked!ContainsFound, Linked!ContainsNot, Linked!RemoveNot,
         Linked!UnlockReturn, Linked!Goto, Linked!heapVars
<1>2. /\ l \in {"join", "call"} /\ (t \in Workers => l = "call") /\ (t = main => l = "join")
  BY ListThreads
<1> HIDE DEF l
<1>3. ListPcs'
  <2>1. \A u \in Thr \ {t} : wpc[u] \notin Linked!Locked
    BY <1>1, Places DEF ListPcs
  <2> QED
    BY <1>1, <1>2, <2>1, PcsStep, Places
<1>4. /\ \A u \in Thr \ {t} : /\ wpc'[u] = wpc[u] /\ curr'[u] = curr[u]
                              /\ prev'[u] = prev[u] /\ val'[u] = val[u]
      /\ wpc'[t] = l /\ prev'[t] = None
  BY <1>1 DEF ListTypes, ListPcs
<1>5. ~ Emptied /\ ~ Emptied'
  BY <1>1, <1>2, <1>4, ListThreads, Places DEF ListPcs, Emptied
<1>6. Heap(L, m)'
  BY <1>1, <1>2, <1>4, <1>5, SameHeap, Places DEF Emptied
<1>7. /\ answer' \in [Thr -> BOOLEAN]
      /\ IF wpc[t] = "search"
           THEN answer' = [answer EXCEPT ![t] = \E k \in 1 .. m : value[L[k]] = val[t]]
           ELSE UNCHANGED answer /\ \A k \in 1 .. m : value[L[k]] # val[t]
  <2>1. PICK j \in 1 .. m + 1 : WalksAt(L, m, t, j)
    BY <1>1 DEF Heap
  <2>2. CASE Linked!ContainsFound(t)
    <3>1. /\ curr[t] # None /\ value[curr[t]] = val[t] /\ wpc[t] = "search"
          /\ answer' = [answer EXCEPT ![t] = TRUE]
      BY <2>2 DEF Linked!ContainsFound
    <3>2. j \in 1 .. m /\ curr[t] = L[j]
      BY <2>1, <3>1 DEF WalksAt, Node
    <3>3. (\E k \in 1 .. m : value[L[k]] = val[t]) = TRUE
      BY <3>1, <3>2
    <3> QED
      BY <3>1, <3>3 DEF ListTypes
  <2>3. CASE Linked!ContainsNot(t)
    <3>1. /\ curr[t] = None /\ wpc[t] = "search"
          /\ answer' = [answer EXCEPT ![t] = FALSE]
      BY <2>3 DEF Linked!ContainsNot
    <3>2. j = m + 1
      BY <2>1, <3>1, ListThreads DEF WalksAt, Node
    <3>3. (\E k \in 1 .. m : value[L[k]] = val[t]) = FALSE
      BY <2>1, <3>2 DEF WalksAt
    <3> QED
      BY <3>1, <3>3 DEF ListTypes
  <2>4. CASE Linked!RemoveNot(t)
    <3>1. curr[t] = None /\ wpc[t] = "hunt" /\ UNCHANGED answer
      BY <2>4 DEF Linked!RemoveNot
    <3>2. j = m + 1
      BY <2>1, <3>1, ListThreads DEF WalksAt, Node
    <3>3. \A k \in 1 .. m : value[L[k]] # val[t]
      BY <2>1, <3>2 DEF WalksAt
    <3> QED
      BY <3>1, <3>3 DEF ListTypes
  <2> QED
    BY <2>2, <2>3, <2>4
<1>8. ListTypes'
  BY <1>1, <1>4, <1>7 DEF ListTypes
<1> QED
  BY <1>1, <1>3, <1>5, <1>6, <1>7, <1>8 DEF Keeps, ListTypes

(* Steps outside of the lock: a call of an operation but list_insert(), the *)
(* end of a worker, and the locking by list_insert().                       *)
LEMMA QuietStep ==
  ASSUME NEW m, NEW L, NEW t, Acts(L, m, t), NEW l,
         wpc' = [wpc EXCEPT ![t] = l],
         UNCHANGED <<head, value, next, allocated, curr, prev, answer>>,
         val' \in [Thr -> Linked!AllValues],
         \A u \in Thr \ {t} : val'[u] = val[u],
         \/ wpc[t] \in {"call", "join"} /\ lock' = lock /\ l \in {"contains", "remove", "destroy", "done"}
         \/ wpc[t] = "insert" /\ lock = None /\ lock' = t /\ l = "link",
         IF t = main THEN l \notin {"done", "remove"} ELSE l # "destroy"
  PROVE  Keeps(L, m) /\ (Emptied' <=> Emptied) /\ UNCHANGED <<value, answer>>
<1> USE DEF Acts
<1>1. /\ \A u \in Thr \ {t} : wpc'[u] = wpc[u]
      /\ wpc'[t] = l
  BY DEF ListPcs
<1>2. ListPcs'
  <2>1. lock' = lock \/ \A u \in Thr \ {t} : wpc[u] \notin Linked!Locked
    BY ListThreads DEF ListPcs
  <2>2. l \in Linked!Idle \cup Linked!AtLock \cup Linked!Locked
    BY Places
  <2> QED
    BY <2>1, <2>2, PcsStep, ListThreads, Places
<1>3. ListTypes'
  BY <1>1 DEF ListTypes
<1>4. Heap(L, m)'
  BY <1>1, SameHeap, Places
<1> QED
  BY <1>1, <1>2, <1>3, <1>4, ListThreads DEF Keeps, Emptied

(* list_insert() gets a node that nobody has: it is not in the list.        *)
LEMMA NodeAllocated ==
  ASSUME NEW m, NEW L, NEW t, Acts(L, m, t), NEW v \in Linked!AllValues,
         wpc[t] \in {"call", "join"}, Linked!CallInsert(t, v)
  PROVE  /\ Keeps(L, m) /\ (Emptied' <=> Emptied) /\ UNCHANGED answer
         /\ \A k \in 1 .. m : value'[L[k]] = value[L[k]]
<1> USE DEF Acts
<1>1. PICK x \in Nodes \ allocated :
        /\ allocated' = allocated \cup {x} /\ value' = [value EXCEPT ![x] = v]
        /\ curr' = [curr EXCEPT ![t] = x] /\ val' = [val EXCEPT ![t] = v]
        /\ wpc' = [wpc EXCEPT ![t] = "insert"]
        /\ UNCHANGED <<head, next, lock, prev, answer>>
  BY DEF Linked!CallInsert, Linked!Goto
<1>2. /\ \A u \in Thr \ {t} : wpc'[u] = wpc[u] /\ curr'[u] = curr[u] /\ val'[u] = val[u]
      /\ wpc'[t] = "insert" /\ curr'[t] = x
  BY <1>1 DEF ListTypes, ListPcs
<1>3. ListPcs'
  BY <1>1, PcsStep, Places
<1>4. ListTypes'
  BY <1>1, <1>2 DEF ListTypes
<1>5. \A k \in 1 .. m : L[k] # x /\ L[k] \in allocated /\ value'[L[k]] = value[L[k]]
  BY <1>1 DEF Heap, Chain, ListTypes
<1>6. (\A k : Node(L, m, k)' = Node(L, m, k)) /\ Linked!Begin' = Linked!Begin
  BY <1>1, <1>2, ListThreads DEF Node, Linked!Begin
<1>7. Chain(L, m)'
  BY <1>1, <1>5, <1>6 DEF Heap, Chain
<1>8. \A u \in Thr \ {t} : wpc[u] \in Holding => curr[u] # x
  BY <1>1 DEF Heap
<1>9. \A u \in Thr : wpc'[u] \in Holding =>
        curr'[u] \in allocated' /\ \A k \in 1 .. m : L[k] # curr'[u]
  BY <1>1, <1>2, <1>5 DEF Heap
<1>10. \A u, w \in Thr :
         wpc'[u] \in Holding /\ wpc'[w] \in Holding /\ curr'[u] = curr'[w] => u = w
  BY <1>2, <1>8 DEF Heap
<1>11. \A y \in allocated' : \/ \E k \in 1 .. m : y = L[k]
                             \/ \E u \in Thr : wpc'[u] \in Holding /\ curr'[u] = y
  <2> SUFFICES ASSUME NEW y \in allocated', ~ \E k \in 1 .. m : y = L[k]
               PROVE  \E u \in Thr : wpc'[u] \in Holding /\ curr'[u] = y
    OBVIOUS
  <2>1. CASE y = x
    BY <1>2, <2>1, Places
  <2>2. CASE y # x
    <3>1. PICK u \in Thr : wpc[u] \in Holding /\ curr[u] = y
      BY <1>1, <2>2 DEF Heap
    <3>2. u # t
      BY <3>1, Places
    <3> QED
      BY <1>2, <3>1, <3>2
  <2> QED
    BY <2>1, <2>2
<1>12. \A u \in Thr : wpc'[u] = "publish" => next'[curr'[u]] = head'
  BY <1>1, <1>2 DEF Heap
<1>13. \A u \in Thr : wpc'[u] \in {"search", "hunt"} =>
         \E j \in 1 .. m + 1 : WalksAt(L, m, u, j)'
  <2> SUFFICES ASSUME NEW u \in Thr \ {t}, wpc'[u] \in {"search", "hunt"}
               PROVE  \E j \in 1 .. m + 1 : WalksAt(L, m, u, j)'
    BY <1>2
  <2>1. PICK j \in 1 .. m + 1 : WalksAt(L, m, u, j)
    BY <1>2 DEF Heap
  <2>2. \A k \in 1 .. j - 1 : k \in 1 .. m
    OBVIOUS
  <2>3. WalksAt(L, m, u, j)'
    BY <1>1, <1>2, <1>5, <1>6, <2>1, <2>2 DEF WalksAt
  <2> QED
    BY <2>3
<1>14. wpc'[main] = "done" => m = 0
  BY <1>2, ListThreads DEF Heap
<1>15. Heap(L, m)'
  BY <1>7, <1>9, <1>10, <1>11, <1>12, <1>13, <1>14 DEF Heap
<1>16. Emptied' <=> Emptied
  BY <1>2, ListThreads DEF Emptied
<1> QED
  BY <1>1, <1>3, <1>4, <1>5, <1>15, <1>16 DEF Keeps

(* Nobody else is inside while t is.                                        *)
LEMMA Alone ==
  ASSUME NEW m, NEW L, NEW t, Acts(L, m, t), wpc[t] \in Linked!Locked
  PROVE  /\ \A u \in Thr \ {t} : wpc[u] \notin Linked!Locked
         /\ wpc[main] \in {"drain", "done"} => t = main
BY ListThreads, Places DEF Acts, ListPcs

(* The new node is made to point to the first of the list.                  *)
LEMMA NodeLinked ==
  ASSUME NEW m, NEW L, NEW t, Acts(L, m, t), Linked!InsertLink(t)
  PROVE  Keeps(L, m) /\ (Emptied' <=> Emptied) /\ UNCHANGED <<value, answer>>
<1> USE DEF Acts
<1>1. /\ wpc[t] = "link" /\ next' = [next EXCEPT ![curr[t]] = head]
      /\ wpc' = [wpc EXCEPT ![t] = "publish"]
      /\ UNCHANGED <<head, value, allocated, lock, val, curr, prev, answer>>
  BY DEF Linked!InsertLink, Linked!Goto
<1>2. /\ \A u \in Thr \ {t} : wpc'[u] = wpc[u] /\ wpc[u] \notin Linked!Locked
      /\ wpc'[t] = "publish" /\ lock = t /\ ~ Emptied
  BY <1>1, Alone, Places DEF ListPcs, Emptied
<1>3. ListPcs'
  BY <1>1, <1>2, PcsStep, Places
<1>4. ListTypes'
  BY <1>1, <1>2 DEF ListTypes
<1>5. curr[t] \in Nodes /\ \A k \in 1 .. m : L[k] # curr[t] /\ L[k] \in Nodes
  BY <1>1, Places DEF Heap, ListTypes
<1>6. /\ next'[curr[t]] = head
      /\ \A k \in 1 .. m : next'[L[k]] = next[L[k]]
  BY <1>1, <1>5 DEF ListTypes
<1>7. (\A k : Node(L, m, k)' = Node(L, m, k)) /\ Linked!Begin' = Linked!Begin
  BY <1>1, <1>2, ListThreads DEF Node, Linked!Begin
<1>8. Chain(L, m)'
  BY <1>1, <1>6, <1>7 DEF Heap, Chain
<1>9. \A u \in Thr : wpc'[u] \in Holding <=> wpc[u] \in Holding
  BY <1>1, <1>2, Places
<1>10. /\ \A u \in Thr : wpc'[u] \in Holding =>
            curr'[u] \in allocated' /\ \A k \in 1 .. m : L[k] # curr'[u]
       /\ \A u, w \in Thr :
            wpc'[u] \in Holding /\ wpc'[w] \in Holding /\ curr'[u] = curr'[w] => u = w
       /\ \A y \in allocated' : \/ \E k \in 1 .. m : y = L[k]
                                \/ \E u \in Thr : wpc'[u] \in Holding /\ curr'[u] = y
  BY <1>1, <1>9 DEF Heap
<1>11. \A u \in Thr : wpc'[u] = "publish" => next'[curr'[u]] = head'
  BY <1>1, <1>2, <1>6, Places
<1>12. \A u \in Thr : wpc'[u] \notin {"search", "hunt"}
  BY <1>1, <1>2, Places
<1>13. ~ Emptied'
  BY <1>2, ListThreads DEF Emptied
<1>14. Heap(L, m)'
  BY <1>8, <1>10, <1>11, <1>12, <1>13 DEF Heap, Emptied
<1> QED
  BY <1>1, <1>2, <1>3, <1>4, <1>13, <1>14 DEF Keeps

Push(x, L, m) == [k \in 1 .. m + 1 |-> IF k = 1 THEN x ELSE L[k - 1]]

(* The new node becomes the first of the list.                              *)
LEMMA NodePublished ==
  ASSUME NEW m, NEW L, NEW t, Acts(L, m, t), Linked!InsertPublish(t)
  PROVE  \E x \in Nodes :
           /\ Keeps(Push(x, L, m), m + 1) /\ Push(x, L, m) \in [1 .. m + 1 -> Nodes]
           /\ ~ Emptied /\ ~ Emptied' /\ UNCHANGED <<value, answer>> /\ x = curr[t]
<1> USE DEF Acts
<1> DEFINE l == IF t = main THEN "join" ELSE "call"
<1>1. /\ wpc[t] = "publish" /\ lock' = None /\ head' = curr[t]
      /\ wpc' = [wpc EXCEPT ![t] = l]
      /\ curr' = [curr EXCEPT ![t] = None] /\ prev' = [prev EXCEPT ![t] = None]
      /\ UNCHANGED <<value, next, allocated, val, answer>>
  BY DEF Linked!InsertPublish, Linked!UnlockReturn, Linked!Goto
<1>2. l \in {"join", "call"} /\ (t \in Workers => l = "call") /\ (t = main => l = "join")
  BY ListThreads
<1> HIDE DEF l
<1>3. /\ \A u \in Thr \ {t} : /\ wpc'[u] = wpc[u] /\ wpc[u] \notin Linked!Locked
                              /\ curr'[u] = curr[u] /\ prev'[u] = prev[u]
      /\ wpc'[t] = l /\ ~ Emptied
  BY <1>1, Alone, Places DEF ListPcs, ListTypes, Emptied
<1>4. ListPcs'
  BY <1>1, <1>2, <1>3, PcsStep, Places
<1>5. PICK x \in Nodes : x = curr[t]
  BY <1>1, Places DEF Heap, ListTypes
<1>6. x \in allocated /\ next[x] = head /\ \A k \in 1 .. m : L[k] # x
  BY <1>1, <1>5, Places DEF Heap
<1>7. ListTypes'
  BY <1>1, <1>2, <1>3, <1>5 DEF ListTypes
<1>8. ~ Emptied'
  BY <1>2, <1>3, ListThreads DEF Emptied
<1> DEFINE M == m + 1
           K == Push(x, L, m)
<1>9. /\ M \in Nat /\ K \in [1 .. M -> Nodes] /\ K[1] = x
      /\ \A k \in 1 .. m : K[k + 1] = L[k] /\ k + 1 \in 1 .. M
      /\ \A k \in 1 .. M : \/ k = 1 /\ K[k] = x
                           \/ k - 1 \in 1 .. m /\ K[k] = L[k - 1]
  <2>1. \A k \in 1 .. M : k = 1 \/ k - 1 \in 1 .. m
    OBVIOUS
  <2>2. K \in [1 .. M -> Nodes]
    BY <2>1 DEF Push
  <2> QED
    BY <2>1, <2>2 DEF Push
<1> HIDE DEF M, K
<1>10. Chain(K, M)'
  <2>1. \A j, k \in 1 .. M : K[j] = K[k] => j = k
    <3> SUFFICES ASSUME NEW j \in 1 .. M, NEW k \in 1 .. M, K[j] = K[k] PROVE j = k
      OBVIOUS
    <3>1. \/ j = 1 /\ k = 1
          \/ j - 1 \in 1 .. m /\ k - 1 \in 1 .. m /\ L[j - 1] = L[k - 1]
      BY <1>6, <1>9
    <3>2. j = k \/ j - 1 = k - 1
      BY <3>1 DEF Heap, Chain
    <3> QED
      BY <1>9, <3>2
  <2>2. \A k \in 1 .. M : K[k] \in allocated'
    <3>1. \A k \in 1 .. m : L[k] \in allocated'
      BY <1>1 DEF Heap, Chain
    <3> QED
      BY <1>1, <1>6, <1>9, <3>1
  <2>3. Linked!Begin = head /\ Linked!Begin' = x /\ 1 \in 1 .. M
    BY <1>1, <1>3, <1>5, <1>8 DEF Linked!Begin, Emptied, M
  <2>4. \A k : Node(K, M, k + 1)' = Node(K, M, k + 1)
    BY DEF Node
  <2>5. next[x] = Node(K, M, 2)
    <3>1. next[x] = Node(L, m, 1)
      BY <1>6, <2>3 DEF Heap, Chain
    <3>2. CASE m = 0
      BY <3>1, <3>2 DEF Node, M
    <3>3. CASE m > 0
      <4>1. 1 \in 1 .. m /\ 2 \in 1 .. M
        BY <3>3 DEF M
      <4> QED
        BY <1>9, <3>1, <4>1 DEF Node
    <3> QED
      BY <3>2, <3>3
  <2>6. ASSUME NEW j \in 1 .. m PROVE next[L[j]] = Node(K, M, (j + 1) + 1)
    <3>1. next[L[j]] = Node(L, m, j + 1)
      BY DEF Heap, Chain
    <3>2. CASE j + 1 \in 1 .. m
      BY <1>9, <3>1, <3>2 DEF Node
    <3>3. CASE j + 1 \notin 1 .. m
      <4>1. (j + 1) + 1 \notin 1 .. M
        BY <3>3 DEF M
      <4> QED
        BY <3>1, <3>3, <4>1 DEF Node
    <3> QED
      BY <3>2, <3>3
  <2>7. \A k \in 1 .. M : next'[K[k]] = Node(K, M, k + 1)
    <3> SUFFICES ASSUME NEW k \in 1 .. M PROVE next[K[k]] = Node(K, M, k + 1)
      BY <1>1
    <3>1. CASE k = 1 /\ K[k] = x
      BY <2>5, <3>1
    <3>2. CASE k - 1 \in 1 .. m /\ K[k] = L[k - 1]
      <4>1. (k - 1 + 1) + 1 = k + 1
        BY <1>9
      <4> QED
        BY <2>6, <3>2, <4>1
    <3> QED
      BY <1>9, <3>1, <3>2
  <2>8. Linked!Begin' = Node(K, M, 1)'
    BY <1>9, <2>3 DEF Node
  <2> QED
    BY <2>1, <2>2, <2>4, <2>7, <2>8 DEF Chain
<1>11. \A u \in Thr : wpc'[u] \in Holding <=> u # t /\ wpc[u] \in Holding
  BY <1>2, <1>3, Places
<1>12. \A u \in Thr : u # t /\ wpc[u] \in Holding => curr[u] # x
  BY <1>1, <1>5, Places DEF Heap
<1>13. \A u \in Thr : wpc'[u] \in Holding =>
         curr'[u] \in allocated' /\ \A k \in 1 .. M : K[k] # curr'[u]
  <2> SUFFICES ASSUME NEW u \in Thr, wpc'[u] \in Holding
               PROVE  curr[u] \in allocated /\ \A k \in 1 .. M : K[k] # curr[u]
    BY <1>1, <1>3, <1>11
  <2>1. curr[u] \in allocated /\ curr[u] # x /\ \A k \in 1 .. m : L[k] # curr[u]
    BY <1>11, <1>12 DEF Heap
  <2> QED
    BY <1>9, <2>1
<1>14. \A u, w \in Thr :
         wpc'[u] \in Holding /\ wpc'[w] \in Holding /\ curr'[u] = curr'[w] => u = w
  BY <1>3, <1>11 DEF Heap
<1>15. \A y \in allocated' : \/ \E k \in 1 .. M : y = K[k]
                             \/ \E u \in Thr : wpc'[u] \in Holding /\ curr'[u] = y
  <2> SUFFICES ASSUME NEW y \in allocated, ~ \E k \in 1 .. M : y = K[k]
               PROVE  \E u \in Thr : wpc'[u] \in Holding /\ curr'[u] = y
    BY <1>1
  <2>1. y # x /\ ~ \E k \in 1 .. m : y = L[k]
    <3>1. 1 \in 1 .. M
      BY DEF M
    <3> QED
      BY <1>9, <3>1
  <2>2. PICK u \in Thr : wpc[u] \in Holding /\ curr[u] = y
    BY <2>1 DEF Heap
  <2> QED
    BY <1>3, <1>5, <1>11, <2>1, <2>2
<1>16. \A u \in Thr : wpc'[u] \notin {"publish", "search", "hunt"}
  BY <1>2, <1>3, Places
<1>17. Heap(K, M)'
  BY <1>8, <1>10, <1>13, <1>14, <1>15, <1>16 DEF Heap, Emptied
<1> QED
  BY <1>1, <1>3, <1>4, <1>5, <1>7, <1>8, <1>9, <1>17 DEF Keeps, K, M

(* The chain without its j-th node.                                         *)
Drop(L, m, j) == [k \in 1 .. m - 1 |-> IF k < j THEN L[k] ELSE L[k + 1]]

Dropped(D, L, m, j) ==
  /\ m - 1 \in Nat /\ D \in [1 .. m - 1 -> Nodes]
  /\ \A k \in 1 .. m - 1 : \/ k \in 1 .. m /\ k < j /\ D[k] = L[k]
                           \/ k + 1 \in 1 .. m /\ k >= j /\ D[k] = L[k + 1]
  /\ \A k, l \in 1 .. m - 1 : D[k] = D[l] => k = l
  /\ \A k \in 1 .. m - 1 : D[k] # L[j]
  /\ \A k \in 1 .. m : k = j \/ \E l \in 1 .. m - 1 : L[k] = D[l]
  /\ \A k \in Nat \ {0} : Node(D, m - 1, k) = IF k < j THEN Node(L, m, k)
                                              ELSE Node(L, m, k + 1)

LEMMA DropFacts ==
  ASSUME NEW m \in Nat, NEW L \in [1 .. m -> Nodes], NEW j \in 1 .. m,
         \A k, l \in 1 .. m : L[k] = L[l] => k = l
  PROVE  Dropped(Drop(L, m, j), L, m, j)
<1> DEFINE D == Drop(L, m, j)
           M == m - 1
<1>1. M \in Nat /\ \A k \in 1 .. M : k \in 1 .. m /\ k + 1 \in 1 .. m
  OBVIOUS
<1>2. D \in [1 .. M -> Nodes]
  BY <1>1 DEF Drop
<1>3. \A k \in 1 .. M : D[k] = IF k < j THEN L[k] ELSE L[k + 1]
  BY DEF Drop
<1> HIDE DEF D
<1>4. \A k \in 1 .. M : \/ k \in 1 .. m /\ k < j /\ D[k] = L[k]
                        \/ k + 1 \in 1 .. m /\ k >= j /\ D[k] = L[k + 1]
  BY <1>1, <1>3
<1>5. ASSUME NEW k \in 1 .. M, NEW l \in 1 .. M, D[k] = D[l] PROVE k = l
  <2>1. CASE k < j /\ l < j
    BY <1>1, <1>3, <1>5, <2>1
  <2>2. CASE k < j /\ l >= j
    <3>1. k = l + 1
      BY <1>1, <1>3, <1>5, <2>2
    <3> QED
      BY <2>2, <3>1
  <2>3. CASE k >= j /\ l < j
    <3>1. k + 1 = l
      BY <1>1, <1>3, <1>5, <2>3
    <3> QED
      BY <2>3, <3>1
  <2>4. CASE k >= j /\ l >= j
    <3>1. k + 1 = l + 1
      BY <1>1, <1>3, <1>5, <2>4
    <3> QED
      BY <3>1
  <2> QED
    BY <2>1, <2>2, <2>3, <2>4
<1>6. ASSUME NEW k \in 1 .. M, D[k] = L[j] PROVE FALSE
  <2>1. CASE k < j
    BY <1>1, <1>3, <1>6, <2>1
  <2>2. CASE k >= j
    <3>1. k + 1 = j
      BY <1>1, <1>3, <1>6, <2>2
    <3> QED
      BY <2>2, <3>1
  <2> QED
    BY <2>1, <2>2
<1>7. ASSUME NEW k \in 1 .. m, k # j PROVE \E l \in 1 .. M : L[k] = D[l]
  <2>1. CASE k < j
    <3>1. k \in 1 .. M
      BY <2>1
    <3> QED
      BY <1>3, <2>1, <3>1
  <2>2. CASE k > j
    <3>1. k - 1 \in 1 .. M /\ ~ (k - 1 < j) /\ (k - 1) + 1 = k
      BY <2>2
    <3>2. D[k - 1] = L[k]
      BY <1>3, <3>1
    <3> QED
      BY <3>1, <3>2
  <2> QED
    BY <1>7, <2>1, <2>2
<1>8. ASSUME NEW k \in Nat \ {0}
      PROVE  Node(D, M, k) = IF k < j THEN Node(L, m, k) ELSE Node(L, m, k + 1)
  <2>1. CASE k \in 1 .. M
    BY <1>1, <1>3, <2>1 DEF Node
  <2>2. CASE k \notin 1 .. M
    <3>1. k + 1 \notin 1 .. m /\ ~ (k < j)
      BY <2>2
    <3> QED
      BY <2>2, <3>1 DEF Node
  <2> QED
    BY <2>1, <2>2
<1> QED
  BY <1>1, <1>2, <1>4, <1>5, <1>6, <1>7, <1>8 DEF Dropped, D

(* The node with the value is taken out of the list, and t keeps it.        *)
LEMMA NodeUnlinked ==
  ASSUME NEW m, NEW L, NEW t, Acts(L, m, t), Linked!RemoveUnlink(t)
  PROVE  \E j \in 1 .. m :
           /\ Keeps(Drop(L, m, j), m - 1)
           /\ value[L[j]] = val[t] /\ \A k \in 1 .. j - 1 : value[L[k]] # val[t]
           /\ ~ Emptied /\ ~ Emptied' /\ UNCHANGED <<value, answer>>
<1> USE DEF Acts
<1>1. /\ wpc[t] = "hunt" /\ curr[t] # None /\ value[curr[t]] = val[t]
      /\ wpc' = [wpc EXCEPT ![t] = "free"]
      /\ IF prev[t] = None
           THEN head' = next[curr[t]] /\ UNCHANGED next
           ELSE next' = [next EXCEPT ![prev[t]] = next[curr[t]]] /\ UNCHANGED head
      /\ UNCHANGED <<value, allocated, lock, val, curr, prev, answer>>
  BY DEF Linked!RemoveUnlink, Linked!Goto
<1>2. /\ \A u \in Thr \ {t} : wpc'[u] = wpc[u] /\ wpc[u] \notin Linked!Locked
      /\ wpc'[t] = "free" /\ lock = t /\ t # main /\ ~ Emptied
  BY <1>1, Alone, Places DEF ListPcs, Emptied
<1>3. ~ Emptied'
  BY <1>2, ListThreads DEF Emptied
<1>4. ListPcs'
  BY <1>1, <1>2, PcsStep, Places
<1>5. PICK j \in 1 .. m + 1 : WalksAt(L, m, t, j)
  BY <1>1 DEF Heap
<1>6. j \in 1 .. m /\ curr[t] = L[j] /\ prev[t] = Node(L, m, j - 1) /\ L[j] \in Nodes
  BY <1>1, <1>5 DEF WalksAt, Node
<1>7. next[L[j]] = Node(L, m, j + 1) /\ next[L[j]] \in Nodes \cup {None}
  BY <1>6 DEF Heap, Chain, ListTypes
<1>8. \/ prev[t] = None /\ j = 1
      \/ prev[t] # None /\ j - 1 \in 1 .. m /\ prev[t] = L[j - 1] /\ L[j - 1] \in Nodes
  <2>1. j = 1 \/ j - 1 \in 1 .. m
    BY <1>6
  <2>2. 1 - 1 \notin 1 .. m
    OBVIOUS
  <2> QED
    BY <1>6, <2>1, <2>2, ListThreads DEF Node
<1>9. ListTypes'
  BY <1>1, <1>2, <1>6, <1>7 DEF ListTypes
<1> DEFINE M == m - 1
           D == Drop(L, m, j)
<1>10. /\ M \in Nat /\ D \in [1 .. M -> Nodes]
       /\ \A k \in 1 .. M : \/ k \in 1 .. m /\ k < j /\ D[k] = L[k]
                            \/ k + 1 \in 1 .. m /\ k >= j /\ D[k] = L[k + 1]
       /\ \A k, l \in 1 .. M : D[k] = D[l] => k = l
       /\ \A k \in 1 .. M : D[k] # L[j]
       /\ \A k \in 1 .. m : k = j \/ \E l \in 1 .. M : L[k] = D[l]
       /\ \A k \in Nat \ {0} : Node(D, M, k) = IF k < j THEN Node(L, m, k)
                                                ELSE Node(L, m, k + 1)
  <2>1. m \in Nat /\ L \in [1 .. m -> Nodes] /\ \A k, l \in 1 .. m : L[k] = L[l] => k = l
    BY DEF Heap, Chain
  <2>2. Dropped(D, L, m, j)
    BY <1>6, <2>1, DropFacts
  <2> HIDE DEF D
  <2> QED
    BY <2>2 DEF Dropped
<1> HIDE DEF M, D
<1>11. Linked!Begin = head /\ Linked!Begin' = head'
  BY <1>2, <1>3 DEF Linked!Begin, Emptied
<1>12. head' = Node(D, M, 1)
  <2>1. CASE j = 1
    <3>1. prev[t] = None
      BY <1>8, <2>1
    <3>2. Node(D, M, 1) = Node(L, m, 2)
      BY <1>10, <2>1
    <3> QED
      BY <1>1, <1>6, <1>7, <2>1, <3>1, <3>2
  <2>2. CASE j # 1
    <3>1. prev[t] # None /\ 1 < j
      BY <1>6, <1>8, <2>2
    <3>2. Node(D, M, 1) = Node(L, m, 1)
      BY <1>10, <3>1
    <3> QED
      BY <1>1, <1>11, <3>1, <3>2 DEF Heap, Chain
  <2> QED
    BY <2>1, <2>2
<1>13. ASSUME NEW k \in 1 .. M PROVE next'[D[k]] = Node(D, M, k + 1)
  <2>1. /\ k + 1 \in Nat \ {0}
        /\ Node(D, M, k + 1) = IF k + 1 < j THEN Node(L, m, k + 1)
                               ELSE Node(L, m, (k + 1) + 1)
    BY <1>10
  <2>2. CASE k < j /\ k \in 1 .. m /\ D[k] = L[k]
    <3>1. CASE k = j - 1
      <4>1. prev[t] # None /\ prev[t] = L[k] /\ L[k] \in Nodes
        BY <1>8, <2>2, <3>1
      <4>2. next'[L[k]] = next[L[j]]
        BY <1>1, <1>6, <4>1 DEF ListTypes
      <4>3. (k + 1) + 1 = j + 1 /\ ~ (k + 1 < j)
        BY <3>1
      <4> QED
        BY <1>7, <2>1, <2>2, <4>2, <4>3
    <3>2. CASE k # j - 1
      <4>1. k + 1 < j /\ next[L[k]] = Node(L, m, k + 1)
        BY <2>2, <3>2 DEF Heap, Chain
      <4>2. next'[L[k]] = next[L[k]]
        <5>1. prev[t] = None \/ prev[t] # L[k]
          BY <1>8, <2>2, <3>2 DEF Heap, Chain
        <5> QED
          BY <1>1, <2>2, <5>1 DEF ListTypes
      <4> QED
        BY <2>1, <2>2, <4>1, <4>2
    <3> QED
      BY <3>1, <3>2
  <2>3. CASE k >= j /\ k + 1 \in 1 .. m /\ D[k] = L[k + 1]
    <3>1. ~ (k + 1 < j) /\ next[L[k + 1]] = Node(L, m, (k + 1) + 1) /\ k + 1 # j - 1
      BY <2>3 DEF Heap, Chain
    <3>2. next'[L[k + 1]] = next[L[k + 1]]
      <4>1. prev[t] = None \/ prev[t] # L[k + 1]
        BY <1>8, <2>3, <3>1 DEF Heap, Chain
      <4> QED
        BY <1>1, <2>3, <4>1 DEF ListTypes
    <3> QED
      BY <2>1, <2>3, <3>1, <3>2
  <2> QED
    BY <1>10, <2>2, <2>3
<1>14. \A k \in 1 .. M : D[k] \in allocated'
  <2>1. \A k \in 1 .. m : L[k] \in allocated'
    BY <1>1 DEF Heap, Chain
  <2> QED
    BY <1>10, <2>1
<1>15. Chain(D, M)'
  <2>1. \A k : Node(D, M, k)' = Node(D, M, k)
    BY DEF Node
  <2> QED
    BY <1>10, <1>11, <1>12, <1>13, <1>14, <2>1 DEF Chain
<1>16. \A u \in Thr : wpc'[u] \in Holding <=> u = t \/ wpc[u] \in Holding
  BY <1>2, Places
<1>17. /\ ~ (wpc[t] \in Holding) /\ L[j] \in allocated
       /\ \A u \in Thr : wpc[u] \in Holding =>
            curr[u] \in allocated /\ \A k \in 1 .. m : L[k] # curr[u]
  BY <1>1, <1>6, Places DEF Heap, Chain
<1>18. \A u \in Thr : wpc'[u] \in Holding =>
         curr'[u] \in allocated' /\ \A k \in 1 .. M : D[k] # curr'[u]
  <2> SUFFICES ASSUME NEW u \in Thr, wpc'[u] \in Holding
               PROVE  curr[u] \in allocated /\ \A k \in 1 .. M : D[k] # curr[u]
    BY <1>1
  <2>1. CASE u = t
    BY <1>6, <1>10, <1>17, <2>1
  <2>2. CASE wpc[u] \in Holding
    <3>1. curr[u] \in allocated /\ \A k \in 1 .. m : L[k] # curr[u]
      BY <1>17, <2>2
    <3>2. ASSUME NEW k \in 1 .. M PROVE D[k] # curr[u]
      <4>1. \/ k \in 1 .. m /\ D[k] = L[k]
            \/ k + 1 \in 1 .. m /\ D[k] = L[k + 1]
        BY <1>10
      <4> QED
        BY <3>1, <4>1
    <3> QED
      BY <3>1, <3>2
  <2> QED
    BY <1>16, <2>1, <2>2
<1>19. \A u, w \in Thr :
         wpc'[u] \in Holding /\ wpc'[w] \in Holding /\ curr'[u] = curr'[w] => u = w
  BY <1>1, <1>6, <1>16, <1>17 DEF Heap
<1>20. \A y \in allocated' : \/ \E k \in 1 .. M : y = D[k]
                             \/ \E u \in Thr : wpc'[u] \in Holding /\ curr'[u] = y
  <2> SUFFICES ASSUME NEW y \in allocated, ~ \E k \in 1 .. M : y = D[k]
               PROVE  \E u \in Thr : wpc'[u] \in Holding /\ curr'[u] = y
    BY <1>1
  <2>1. CASE y = L[j]
    BY <1>1, <1>6, <1>16, <2>1
  <2>2. CASE y # L[j]
    <3>1. ~ \E k \in 1 .. m : y = L[k]
      BY <1>10, <2>2
    <3>2. PICK u \in Thr : wpc[u] \in Holding /\ curr[u] = y
      BY <3>1 DEF Heap
    <3> QED
      BY <1>1, <1>16, <3>2
  <2> QED
    BY <2>1, <2>2
<1>21. \A u \in Thr : wpc'[u] \notin {"publish", "search", "hunt"}
  BY <1>2, Places
<1>22. Heap(D, M)'
  BY <1>3, <1>15, <1>18, <1>19, <1>20, <1>21 DEF Heap, Emptied
<1> QED
  BY <1>1, <1>2, <1>3, <1>4, <1>5, <1>6, <1>9, <1>22 DEF Keeps, D, M, WalksAt

(* The node is freed: nobody else has it.                                   *)
LEMMA NodeFreed ==
  ASSUME NEW m, NEW L, NEW t, Acts(L, m, t), Linked!RemoveFree(t)
  PROVE  Keeps(L, m) /\ (Emptied' <=> Emptied) /\ UNCHANGED <<value, answer>>
<1> USE DEF Acts
<1>1. /\ wpc[t] = "free" /\ lock' = None /\ allocated' = allocated \ {curr[t]}
      /\ wpc' = [wpc EXCEPT ![t] = "call"]
      /\ curr' = [curr EXCEPT ![t] = None] /\ prev' = [prev EXCEPT ![t] = None]
      /\ UNCHANGED <<head, value, next, val, answer>>
  BY ListThreads DEF Linked!RemoveFree, Linked!UnlockReturn, Linked!Goto, ListPcs
<1>2. /\ \A u \in Thr \ {t} : /\ wpc'[u] = wpc[u] /\ wpc[u] \notin Linked!Locked
                              /\ curr'[u] = curr[u] /\ prev'[u] = prev[u]
      /\ wpc'[t] = "call" /\ t # main /\ ~ Emptied
  BY <1>1, Alone, Places DEF ListPcs, ListTypes, Emptied
<1>3. ~ Emptied'
  BY <1>2, ListThreads DEF Emptied
<1>4. ListPcs'
  BY <1>1, <1>2, PcsStep, Places
<1>5. ListTypes'
  BY <1>1, <1>2 DEF ListTypes
<1>6. \A k \in 1 .. m : L[k] # curr[t]
  BY <1>1, Places DEF Heap
<1>7. (\A k : Node(L, m, k)' = Node(L, m, k)) /\ Linked!Begin' = Linked!Begin
  BY <1>1, <1>2, <1>3 DEF Node, Linked!Begin, Emptied
<1>8. Chain(L, m)'
  BY <1>1, <1>6, <1>7 DEF Heap, Chain
<1>9. \A u \in Thr : wpc'[u] \in Holding <=> u # t /\ wpc[u] \in Holding
  BY <1>2, Places
<1>10. \A u \in Thr : u # t /\ wpc[u] \in Holding => curr[u] # curr[t]
  BY <1>1, Places DEF Heap
<1>11. \A u \in Thr : wpc'[u] \in Holding =>
         curr'[u] \in allocated' /\ \A k \in 1 .. m : L[k] # curr'[u]
  BY <1>1, <1>2, <1>9, <1>10 DEF Heap
<1>12. \A u, w \in Thr :
         wpc'[u] \in Holding /\ wpc'[w] \in Holding /\ curr'[u] = curr'[w] => u = w
  BY <1>2, <1>9 DEF Heap
<1>13. \A y \in allocated' : \/ \E k \in 1 .. m : y = L[k]
                             \/ \E u \in Thr : wpc'[u] \in Holding /\ curr'[u] = y
  <2> SUFFICES ASSUME NEW y \in allocated', ~ \E k \in 1 .. m : y = L[k]
               PROVE  \E u \in Thr : wpc'[u] \in Holding /\ curr'[u] = y
    OBVIOUS
  <2>1. PICK u \in Thr : wpc[u] \in Holding /\ curr[u] = y
    BY <1>1 DEF Heap
  <2> QED
    BY <1>1, <1>2, <1>9, <2>1
<1>14. \A u \in Thr : wpc'[u] \notin {"publish", "search", "hunt"}
  BY <1>2, Places
<1>15. Heap(L, m)'
  BY <1>3, <1>8, <1>11, <1>12, <1>13, <1>14 DEF Heap, Emptied
<1> QED
  BY <1>1, <1>2, <1>3, <1>4, <1>5, <1>15 DEF Keeps

(* list_destroy() takes the whole list.                                     *)
LEMMA ListTaken ==
  ASSUME NEW m, NEW L, NEW t, Acts(L, m, t), Linked!DestroyLock(t)
  PROVE  Keeps(L, m) /\ ~ Emptied /\ Emptied' /\ UNCHANGED <<value, answer>>
<1> USE DEF Acts
<1>1. /\ wpc[t] = "destroy" /\ lock = None /\ lock' = t
      /\ wpc' = [wpc EXCEPT ![t] = "drain"] /\ curr' = [curr EXCEPT ![t] = head]
      /\ UNCHANGED <<head, value, next, allocated, val, prev, answer>>
  BY DEF Linked!DestroyLock, Linked!LockAtHead, Linked!Lock, Linked!Goto,
         Linked!heapVars
<1>2. /\ t = main /\ wpc'[t] = "drain" /\ curr'[t] = head
      /\ \A u \in Thr \ {t} : /\ wpc'[u] = wpc[u] /\ wpc[u] \notin Linked!Locked
                              /\ curr'[u] = curr[u]
  BY <1>1, ListThreads DEF ListPcs, ListTypes
<1>3. ListPcs'
  BY <1>1, <1>2, PcsStep, ListThreads, Places
<1>4. ListTypes'
  BY <1>1, <1>2 DEF ListTypes
<1>5. Heap(L, m)'
  BY <1>1, <1>2, SameHeap, Places
<1> QED
  BY <1>1, <1>2, <1>3, <1>4, <1>5 DEF Keeps, Emptied

(* Its first node is freed, and the rest is what is left of it.             *)
LEMMA NodeDestroyed ==
  ASSUME NEW m, NEW L, NEW t, Acts(L, m, t), Linked!DestroyNode(t)
  PROVE  /\ m - 1 \in Nat /\ Drop(L, m, 1) \in [1 .. m - 1 -> Nodes]
         /\ Keeps(Drop(L, m, 1), m - 1)
         /\ Emptied /\ Emptied' /\ UNCHANGED <<value, answer>>
<1> USE DEF Acts
<1>1. /\ wpc[t] = "drain" /\ curr[t] # None
      /\ curr' = [curr EXCEPT ![t] = next[curr[t]]]
      /\ allocated' = allocated \ {curr[t]}
      /\ UNCHANGED <<head, value, next, lock, wpc, val, prev, answer>>
  BY DEF Linked!DestroyNode
<1>2. t = main /\ \A u \in Thr \ {t} : wpc[u] = "done" /\ curr'[u] = curr[u]
  BY <1>1, ListThreads DEF ListPcs, ListTypes
<1>3. ListPcs'
  BY <1>1 DEF ListPcs
<1>4. 1 \in 1 .. m /\ curr[t] = L[1] /\ L[1] \in Nodes
  BY <1>1, <1>2 DEF Heap, Chain, Linked!Begin, Node
<1>5. next[L[1]] = Node(L, m, 2) /\ curr'[t] = next[L[1]]
  <2>1. next[L[1]] = Node(L, m, 1 + 1)
    BY <1>4 DEF Heap, Chain
  <2> QED
    BY <1>1, <1>4, <2>1 DEF ListTypes
<1>6. ListTypes'
  BY <1>1, <1>4 DEF ListTypes
<1> DEFINE M == m - 1
           D == Drop(L, m, 1)
<1>7. Dropped(D, L, m, 1)
  BY <1>4, DropFacts DEF Heap, Chain
<1> HIDE DEF D
<1>8. /\ M \in Nat /\ D \in [1 .. M -> Nodes]
      /\ \A k \in 1 .. M : k + 1 \in 1 .. m /\ D[k] = L[k + 1] /\ D[k] # L[1]
      /\ \A k, l \in 1 .. M : D[k] = D[l] => k = l
      /\ \A k \in 1 .. m : k = 1 \/ \E l \in 1 .. M : L[k] = D[l]
      /\ \A k \in Nat \ {0} : Node(D, M, k) = Node(L, m, k + 1)
  <2>1. /\ M \in Nat /\ D \in [1 .. M -> Nodes]
        /\ \A k \in 1 .. M : \/ k \in 1 .. m /\ k < 1 /\ D[k] = L[k]
                             \/ k + 1 \in 1 .. m /\ k >= 1 /\ D[k] = L[k + 1]
        /\ \A k, l \in 1 .. M : D[k] = D[l] => k = l
        /\ \A k \in 1 .. M : D[k] # L[1]
        /\ \A k \in 1 .. m : k = 1 \/ \E l \in 1 .. M : L[k] = D[l]
        /\ \A k \in Nat \ {0} : Node(D, M, k) = IF k < 1 THEN Node(L, m, k)
                                                 ELSE Node(L, m, k + 1)
    BY <1>7 DEF Dropped
  <2> HIDE DEF M
  <2>2. ASSUME NEW k \in 1 .. M PROVE k + 1 \in 1 .. m /\ D[k] = L[k + 1]
    <3>1. ~ (k < 1)
      BY <2>1
    <3> QED
      BY <2>1, <3>1
  <2>3. ASSUME NEW k \in Nat \ {0} PROVE Node(D, M, k) = Node(L, m, k + 1)
    <3>1. ~ (k < 1)
      OBVIOUS
    <3> QED
      BY <2>1, <3>1
  <2> QED
    BY <2>1, <2>2, <2>3
<1> HIDE DEF M
<1>9. Linked!Begin' = Node(D, M, 1)
  <2>1. Node(D, M, 1) = Node(L, m, 2)
    BY <1>8
  <2> QED
    BY <1>1, <1>2, <1>5, <2>1 DEF Linked!Begin
<1>10. Chain(D, M)'
  <2>1. \A k : Node(D, M, k)' = Node(D, M, k)
    BY DEF Node
  <2>2. ASSUME NEW k \in 1 .. M PROVE next'[D[k]] = Node(D, M, k + 1)
    <3>1. k + 1 \in 1 .. m /\ D[k] = L[k + 1] /\ k + 1 \in Nat \ {0}
      BY <1>8
    <3>2. next[L[k + 1]] = Node(L, m, (k + 1) + 1)
      BY <3>1 DEF Heap, Chain
    <3>3. Node(D, M, k + 1) = Node(L, m, (k + 1) + 1)
      BY <1>8, <3>1
    <3> QED
      BY <1>1, <3>1, <3>2, <3>3
  <2>3. \A k \in 1 .. M : D[k] \in allocated'
    <3>1. \A k \in 1 .. m : L[k] \in allocated
      BY DEF Heap, Chain
    <3> QED
      BY <1>1, <1>4, <1>8, <3>1
  <2> QED
    BY <1>8, <1>9, <2>1, <2>2, <2>3 DEF Chain
<1>11. \A u \in Thr : wpc'[u] \notin Holding \cup {"search", "hunt"} /\ wpc'[u] = wpc[u]
  BY <1>1, <1>2, Places
<1>12. \A y \in allocated' : \E k \in 1 .. M : y = D[k]
  <2> SUFFICES ASSUME NEW y \in allocated, y # L[1] PROVE \E k \in 1 .. M : y = D[k]
    BY <1>1, <1>4
  <2>1. PICK k \in 1 .. m : y = L[k]
    BY <1>11 DEF Heap
  <2> QED
    BY <1>8, <2>1
<1>13. Heap(D, M)'
  BY <1>1, <1>2, <1>10, <1>11, <1>12, Places DEF Heap
<1> QED
  BY <1>1, <1>2, <1>3, <1>6, <1>8, <1>13, ListThreads DEF Keeps, D, M, Emptied

(* list_destroy() is through when nothing is left.                          *)
LEMMA ListDestroyed ==
  ASSUME NEW m, NEW L, NEW t, Acts(L, m, t), Linked!DestroyEnd(t)
  PROVE  Keeps(L, m) /\ Emptied /\ Emptied' /\ UNCHANGED <<value, answer>>
<1> USE DEF Acts
<1>1. /\ wpc[t] = "drain" /\ curr[t] = None /\ head' = None /\ lock' = None
      /\ curr' = [curr EXCEPT ![t] = None] /\ prev' = [prev EXCEPT ![t] = None]
      /\ wpc' = [wpc EXCEPT ![t] = IF t = main THEN "done" ELSE "call"]
      /\ UNCHANGED <<value, next, allocated, val, answer>>
  BY DEF Linked!DestroyEnd, Linked!UnlockReturn, Linked!Goto
<1>2. /\ t = main /\ wpc' = [wpc EXCEPT ![t] = "done"]
      /\ \A u \in Thr \ {t} : wpc[u] = "done" /\ wpc'[u] = "done"
  BY <1>1, ListThreads DEF ListPcs
<1>3. /\ wpc'[t] = "done"
      /\ \A u \in Thr : wpc'[u] \notin Holding \cup {"publish", "search", "hunt"}
      /\ \A u \in Thr : wpc[u] \notin Holding
  BY <1>1, <1>2, Places DEF ListPcs
<1>4. ListPcs'
  BY <1>1, <1>2, PcsStep, ListThreads, Places
<1>5. ListTypes'
  BY <1>1, <1>2 DEF ListTypes
<1>6. m = 0 /\ allocated = {}
  <2>1. m = 0
    BY <1>1, <1>2, ListThreads DEF Heap, Chain, Linked!Begin, Node
  <2> QED
    BY <1>3, <2>1 DEF Heap
<1>7. Chain(L, m)'
  <2>1. 1 .. m = {} /\ 1 \notin 1 .. m
    BY <1>6
  <2>2. Linked!Begin' = None
    BY <1>1, <1>2, <1>3 DEF Linked!Begin
  <2> QED
    BY <2>1, <2>2 DEF Chain, Node
<1>8. Heap(L, m)'
  BY <1>1, <1>3, <1>6, <1>7 DEF Heap
<1> QED
  BY <1>1, <1>2, <1>3, <1>4, <1>5, <1>8 DEF Keeps, Emptied

(* What the list holds, and what becomes of it when the chain grows or      *)
(* shrinks.                                                                 *)
Held(L, m) == [k \in 1 .. m |-> value[L[k]]]
Bar(L, m) == IF Emptied THEN <<>> ELSE Held(L, m)

BarIsHeld ==
  \A m \in Nat : \A L \in [1 .. m -> Nodes] :
    Heap(L, m) => Linked!listBar = Bar(L, m)

LEMMA ListBar == BarIsHeld
<1> SUFFICES ASSUME NEW m \in Nat, NEW L \in [1 .. m -> Nodes], Heap(L, m), ~ Emptied
             PROVE  Linked!listBar = Held(L, m)
  BY DEF BarIsHeld, Bar, Emptied, Linked!listBar
<1>1. Chain(L, m)
  BY DEF Heap
<1>2. /\ Linked!Cardinality(Linked!Reachable) = m
      /\ \A k \in 0 .. Cardinality(Nodes) : Linked!Path[k] = Node(L, m, k + 1)
  BY <1>1, ChainReachable, PathIs
<1>3. m <= Cardinality(Nodes) /\ Cardinality(Nodes) \in Nat
  BY <1>1, ChainFits, ListConstants DEF Chain
<1>4. \A k \in 1 .. m : value[Linked!Path[k - 1]] = value[L[k]]
  <2> SUFFICES ASSUME NEW k \in 1 .. m PROVE Linked!Path[k - 1] = L[k]
    BY Zenon
  <2>1. k - 1 \in 0 .. Cardinality(Nodes) /\ (k - 1) + 1 = k
    BY <1>3
  <2> QED
    BY <1>2, <2>1 DEF Node
<1>5. Linked!listBar = [k \in 1 .. m |-> value[Linked!Path[k - 1]]]
  BY <1>2 DEF Linked!listBar, Emptied
<1> QED
  BY <1>4, <1>5, Zenon DEF Held

LEMMA ConsIs ==
  ASSUME NEW S, NEW x \in S, NEW s \in Seq(S)
  PROVE  Abstract!Cons(x, s) = [k \in 1 .. Len(s) + 1 |-> IF k = 1 THEN x ELSE s[k - 1]]
<1> DEFINE c == <<x>> \o s
           d == [k \in 1 .. Len(s) + 1 |-> IF k = 1 THEN x ELSE s[k - 1]]
<1>1. <<x>> \in Seq(S) /\ Len(<<x>>) = 1 /\ <<x>>[1] = x /\ Len(s) \in Nat
  OBVIOUS
<1>2. /\ c \in Seq(S) /\ Len(c) = 1 + Len(s)
      /\ \A k \in 1 .. 1 + Len(s) : c[k] = IF k <= 1 THEN <<x>>[k] ELSE s[k - 1]
  BY <1>1, ConcatProperties
<1>3. d \in Seq(S) /\ Len(d) = Len(s) + 1
  <2>1. \A k \in 1 .. Len(s) + 1 : k = 1 \/ k - 1 \in 1 .. Len(s)
    BY <1>1
  <2>2. d \in [1 .. Len(s) + 1 -> S]
    BY <2>1
  <2> QED
    BY <1>1, <2>2
<1>4. ASSUME NEW k \in 1 .. Len(s) + 1 PROVE c[k] = d[k]
  <2>1. k \in 1 .. 1 + Len(s) /\ (k <= 1 <=> k = 1)
    BY <1>1
  <2> HIDE DEF c
  <2> QED
    BY <1>1, <1>2, <2>1
<1> HIDE DEF c, d
<1>5. c = d
  <2>1. Len(c) = Len(d) /\ \A k \in 1 .. Len(c) : c[k] = d[k]
    BY <1>1, <1>2, <1>3, <1>4
  <2> QED
    BY <1>2, <1>3, <2>1, SeqEqual
<1> QED
  BY <1>5 DEF c, d, Abstract!Cons

(* list_remove() takes out the first of the values.                         *)
LEMMA RemoveFirstIs ==
  ASSUME NEW S, NEW s \in Seq(S), NEW e, NEW j \in 1 .. Len(s), s[j] = e,
         \A k \in 1 .. j - 1 : s[k] # e
  PROVE  Abstract!RemoveFirst(s, e)
           = [k \in 1 .. Len(s) - 1 |-> IF k < j THEN s[k] ELSE s[k + 1]]
<1> DEFINE I == {k \in 1 .. Len(s) : s[k] = e}
           a == SubSeq(s, 1, j - 1)
           b == SubSeq(s, j + 1, Len(s))
           c == a \o b
           d == [k \in 1 .. Len(s) - 1 |-> IF k < j THEN s[k] ELSE s[k + 1]]
           n1 == Len(s)
<1>1. n1 \in Nat /\ j \in Int /\ 1 <= j /\ j <= n1 /\ \A k \in 1 .. n1 : s[k] \in S
  OBVIOUS
<1>2. Abstract!Min(I) = j
  <2>1. j \in I /\ \A k \in I : j =< k
    OBVIOUS
  <2>2. ASSUME NEW x \in I, \A k \in I : x =< k PROVE x = j
    BY <2>1, <2>2
  <2> HIDE DEF I
  <2> QED
    BY <2>1, <2>2 DEF Abstract!Min
<1>3. Abstract!SelectInSeq(s, LAMBDA v : v = e) = j
  <2>1. I # {}
    OBVIOUS
  <2> QED
    BY <1>2, <2>1 DEF Abstract!SelectInSeq
<1>4. Abstract!RemoveFirst(s, e) = c
  <2>1. \E k \in 1 .. Len(s) : s[k] = e
    OBVIOUS
  <2> HIDE DEF c
  <2>2. Abstract!RemoveAt(s, j) = c
    BY DEF Abstract!RemoveAt, c
  <2> QED
    BY <1>3, <2>1, <2>2 DEF Abstract!RemoveFirst
<1>5. a \in Seq(S) /\ Len(a) = j - 1 /\ \A k \in 1 .. j - 1 : a[k] = s[k]
  <2>1. \A k \in 1 .. j - 1 : s[k] \in S
    BY <1>1
  <2> QED
    BY <1>1, <2>1, SubSeqProperties
<1>6. b \in Seq(S) /\ Len(b) = n1 - j /\ \A k \in 1 .. n1 - j : b[k] = s[j + k]
  <2>1. \A k \in j + 1 .. n1 : s[k] \in S
    BY <1>1
  <2>2. /\ b \in Seq(S) /\ Len(b) = IF j + 1 <= n1 THEN n1 - (j + 1) + 1 ELSE 0
        /\ \A k \in 1 .. n1 - (j + 1) + 1 : b[k] = s[(j + 1) + k - 1]
    <3>1. j + 1 \in Int /\ n1 \in Int
      BY <1>1
    <3> QED
      BY <2>1, <3>1, SubSeqProperties
  <2> QED
    BY <1>1, <2>2
<1> HIDE DEF a, b
<1>7. /\ c \in Seq(S) /\ Len(c) = n1 - 1
      /\ \A k \in 1 .. n1 - 1 : c[k] = IF k <= j - 1 THEN a[k] ELSE b[k - (j - 1)]
  <2>1. /\ c \in Seq(S) /\ Len(c) = Len(a) + Len(b)
        /\ \A k \in 1 .. Len(a) + Len(b) : c[k] = IF k <= Len(a) THEN a[k] ELSE b[k - Len(a)]
    BY <1>5, <1>6, ConcatProperties
  <2>2. Len(a) + Len(b) = n1 - 1 /\ Len(a) = j - 1
    BY <1>1, <1>5, <1>6
  <2> HIDE DEF c, n1
  <2> QED
    BY <2>1, <2>2
<1> HIDE DEF c
<1>8. d \in Seq(S) /\ Len(d) = n1 - 1 /\ DOMAIN d = 1 .. n1 - 1
  <2>1. \A k \in 1 .. n1 - 1 : k \in 1 .. n1 /\ k + 1 \in 1 .. n1
    BY <1>1
  <2>2. d \in [1 .. n1 - 1 -> S]
    BY <1>1, <2>1
  <2> QED
    BY <1>1, <2>2
<1>9. ASSUME NEW k \in 1 .. n1 - 1 PROVE c[k] = d[k]
  <2>1. CASE k < j
    <3>1. k <= j - 1 /\ k \in 1 .. j - 1
      BY <1>1, <2>1
    <3> QED
      BY <1>5, <1>7, <2>1, <3>1
  <2>2. CASE ~ (k < j)
    <3>1. ~ (k <= j - 1) /\ k - (j - 1) \in 1 .. n1 - j /\ j + (k - (j - 1)) = k + 1
      BY <1>1, <2>2
    <3> QED
      BY <1>6, <1>7, <2>2, <3>1
  <2> QED
    BY <2>1, <2>2
<1> HIDE DEF d
<1>10. c = d
  <2>1. Len(c) = Len(d) /\ \A k \in 1 .. Len(c) : c[k] = d[k]
    BY <1>7, <1>8, <1>9
  <2> QED
    BY <1>7, <1>8, <2>1, SeqEqual
<1> QED
  BY <1>4, <1>10 DEF d

(* Who looks in vain for a value to remove leaves the list as it is.        *)
LEMMA RemoveNothing ==
  ASSUME NEW s, NEW e, \A k \in 1 .. Len(s) : s[k] # e
  PROVE  Abstract!RemoveFirst(s, e) = s
BY DEF Abstract!RemoveFirst

(* What a thread at p with the argument v has called, until it takes effect. *)
Asks(p, v) ==
  CASE p \in {"insert", "link", "publish"} -> <<"insert", v>>
    [] p \in {"contains", "search"} -> <<"contains", v>>
    [] p \in {"remove", "hunt"} -> <<"remove", v>>
    [] p = "destroy" -> <<"destroy", v>>
    [] OTHER -> <<>>

LEMMA AsksIs ==
  ASSUME NEW v
  PROVE  /\ \A p \in {"insert", "link", "publish"} : Asks(p, v) = <<"insert", v>>
         /\ \A p \in {"contains", "search"} : Asks(p, v) = <<"contains", v>>
         /\ \A p \in {"remove", "hunt"} : Asks(p, v) = <<"remove", v>>
         /\ Asks("destroy", v) = <<"destroy", v>>
         /\ \A p \in {"call", "join", "done", "free", "drain"} : Asks(p, v) = <<>>
BY DEF Asks

(* Only the call of the thread that acts changes.                           *)
LEMMA CallBarStep ==
  ASSUME NEW t \in Thr,
         \A u \in Thr \ {t} : wpc'[u] = wpc[u] /\ val'[u] = val[u]
  PROVE  /\ Linked!callBar[t] = Asks(wpc[t], val[t])
         /\ Linked!callBar' = [Linked!callBar EXCEPT ![t] = Asks(wpc'[t], val'[t])]
<1>1. /\ Linked!callBar = [u \in Thr |-> Asks(wpc[u], val[u])]
      /\ Linked!callBar' = [u \in Thr |-> Asks(wpc'[u], val'[u])]
  BY DEF Linked!callBar, Linked!Pending, Asks, Thr
<1>2. \A u \in Thr \ {t} : Asks(wpc'[u], val'[u]) = Asks(wpc[u], val[u])
  BY Zenon
<1> DEFINE a(u) == Asks(wpc[u], val[u])
           b(u) == Asks(wpc'[u], val'[u])
<1>3. Linked!callBar = [u \in Thr |-> a(u)] /\ Linked!callBar' = [u \in Thr |-> b(u)]
  BY <1>1
<1>4. \A u \in Thr \ {t} : b(u) = a(u)
  BY <1>2
<1> HIDE DEF a, b
<1>5. Linked!callBar[t] = a(t) /\ Linked!callBar' = [Linked!callBar EXCEPT ![t] = b(t)]
  BY <1>3, <1>4
<1> QED
  BY <1>5 DEF a, b

(* Thread t goes on to l with the same argument.                            *)
Goes(t, l) == wpc' = [wpc EXCEPT ![t] = l] /\ UNCHANGED val

LEMMA CallBarGoes ==
  ASSUME ListPcs, NEW t \in Thr, NEW l, Goes(t, l), NEW v, val[t] = v
  PROVE  /\ Linked!callBar[t] = Asks(wpc[t], v)
         /\ Linked!callBar' = [Linked!callBar EXCEPT ![t] = Asks(l, v)]
<1>1. wpc'[t] = l /\ \A u \in Thr \ {t} : wpc'[u] = wpc[u] /\ val'[u] = val[u]
  BY DEF ListPcs, Goes
<1>2. /\ Linked!callBar[t] = Asks(wpc[t], val[t])
      /\ Linked!callBar' = [Linked!callBar EXCEPT ![t] = Asks(wpc'[t], val'[t])]
  BY <1>1, CallBarStep
<1>3. val'[t] = v
  BY DEF Goes
<1> QED
  BY <1>1, <1>2, <1>3, Zenon

LEMMA CallBarEnds ==
  ASSUME ListPcs, NEW t \in Thr, NEW l \in {"call", "join", "done", "free", "drain"},
         Goes(t, l), NEW v, val[t] = v
  PROVE  /\ Linked!callBar' = [Linked!callBar EXCEPT ![t] = <<>>]
         /\ wpc[t] = "publish" => Linked!callBar[t] = <<"insert", v>>
         /\ wpc[t] = "search" => Linked!callBar[t] = <<"contains", v>>
         /\ wpc[t] = "hunt" => Linked!callBar[t] = <<"remove", v>>
         /\ wpc[t] = "destroy" => Linked!callBar[t] = <<"destroy", v>>
<1>1. /\ Linked!callBar[t] = Asks(wpc[t], v)
      /\ Linked!callBar' = [Linked!callBar EXCEPT ![t] = Asks(l, v)]
  BY CallBarGoes
<1>2. Asks(l, v) = <<>>
  BY AsksIs
<1>3. /\ Asks("publish", v) = <<"insert", v>> /\ Asks("search", v) = <<"contains", v>>
      /\ Asks("hunt", v) = <<"remove", v>> /\ Asks("destroy", v) = <<"destroy", v>>
  BY AsksIs
<1> QED
  BY <1>1, <1>2, <1>3, Zenon

LEMMA CallBarSame ==
  ASSUME ListPcs, NEW t \in Thr, NEW l, Goes(t, l),
         \A v : Asks(l, v) = Asks(wpc[t], v)
  PROVE  UNCHANGED Linked!callBar
<1>1. PICK v : v = val[t]
  OBVIOUS
<1>2. /\ Linked!callBar[t] = Asks(wpc[t], v)
      /\ Linked!callBar' = [Linked!callBar EXCEPT ![t] = Asks(l, v)]
  BY <1>1, CallBarGoes
<1>3. PICK f : f = Linked!callBar
  OBVIOUS
<1>4. f = [u \in Thr |-> f[u]]
  BY <1>3 DEF Linked!callBar, Thr
<1>5. [f EXCEPT ![t] = f[t]] = f
  BY <1>4
<1>6. Asks(l, v) = f[t]
  BY <1>2, <1>3, Zenon
<1> QED
  BY <1>2, <1>3, <1>5, <1>6, Zenon

LEMMA CallBarCalls ==
  ASSUME ListPcs, ListTypes, NEW t \in Thr, wpc[t] \in {"call", "join"},
         NEW v, NEW l \in Abstract!Operations,
         wpc' = [wpc EXCEPT ![t] = l], val' = [val EXCEPT ![t] = v]
  PROVE  /\ Linked!callBar[t] = <<>>
         /\ Linked!callBar' = [Linked!callBar EXCEPT ![t] = <<l, v>>]
<1>1. /\ wpc'[t] = l /\ val'[t] = v
      /\ \A u \in Thr \ {t} : wpc'[u] = wpc[u] /\ val'[u] = val[u]
  BY DEF ListPcs, ListTypes
<1>2. /\ Linked!callBar[t] = Asks(wpc[t], val[t])
      /\ Linked!callBar' = [Linked!callBar EXCEPT ![t] = Asks(wpc'[t], val'[t])]
  BY <1>1, CallBarStep
<1>3. Asks(wpc[t], val[t]) = <<>>
  <2>1. PICK w : w = val[t]
    OBVIOUS
  <2>2. PICK p \in {"call", "join"} : p = wpc[t]
    OBVIOUS
  <2>3. Asks(p, w) = <<>>
    BY AsksIs
  <2> QED
    BY <2>1, <2>2, <2>3, Zenon
<1>4. Asks(l, v) = <<l, v>>
  BY AsksIs DEF Abstract!Operations
<1> QED
  BY <1>1, <1>2, <1>3, <1>4, Zenon

(* What a step of thread t does to the list that callers see: it calls an   *)
(* operation, or what it has called takes effect.                           *)
Calls(t, v) ==
  /\ \E op \in Abstract!Operations :
       /\ Linked!callBar[t] = <<>>
       /\ Linked!callBar' = [Linked!callBar EXCEPT ![t] = <<op, v>>]
  /\ UNCHANGED <<Linked!listBar, answer>>

HasEffect(t, v) ==
  /\ Linked!callBar' = [Linked!callBar EXCEPT ![t] = <<>>]
  /\ \/ /\ Linked!callBar[t] = <<"insert", v>>
        /\ Linked!listBar' = Abstract!Cons(v, Linked!listBar) /\ UNCHANGED answer
     \/ /\ Linked!callBar[t] = <<"contains", v>>
        /\ answer' = [answer EXCEPT ![t] = Abstract!Contains(Linked!listBar, v)]
        /\ UNCHANGED Linked!listBar
     \/ /\ Linked!callBar[t] = <<"remove", v>>
        /\ Linked!listBar' = Abstract!RemoveFirst(Linked!listBar, v) /\ UNCHANGED answer
     \/ /\ Linked!callBar[t] = <<"destroy", v>>
        /\ Linked!listBar' = <<>> /\ UNCHANGED answer

Effect(t) ==
  \/ UNCHANGED <<Linked!listBar, Linked!callBar, answer>>
  \/ \E v \in Linked!AllValues : Calls(t, v) \/ HasEffect(t, v)

(* The node that list_insert() has filled still holds its argument.         *)
OwnInv ==
  \A t \in Thr : wpc[t] \in {"insert", "link", "publish"} => value[curr[t]] = val[t]

LEMMA BarsHeld ==
  ASSUME NEW m, NEW L, NEW t, Acts(L, m, t), BarIsHeld, BarIsHeld',
         NEW M \in Nat, NEW K \in [1 .. M -> Nodes], Keeps(K, M)
  PROVE  Linked!listBar = Bar(L, m) /\ Linked!listBar' = Bar(K, M)'
BY DEF Acts, Keeps, BarIsHeld

LEMMA HeldIs ==
  ASSUME NEW m, NEW L, NEW t, Acts(L, m, t)
  PROVE  /\ Held(L, m) \in Seq(Linked!AllValues) /\ Len(Held(L, m)) = m
         /\ \A k \in 1 .. m : Held(L, m)[k] = value[L[k]]
BY DEF Acts, Held, ListTypes

LEMMA SameBar ==
  ASSUME NEW m, NEW L, NEW t, Acts(L, m, t), BarIsHeld, BarIsHeld', Keeps(L, m),
         Emptied' <=> Emptied, \A k \in 1 .. m : value'[L[k]] = value[L[k]]
  PROVE  UNCHANGED Linked!listBar
<1>1. Linked!listBar = Bar(L, m) /\ Linked!listBar' = Bar(L, m)'
  BY BarsHeld DEF Acts
<1>2. Held(L, m)' = Held(L, m)
  BY Zenon DEF Held
<1> QED
  BY <1>1, <1>2 DEF Bar

(* A step of t that the callers do not see.                                 *)
LEMMA QuietMoves ==
  ASSUME NEW m, NEW L, NEW t, Acts(L, m, t), BarIsHeld, BarIsHeld', Keeps(L, m),
         Emptied' <=> Emptied, UNCHANGED <<value, answer>>,
         NEW l, Goes(t, l), \A v : Asks(l, v) = Asks(wpc[t], v)
  PROVE  ListInv' /\ Effect(t)
<1>1. ListInv'
  BY DEF Keeps, Acts, ListInv
<1>2. UNCHANGED Linked!listBar
  BY SameBar
<1>3. UNCHANGED Linked!callBar
  BY CallBarSame DEF Acts
<1> QED
  BY <1>1, <1>2, <1>3 DEF Effect

LEMMA WalkMoves ==
  ASSUME NEW m, NEW L, NEW t, Acts(L, m, t), BarIsHeld, BarIsHeld',
         Linked!ContainsFound(t) \/ Linked!ContainsNot(t) \/ Linked!RemoveNot(t)
  PROVE  ListInv' /\ Effect(t)
<1>1. /\ Keeps(L, m) /\ (Emptied' <=> Emptied) /\ UNCHANGED value /\ ~ Emptied
      /\ IF wpc[t] = "search"
           THEN answer' = [answer EXCEPT ![t] = \E k \in 1 .. m : value[L[k]] = val[t]]
           ELSE UNCHANGED answer /\ \A k \in 1 .. m : value[L[k]] # val[t]
  BY WalkEnds
<1>2. ListInv'
  BY <1>1 DEF Keeps, Acts, ListInv
<1>3. UNCHANGED Linked!listBar
  BY <1>1, SameBar
<1>4. Linked!listBar = Held(L, m)
  BY <1>1 DEF BarIsHeld, Bar, Acts
<1>5. PICK v \in Linked!AllValues : v = val[t]
  BY DEF Acts, ListTypes
<1>6. PICK s \in Seq(Linked!AllValues) : s = Linked!listBar
  BY <1>4, HeldIs
<1>7. Len(s) = m /\ \A k \in 1 .. m : s[k] = value[L[k]]
  BY <1>4, <1>6, HeldIs
<1> DEFINE l == IF t = main THEN "join" ELSE "call"
<1>8. wpc[t] \in {"search", "hunt"} /\ Goes(t, l)
  BY DEF Linked!ContainsFound, Linked!ContainsNot, Linked!RemoveNot,
         Linked!UnlockReturn, Linked!Goto, Goes
<1>9. l \in {"call", "join", "done", "free", "drain"}
  OBVIOUS
<1> HIDE DEF l
<1>10. /\ Linked!callBar' = [Linked!callBar EXCEPT ![t] = <<>>]
       /\ wpc[t] = "search" => Linked!callBar[t] = <<"contains", v>>
       /\ wpc[t] = "hunt" => Linked!callBar[t] = <<"remove", v>>
  BY <1>5, <1>8, <1>9, CallBarEnds DEF Acts
<1>11. CASE wpc[t] = "search"
  <2>1. Linked!callBar[t] = <<"contains", v>> /\ Linked!callBar' = [Linked!callBar EXCEPT ![t] = <<>>]
    BY <1>10, <1>11
  <2>2. Abstract!Contains(s, v) = \E k \in 1 .. m : value[L[k]] = v
    <3>1. (\E k \in 1 .. Len(s) : s[k] = v) <=> \E k \in 1 .. m : value[L[k]] = v
      BY <1>7
    <3> QED
      BY <3>1 DEF Abstract!Contains
  <2>3. answer' = [answer EXCEPT ![t] = Abstract!Contains(Linked!listBar, v)]
    BY <1>1, <1>5, <1>6, <1>11, <2>2, Zenon
  <2> QED
    BY <1>2, <1>3, <2>1, <2>3, Zenon DEF Effect, HasEffect
<1>12. CASE wpc[t] = "hunt"
  <2>1. Linked!callBar[t] = <<"remove", v>> /\ Linked!callBar' = [Linked!callBar EXCEPT ![t] = <<>>]
    BY <1>10, <1>12
  <2>2. \A k \in 1 .. Len(s) : s[k] # v
    BY <1>1, <1>5, <1>7, <1>12
  <2>3. Linked!listBar' = Abstract!RemoveFirst(Linked!listBar, v)
    BY <1>3, <1>6, <2>2, RemoveNothing
  <2>4. UNCHANGED answer
    BY <1>1, <1>12
  <2> QED
    BY <1>2, <2>1, <2>3, <2>4, Zenon DEF Effect, HasEffect
<1> QED
  BY <1>8, <1>11, <1>12

LEMMA PublishMoves ==
  ASSUME NEW m, NEW L, NEW t, Acts(L, m, t), BarIsHeld, BarIsHeld', OwnInv,
         Linked!InsertPublish(t)
  PROVE  ListInv' /\ Effect(t)
<1>1. PICK x \in Nodes :
        /\ Keeps(Push(x, L, m), m + 1) /\ Push(x, L, m) \in [1 .. m + 1 -> Nodes]
        /\ ~ Emptied /\ ~ Emptied' /\ UNCHANGED <<value, answer>> /\ x = curr[t]
  BY NodePublished
<1>2. m \in Nat /\ m + 1 \in Nat
  BY DEF Acts
<1> DEFINE K == Push(x, L, m)
           s == Held(L, m)
<1> HIDE DEF K
<1>3. ListInv'
  BY <1>1, <1>2 DEF Keeps, ListInv, K
<1>4. Linked!listBar = s /\ Linked!listBar' = Held(K, m + 1)'
  BY <1>1, <1>2, BarsHeld DEF Bar, K
<1>5. PICK v \in Linked!AllValues : v = value[x]
  BY DEF Acts, ListTypes
<1>6. s \in Seq(Linked!AllValues) /\ Len(s) = m /\ \A k \in 1 .. m : s[k] = value[L[k]]
  BY HeldIs
<1> HIDE DEF s
<1>7. Abstract!Cons(v, s) = [k \in 1 .. m + 1 |-> IF k = 1 THEN v ELSE s[k - 1]]
  BY <1>6, ConsIs
<1>8. ASSUME NEW k \in 1 .. m + 1
      PROVE  value'[K[k]] = IF k = 1 THEN v ELSE s[k - 1]
  <2>1. K[k] = IF k = 1 THEN x ELSE L[k - 1]
    BY DEF K, Push
  <2>2. CASE k = 1
    BY <1>1, <1>5, <2>1, <2>2
  <2>3. CASE k # 1
    <3>1. k - 1 \in 1 .. m
      BY <1>2, <2>3
    <3> QED
      BY <1>1, <1>6, <2>1, <2>3, <3>1
  <2> QED
    BY <2>2, <2>3
<1>9. Held(K, m + 1)' = Abstract!Cons(v, s)
  BY <1>7, <1>8, Zenon DEF Held
<1> DEFINE l == IF t = main THEN "join" ELSE "call"
<1>10. wpc[t] = "publish" /\ Goes(t, l)
  BY DEF Linked!InsertPublish, Linked!UnlockReturn, Linked!Goto, Goes
<1>11. val[t] = v
  BY <1>1, <1>5, <1>10 DEF OwnInv, Acts
<1>12. /\ Linked!callBar[t] = <<"insert", v>>
       /\ Linked!callBar' = [Linked!callBar EXCEPT ![t] = <<>>]
  <2>1. l \in {"call", "join", "done", "free", "drain"}
    OBVIOUS
  <2> HIDE DEF l
  <2> QED
    BY <1>10, <1>11, <2>1, CallBarEnds DEF Acts
<1>13. Linked!listBar' = Abstract!Cons(v, Linked!listBar)
  BY <1>4, <1>9, Zenon
<1> QED
  BY <1>1, <1>3, <1>12, <1>13, Zenon DEF Effect, HasEffect

LEMMA UnlinkMoves ==
  ASSUME NEW m, NEW L, NEW t, Acts(L, m, t), BarIsHeld, BarIsHeld',
         Linked!RemoveUnlink(t)
  PROVE  ListInv' /\ Effect(t)
<1>1. PICK j \in 1 .. m :
        /\ Keeps(Drop(L, m, j), m - 1)
        /\ value[L[j]] = val[t] /\ \A k \in 1 .. j - 1 : value[L[k]] # val[t]
        /\ ~ Emptied /\ ~ Emptied' /\ UNCHANGED <<value, answer>>
  BY NodeUnlinked
<1> DEFINE K == Drop(L, m, j)
           s == Held(L, m)
           M == m - 1
<1>2. m \in Nat /\ M \in Nat /\ K \in [1 .. M -> Nodes]
  <2>1. m \in Nat /\ L \in [1 .. m -> Nodes] /\ \A k, l \in 1 .. m : L[k] = L[l] => k = l
    BY DEF Acts, Heap, Chain
  <2>2. Dropped(K, L, m, j)
    BY <2>1, DropFacts
  <2> HIDE DEF K
  <2> QED
    BY <2>1, <2>2 DEF Dropped
<1>3. Keeps(K, M)
  BY <1>1
<1>4. \A k \in 1 .. M : K[k] = IF k < j THEN L[k] ELSE L[k + 1]
  BY DEF Drop
<1>5. \A k \in 1 .. M : k \in 1 .. m /\ k + 1 \in 1 .. m
  BY <1>2
<1> HIDE DEF K, M
<1>6. ListInv'
  BY <1>2, <1>3 DEF Keeps, ListInv
<1>7. Linked!listBar = s /\ Linked!listBar' = Held(K, M)'
  BY <1>1, <1>2, <1>3, BarsHeld DEF Bar
<1>8. PICK v \in Linked!AllValues : v = val[t]
  BY DEF Acts, ListTypes
<1>9. s \in Seq(Linked!AllValues) /\ Len(s) = m /\ \A k \in 1 .. m : s[k] = value[L[k]]
  BY HeldIs
<1> HIDE DEF s
<1>10. Abstract!RemoveFirst(s, v)
         = [k \in 1 .. Len(s) - 1 |-> IF k < j THEN s[k] ELSE s[k + 1]]
  <2>1. j \in 1 .. Len(s) /\ s[j] = v
    BY <1>1, <1>8, <1>9
  <2>2. \A k \in 1 .. j - 1 : s[k] # v
    BY <1>1, <1>2, <1>8, <1>9
  <2> QED
    BY <1>9, <2>1, <2>2, RemoveFirstIs
<1>11. ASSUME NEW k \in 1 .. M
       PROVE  value'[K[k]] = IF k < j THEN s[k] ELSE s[k + 1]
  BY <1>1, <1>4, <1>5, <1>9
<1>12. Held(K, M)' = [k \in 1 .. M |-> IF k < j THEN s[k] ELSE s[k + 1]]
  BY <1>11, Zenon DEF Held
<1>13. Len(s) - 1 = M
  BY <1>9 DEF M
<1>14. Linked!listBar' = Abstract!RemoveFirst(Linked!listBar, v)
  BY <1>7, <1>10, <1>12, <1>13, Zenon
<1>15. wpc[t] = "hunt" /\ Goes(t, "free")
  BY DEF Linked!RemoveUnlink, Linked!Goto, Goes
<1>16. /\ Linked!callBar[t] = <<"remove", v>>
       /\ Linked!callBar' = [Linked!callBar EXCEPT ![t] = <<>>]
  BY <1>8, <1>15, CallBarEnds DEF Acts
<1> QED
  BY <1>1, <1>6, <1>14, <1>16, Zenon DEF Effect, HasEffect

LEMMA DestroyMoves ==
  ASSUME NEW m, NEW L, NEW t, Acts(L, m, t), BarIsHeld, BarIsHeld',
         Linked!DestroyLock(t) \/ Linked!DestroyNode(t) \/ Linked!DestroyEnd(t)
  PROVE  ListInv' /\ Effect(t)
<1>1. /\ UNCHANGED answer
      /\ \E M \in Nat : \E K \in [1 .. M -> Nodes] : Keeps(K, M) /\ Emptied'
  BY ListTaken, NodeDestroyed, ListDestroyed, Zenon DEF Acts
<1>2. PICK M \in Nat : \E K \in [1 .. M -> Nodes] : Keeps(K, M) /\ Emptied'
  BY <1>1
<1>3. PICK K \in [1 .. M -> Nodes] : Keeps(K, M) /\ Emptied'
  BY <1>2
<1>4. ListInv'
  BY <1>3 DEF Keeps, ListInv
<1>5. Linked!listBar' = <<>>
  BY <1>3, BarsHeld DEF Bar
<1>6. PICK v \in Linked!AllValues : v = val[t]
  BY DEF Acts, ListTypes
<1>7. CASE Linked!DestroyLock(t)
  <2>1. wpc[t] = "destroy" /\ Goes(t, "drain")
    BY <1>7 DEF Linked!DestroyLock, Linked!LockAtHead, Linked!Lock, Linked!Goto, Goes
  <2>2. /\ Linked!callBar[t] = <<"destroy", v>>
        /\ Linked!callBar' = [Linked!callBar EXCEPT ![t] = <<>>]
    BY <1>6, <2>1, CallBarEnds DEF Acts
  <2> QED
    BY <1>1, <1>4, <1>5, <2>2, Zenon DEF Effect, HasEffect
<1>8. CASE Linked!DestroyNode(t) \/ Linked!DestroyEnd(t)
  <2>1. Linked!listBar = <<>>
    <3>1. Emptied
      BY <1>8, NodeDestroyed, ListDestroyed
    <3> QED
      BY <3>1 DEF Linked!listBar, Emptied
  <2>2. PICK l \in {"drain", "done", "call"} : wpc' = [wpc EXCEPT ![t] = l]
    <3>1. CASE Linked!DestroyNode(t)
      <4>1. wpc[t] = "drain" /\ wpc' = wpc
        BY <3>1 DEF Linked!DestroyNode
      <4> QED
        BY <4>1 DEF Acts, ListPcs
    <3>2. CASE Linked!DestroyEnd(t)
      BY <3>2 DEF Linked!DestroyEnd, Linked!UnlockReturn, Linked!Goto
    <3> QED
      BY <1>8, <3>1, <3>2
  <2>3. wpc[t] = "drain" /\ UNCHANGED val
    BY <1>8 DEF Linked!DestroyNode, Linked!DestroyEnd, Linked!UnlockReturn
  <2>4. UNCHANGED Linked!callBar
    <3>1. \A w : Asks(l, w) = Asks(wpc[t], w)
      BY <2>3, AsksIs
    <3> QED
      BY <2>2, <2>3, <3>1, CallBarSame DEF Acts, Goes
  <2> QED
    BY <1>1, <1>4, <1>5, <2>1, <2>4 DEF Effect
<1> QED
  BY <1>7, <1>8

(* A call: list_insert() has its node, the others have their argument.      *)
LEMMA CallMoves ==
  ASSUME NEW m, NEW L, NEW t, Acts(L, m, t), BarIsHeld, BarIsHeld',
         wpc[t] \in {"call", "join"}, NEW v \in Linked!AllValues,
         \/ Linked!CallInsert(t, v)
         \/ Linked!CallOther(t, "contains", v)
         \/ t # main /\ Linked!CallOther(t, "remove", v)
         \/ t = main /\ Linked!CallOther(t, "destroy", v)
  PROVE  ListInv' /\ Effect(t)
<1>1. CASE Linked!CallInsert(t, v)
  <2>1. /\ Keeps(L, m) /\ (Emptied' <=> Emptied) /\ UNCHANGED answer
        /\ \A k \in 1 .. m : value'[L[k]] = value[L[k]]
    BY <1>1, NodeAllocated
  <2>2. UNCHANGED Linked!listBar
    BY <2>1, SameBar
  <2>3. wpc' = [wpc EXCEPT ![t] = "insert"] /\ val' = [val EXCEPT ![t] = v]
    BY <1>1 DEF Linked!CallInsert, Linked!Goto
  <2>4. "insert" \in Abstract!Operations
    BY DEF Abstract!Operations
  <2>5. /\ Linked!callBar[t] = <<>>
        /\ Linked!callBar' = [Linked!callBar EXCEPT ![t] = <<"insert", v>>]
    BY <2>3, <2>4, CallBarCalls DEF Acts
  <2>6. Calls(t, v)
    BY <2>1, <2>2, <2>4, <2>5, Zenon DEF Calls
  <2> QED
    BY <2>1, <2>6 DEF Effect, Keeps, ListInv, Acts
<1>2. ASSUME NEW l \in {"contains", "remove", "destroy"}, Linked!CallOther(t, l, v),
             l = "remove" => t # main, l = "destroy" => t = main
      PROVE  ListInv' /\ Effect(t)
  <2>1. /\ wpc' = [wpc EXCEPT ![t] = l] /\ val' = [val EXCEPT ![t] = v]
        /\ UNCHANGED <<head, value, next, allocated, lock, curr, prev, answer>>
    BY <1>2 DEF Linked!CallOther, Linked!Goto, Linked!heapVars
  <2>2. val' \in [Thr -> Linked!AllValues] /\ \A u \in Thr \ {t} : val'[u] = val[u]
    BY <2>1 DEF Acts, ListTypes
  <2>3. Keeps(L, m) /\ (Emptied' <=> Emptied) /\ UNCHANGED <<value, answer>>
    BY <1>2, <2>1, <2>2, QuietStep
  <2>4. UNCHANGED Linked!listBar
    BY <2>3, SameBar
  <2>5. l \in Abstract!Operations
    BY DEF Abstract!Operations
  <2>6. /\ Linked!callBar[t] = <<>>
        /\ Linked!callBar' = [Linked!callBar EXCEPT ![t] = <<l, v>>]
    BY <2>1, <2>5, CallBarCalls DEF Acts
  <2>7. Calls(t, v)
    BY <2>3, <2>4, <2>5, <2>6, Zenon DEF Calls
  <2> QED
    BY <2>3, <2>7 DEF Effect, Keeps, ListInv, Acts
<1> QED
  BY <1>1, <1>2

(* A step inside of an operation that leaves it pending, or that only       *)
(* cleans up after it.                                                      *)
LEMMA UnseenStep ==
  ASSUME NEW m, NEW L, NEW t, Acts(L, m, t),
         \/ Linked!ContainsLock(t) \/ Linked!RemoveLock(t)
         \/ Linked!ContainsNext(t) \/ Linked!RemoveNext(t)
         \/ Linked!InsertLink(t) \/ Linked!RemoveFree(t)
  PROVE  \E l : Goes(t, l) /\ \A v : Asks(l, v) = Asks(wpc[t], v)
<1>1. CASE Linked!ContainsLock(t)
  <2>1. wpc[t] = "contains" /\ Goes(t, "search")
    BY <1>1 DEF Linked!ContainsLock, Linked!LockAtHead, Linked!Lock, Linked!Goto, Goes
  <2> QED
    BY <2>1, AsksIs
<1>2. CASE Linked!RemoveLock(t)
  <2>1. wpc[t] = "remove" /\ Goes(t, "hunt")
    BY <1>2 DEF Linked!RemoveLock, Linked!LockAtHead, Linked!Lock, Linked!Goto, Goes
  <2> QED
    BY <2>1, AsksIs
<1>3. CASE Linked!ContainsNext(t) \/ Linked!RemoveNext(t)
  <2>1. wpc' = wpc /\ UNCHANGED val
    BY <1>3 DEF Linked!ContainsNext, Linked!RemoveNext
  <2>2. PICK p : p = wpc[t]
    OBVIOUS
  <2>3. Goes(t, p)
    BY <2>1, <2>2 DEF Acts, ListPcs, Goes
  <2> QED
    BY <2>2, <2>3
<1>4. CASE Linked!InsertLink(t)
  <2>1. wpc[t] = "link" /\ Goes(t, "publish")
    BY <1>4 DEF Linked!InsertLink, Linked!Goto, Goes
  <2> QED
    BY <2>1, AsksIs
<1>5. CASE Linked!RemoveFree(t)
  <2>1. wpc[t] = "free" /\ Goes(t, "call")
    BY <1>5, ListThreads DEF Linked!RemoveFree, Linked!UnlockReturn, Linked!Goto,
       Acts, ListPcs, Goes
  <2> QED
    BY <2>1, AsksIs
<1> QED
  BY <1>1, <1>2, <1>3, <1>4, <1>5

(* Thread t makes a step of its own.                                        *)
Acting(t) ==
  \/ Linked!Operation(t)
  \/ t \in Workers /\ (Linked!Worker(t) \/ Linked!WorkerDone(t))
  \/ t = main /\ Linked!Main

LEMMA ListStep ==
  ASSUME ListInv, OwnInv, Linked!Next, BarIsHeld, BarIsHeld'
  PROVE  ListInv' /\ \E t \in Thr : Acting(t) /\ Effect(t)
<1>1. PICK m \in Nat : \E L \in [1 .. m -> Nodes] : Heap(L, m)
  BY DEF ListInv
<1>2. PICK L \in [1 .. m -> Nodes] : Heap(L, m)
  BY <1>1
<1>3. ASSUME NEW t \in Thr, Acting(t) PROVE Acts(L, m, t)
  <2>1. /\ t \in Workers => wpc[t] # "done"
        /\ t = main => \A u \in Workers : wpc[u] = "done"
    BY <1>3, ListActor DEF ListInv, Acting
  <2> QED
    BY <1>2, <2>1 DEF Acts, ListInv
<1>4. ASSUME Linked!Main PROVE ListInv' /\ Effect(main)
  <2>1. Acts(L, m, main) /\ wpc[main] \in {"call", "join"}
    BY <1>3, <1>4, ListThreads DEF Linked!Main, Acting
  <2>2. Fresh \in Linked!AllValues /\ Absent \in Linked!AllValues
    BY DEF Linked!AllValues
  <2>3. \/ \E v \in Linked!AllValues :
             \/ Linked!CallInsert(main, v)
             \/ Linked!CallOther(main, "contains", v)
             \/ Linked!CallOther(main, "destroy", v)
    BY <1>4, <2>2 DEF Linked!Main
  <2> QED
    BY <2>1, <2>3, CallMoves
<1>5. ASSUME NEW t \in Workers, Linked!Worker(t) PROVE ListInv' /\ Effect(t)
  <2>1. Acts(L, m, t) /\ wpc[t] \in {"call", "join"} /\ t # main
    BY <1>3, <1>5, ListThreads DEF Linked!Worker, Acting
  <2>2. PICK v \in Values : \/ Linked!CallInsert(t, v)
                            \/ Linked!CallOther(t, "contains", v)
                            \/ Linked!CallOther(t, "remove", v)
    BY <1>5 DEF Linked!Worker
  <2>3. v \in Linked!AllValues
    BY DEF Linked!AllValues
  <2> QED
    BY <2>1, <2>2, <2>3, CallMoves
<1>6. ASSUME NEW t \in Workers, Linked!WorkerDone(t) PROVE ListInv' /\ Effect(t)
  <2>1. Acts(L, m, t) /\ t # main
    BY <1>3, <1>6, ListThreads DEF Acting
  <2>2. /\ wpc[t] = "call" /\ wpc' = [wpc EXCEPT ![t] = "done"]
        /\ UNCHANGED <<head, value, next, allocated, lock, val, curr, prev, answer>>
    BY <1>6 DEF Linked!WorkerDone, Linked!Goto, Linked!heapVars
  <2>3. Keeps(L, m) /\ (Emptied' <=> Emptied) /\ UNCHANGED <<value, answer>>
    BY <2>1, <2>2, QuietStep DEF Acts, ListTypes
  <2>4. Goes(t, "done") /\ \A v : Asks("done", v) = Asks(wpc[t], v)
    BY <2>2, AsksIs DEF Goes
  <2> QED
    BY <2>1, <2>3, <2>4, QuietMoves
<1>7. ASSUME NEW t \in Thr, Linked!Operation(t) PROVE ListInv' /\ Effect(t)
  <2>1. Acts(L, m, t)
    BY <1>3, <1>7 DEF Acting
  <2>2. CASE Linked!InsertLock(t)
    <3>1. /\ wpc[t] = "insert" /\ lock = None /\ lock' = t
          /\ wpc' = [wpc EXCEPT ![t] = "link"]
          /\ UNCHANGED <<head, value, next, allocated, val, curr, prev, answer>>
      BY <2>2 DEF Linked!InsertLock, Linked!Lock, Linked!Goto, Linked!heapVars
    <3>2. Keeps(L, m) /\ (Emptied' <=> Emptied) /\ UNCHANGED <<value, answer>>
      BY <2>1, <3>1, QuietStep DEF Acts, ListTypes
    <3>3. Goes(t, "link") /\ \A v : Asks("link", v) = Asks(wpc[t], v)
      BY <3>1, AsksIs DEF Goes
    <3> QED
      BY <2>1, <3>2, <3>3, QuietMoves
  <2>3. CASE \/ Linked!ContainsLock(t) \/ Linked!RemoveLock(t)
             \/ Linked!ContainsNext(t) \/ Linked!RemoveNext(t)
             \/ Linked!InsertLink(t) \/ Linked!RemoveFree(t)
    <3>1. Keeps(L, m) /\ (Emptied' <=> Emptied) /\ UNCHANGED <<value, answer>>
      BY <2>1, <2>3, WalkBegins, WalkGoesOn, NodeLinked, NodeFreed
    <3>2. PICK l : Goes(t, l) /\ \A v : Asks(l, v) = Asks(wpc[t], v)
      BY <2>1, <2>3, UnseenStep
    <3> QED
      BY <2>1, <3>1, <3>2, QuietMoves
  <2>4. CASE Linked!ContainsFound(t) \/ Linked!ContainsNot(t) \/ Linked!RemoveNot(t)
    BY <2>1, <2>4, WalkMoves
  <2>5. CASE Linked!InsertPublish(t)
    BY <2>1, <2>5, PublishMoves
  <2>6. CASE Linked!RemoveUnlink(t)
    BY <2>1, <2>6, UnlinkMoves
  <2>7. CASE Linked!DestroyLock(t) \/ Linked!DestroyNode(t) \/ Linked!DestroyEnd(t)
    BY <2>1, <2>7, DestroyMoves
  <2> QED
    BY <1>7, <2>2, <2>3, <2>4, <2>5, <2>6, <2>7 DEF Linked!Operation
<1> QED
  BY <1>4, <1>5, <1>6, <1>7, ListThreads DEF Linked!Next, Thr, Acting

LEMMA ListInit ==
  ASSUME Linked!Init
  PROVE  /\ ListInv /\ OwnInv /\ Linked!listBar = <<>>
         /\ Linked!callBar = [t \in Thr |-> <<>>]
<1>1. ListTypes
  BY DEF Linked!Init, ListTypes, Thr, Linked!AllValues
<1>2. ListPcs
  BY ListThreads, Places DEF Linked!Init, ListPcs, Thr
<1>3. \A t \in Thr : wpc[t] = IF t = main THEN "join" ELSE "call"
  BY DEF Linked!Init, Thr
<1>4. PICK L : L = [k \in 1 .. 0 |-> head]
  OBVIOUS
<1>5. L \in [1 .. 0 -> Nodes] /\ 1 .. 0 = {} /\ 0 \in Nat
  BY <1>4
<1>6. Chain(L, 0)
  BY <1>3, <1>5, ListThreads DEF Chain, Linked!Begin, Linked!Init, Node
<1>7. Heap(L, 0)
  BY <1>3, <1>5, <1>6, Places DEF Heap, Linked!Init
<1>8. Linked!listBar = Bar(L, 0)
  BY <1>5, <1>7, ListBar DEF BarIsHeld
<1>9. Linked!listBar = <<>>
  BY <1>5, <1>8 DEF Bar, Held
<1>10. Linked!callBar = [t \in Thr |-> <<>>]
  BY <1>3 DEF Linked!callBar, Linked!Pending, Thr
<1> QED
  BY <1>1, <1>2, <1>3, <1>5, <1>7, <1>9, <1>10 DEF ListInv, OwnInv

(* Whatever thread stands on a node of the chain stands on allocated ones.  *)
LEMMA ListSafe == ListInv => Linked!NoDangling /\ Linked!NoLeak
<1> SUFFICES ASSUME ListInv PROVE Linked!NoDangling /\ Linked!NoLeak
  OBVIOUS
<1>1. PICK m \in Nat : \E L \in [1 .. m -> Nodes] : Heap(L, m)
  BY DEF ListInv
<1>2. PICK L \in [1 .. m -> Nodes] : Heap(L, m)
  BY <1>1
<1>3. Linked!Reachable = {L[k] : k \in 1 .. m} /\ Linked!Acyclic
  BY <1>2, ChainReachable DEF Heap
<1>4. \A k : Node(L, m, k) \in allocated \cup {None}
  BY <1>2 DEF Heap, Chain, Node
<1>5. ASSUME NEW t \in Thr
      PROVE  /\ wpc[t] \in {"search", "hunt", "free", "drain"} =>
                  curr[t] \in allocated \cup {None}
             /\ wpc[t] = "hunt" => prev[t] \in allocated \cup {None}
  <2>1. CASE wpc[t] \in {"search", "hunt"}
    <3>1. PICK j \in 1 .. m + 1 : WalksAt(L, m, t, j)
      BY <1>2, <2>1 DEF Heap
    <3> QED
      BY <1>4, <2>1, <3>1 DEF WalksAt
  <2>2. CASE wpc[t] = "free"
    BY <1>2, <2>2, Places DEF Heap
  <2>3. CASE wpc[t] = "drain"
    <3>1. t = main
      BY <2>3, ListThreads DEF ListInv, ListPcs
    <3> QED
      BY <1>2, <1>4, <2>3, <3>1 DEF Heap, Chain, Linked!Begin
  <2> QED
    BY <2>1, <2>2, <2>3
<1>6. Linked!NoDangling
  <2>1. Linked!Reachable \subseteq allocated
    BY <1>2, <1>3 DEF Heap, Chain
  <2> QED
    BY <1>3, <1>5, <2>1 DEF Linked!NoDangling, Thr
<1>7. Linked!NoLeak
  <2>1. \A x \in allocated : x \in Linked!Reachable \/ \E t \in Thr : wpc[t] \in Holding /\ curr[t] = x
    BY <1>2, <1>3 DEF Heap
  <2>2. CASE wpc[main] \notin {"drain", "done"}
    BY <2>1, <2>2 DEF Linked!NoLeak, Thr
  <2>3. CASE wpc[main] \in {"drain", "done"}
    <3>1. \A t \in Thr : wpc[t] \in {"drain", "done"}
      BY <2>3, ListThreads DEF ListInv, ListPcs
    <3>2. allocated \subseteq Linked!Reachable
      BY <2>1, <3>1, Places
    <3>3. wpc[main] = "done" => allocated = {}
      BY <1>2, <1>3, <3>2 DEF Heap
    <3> QED
      BY <2>3, <3>2, <3>3 DEF Linked!NoLeak
  <2> QED
    BY <2>2, <2>3
<1> QED
  BY <1>6, <1>7

LEMMA ListIdle ==
  ASSUME UNCHANGED <<listVars, lock, wpc>>
  PROVE  ListInv => ListInv'
<1>1. UNCHANGED <<head, value, next, allocated, val, curr, prev, answer, lock, wpc>>
  BY DEF listVars
<1>2. ListTypes => ListTypes'
  BY <1>1 DEF ListTypes
<1>3. ListPcs => ListPcs'
  BY <1>1 DEF ListPcs
<1>4. ASSUME NEW m \in Nat, NEW L \in [1 .. m -> Nodes], Heap(L, m) PROVE Heap(L, m)'
  BY <1>1, <1>4 DEF Heap, Chain, Node, WalksAt, Linked!Begin
<1> QED
  BY <1>2, <1>3, <1>4 DEF ListInv

(* What is unchanged of the list's variables leaves the list as it is.      *)
LEMMA BarIdle ==
  ASSUME UNCHANGED allVars
  PROVE  UNCHANGED Linked!listBar /\ UNCHANGED Abstract!vars
<1>1. UNCHANGED <<program, head, value, next, allocated, val, curr, prev, answer, lock, wpc>>
  BY DEF allVars, listVars
<1>2. Linked!Begin' = Linked!Begin
  BY <1>1 DEF Linked!Begin
<1>3. Linked!Path' = Linked!Path
  BY <1>1, <1>2, Zenon DEF Linked!Path
<1>4. Linked!Reachable' = Linked!Reachable
  BY <1>3, Zenon DEF Linked!Reachable
<1>5. Linked!listBar' = Linked!listBar
  BY <1>1, <1>3, <1>4, Zenon DEF Linked!listBar
<1>6. Linked!callBar' = Linked!callBar
  BY <1>1, Zenon DEF Linked!callBar, Linked!Pending
<1> QED
  BY <1>1, <1>5, <1>6 DEF Abstract!vars

(* Each effect is a step of the abstract list.                              *)
LEMMA EffectAllowed ==
  ASSUME program = "list", program' = "list", NEW t \in Thr, Effect(t)
  PROVE  [Abstract!Next]_Abstract!vars
<1>1. CASE UNCHANGED <<Linked!listBar, Linked!callBar, answer>>
  BY <1>1, Zenon DEF Abstract!vars
<1>2. ASSUME NEW v \in Linked!AllValues, Calls(t, v) PROVE Abstract!Next
  <2>1. PICK op \in Abstract!Operations :
          /\ Linked!callBar[t] = <<>>
          /\ Linked!callBar' = [Linked!callBar EXCEPT ![t] = <<op, v>>]
    BY <1>2 DEF Calls
  <2>2. Linked!callBar'[t] = <<op, v>>
    BY <2>1 DEF Linked!callBar, Thr
  <2>3. Linked!callBar'[t] \in Abstract!Operations \X Linked!AllValues
    BY <2>1, <2>2
  <2>4. Abstract!Call(t)
    BY <1>2, <2>1, <2>2, <2>3, Zenon DEF Abstract!Call, Calls
  <2> QED
    BY <2>4, Zenon DEF Abstract!Next, Thr
<1>3. ASSUME NEW v \in Linked!AllValues, HasEffect(t, v) PROVE Abstract!Next
  <2>1. \/ Abstract!list_insert(t) \/ Abstract!list_contains(t)
        \/ Abstract!list_remove(t) \/ Abstract!list_destroy(t)
    BY <1>3, Zenon DEF HasEffect, Abstract!TakesEffect, Abstract!list_insert,
       Abstract!list_contains, Abstract!list_remove, Abstract!list_destroy
  <2> QED
    BY <2>1, Zenon DEF Abstract!Next, Thr
<1> QED
  BY <1>1, <1>2, <1>3 DEF Effect

-----------------------------------------------------------------------------
(* What main() of the list program finds                                    *)

Own == {"insert", "link", "publish"}
Has(w) == Abstract!Contains(Linked!listBar, w)

(* How far main() has come says what it has found, once the workers are     *)
(* done; nobody ever inserts the value that is not to be found.             *)
MainInv ==
  /\ wi \in [Thr -> Nat]
  /\ wpc[main] = "join" => wi[main] \in 0 .. 3
  /\ wpc[main] \in Own => wi[main] = 0 /\ val[main] = Fresh
  /\ wpc[main] \in {"contains", "search"} => \/ wi[main] = 1 /\ val[main] = Fresh
                                             \/ wi[main] = 2 /\ val[main] = Absent
  /\ wpc[main] \in {"destroy", "drain"} => wi[main] = 3
  /\ wpc[main] = "done" => wi[main] = 4
  /\ wi[main] > 0 => \A u \in Workers : wpc[u] = "done"
  /\ \A u \in Thr : wpc[u] \in Own => val[u] # Absent
  /\ ~ Has(Absent)
  /\ wi[main] = 1 => Has(Fresh)
  /\ wi[main] = 2 => answer[main]
  /\ wi[main] \in {3, 4} => ~ answer[main]

LEMMA ListSeq == ListInv /\ BarIsHeld => Linked!listBar \in Seq(Linked!AllValues)
<1> SUFFICES ASSUME ListInv, BarIsHeld PROVE Linked!listBar \in Seq(Linked!AllValues)
  OBVIOUS
<1>1. PICK m \in Nat : \E L \in [1 .. m -> Nodes] : Heap(L, m)
  BY DEF ListInv
<1>2. PICK L \in [1 .. m -> Nodes] : Heap(L, m)
  BY <1>1
<1>3. Linked!listBar = Bar(L, m)
  BY <1>2 DEF BarIsHeld
<1>4. Held(L, m) \in Seq(Linked!AllValues) /\ <<>> \in Seq(Linked!AllValues)
  BY DEF Held, ListInv, ListTypes
<1> QED
  BY <1>3, <1>4 DEF Bar

(* The first of the places where a sequence has e.                          *)
LEMMA FirstPlace ==
  ASSUME NEW S, NEW s \in Seq(S), NEW e, \E k \in 1 .. Len(s) : s[k] = e
  PROVE  \E j \in 1 .. Len(s) : s[j] = e /\ \A k \in 1 .. j - 1 : s[k] # e
<1> DEFINE B == {k \in 0 .. Len(s) : \A i1 \in 1 .. k : s[i1] # e}
<1>1. Len(s) \in Nat
  OBVIOUS
<1>2. SUFFICES ASSUME \A j \in 1 .. Len(s) : s[j] = e => \E k \in 1 .. j - 1 : s[k] = e
               PROVE  \A k \in 0 .. Len(s) : k \in B
  BY <1>1
<1>3. 0 \in B
  BY <1>1
<1>4. \A k \in 0 .. Len(s) - 1 : k \in B => k + 1 \in B
  <2> SUFFICES ASSUME NEW k \in 0 .. Len(s) - 1, k \in B PROVE k + 1 \in B
    OBVIOUS
  <2>1. k + 1 \in 1 .. Len(s) /\ (k + 1) - 1 = k /\ k + 1 \in 0 .. Len(s)
    BY <1>1
  <2>2. \A i1 \in 1 .. k : s[i1] # e
    OBVIOUS
  <2>3. s[k + 1] # e
    BY <1>2, <2>1, <2>2
  <2>4. \A i1 \in 1 .. k + 1 : i1 \in 1 .. k \/ i1 = k + 1
    BY <1>1
  <2> QED
    BY <2>1, <2>2, <2>3, <2>4
<1> HIDE DEF B
<1> QED
  BY <1>1, <1>3, <1>4, UpToInduction

(* Inserting adds a value, and removing adds none.                          *)
LEMMA ConsHas ==
  ASSUME NEW S, NEW x \in S, NEW s \in Seq(S), NEW w
  PROVE  Abstract!Contains(Abstract!Cons(x, s), w) <=> w = x \/ Abstract!Contains(s, w)
<1> DEFINE c == [k \in 1 .. Len(s) + 1 |-> IF k = 1 THEN x ELSE s[k - 1]]
<1>1. Abstract!Cons(x, s) = c
  BY ConsIs
<1>2. Len(s) \in Nat /\ Len(c) = Len(s) + 1
  <2>1. Len(s) \in Nat
    OBVIOUS
  <2>2. \A k \in 1 .. Len(s) + 1 : k = 1 \/ k - 1 \in 1 .. Len(s)
    BY <2>1
  <2>3. c \in [1 .. Len(s) + 1 -> S]
    BY <2>2
  <2> QED
    BY <2>1, <2>3
<1>3. \A k \in 1 .. Len(s) + 1 : c[k] = IF k = 1 THEN x ELSE s[k - 1]
  OBVIOUS
<1> HIDE DEF c
<1>4. ASSUME NEW k \in 1 .. Len(s) + 1, c[k] = w
      PROVE  w = x \/ \E l \in 1 .. Len(s) : s[l] = w
  <2>1. k = 1 \/ k - 1 \in 1 .. Len(s)
    BY <1>2
  <2> QED
    BY <1>3, <1>4, <2>1
<1>5. ASSUME NEW k \in 1 .. Len(s), s[k] = w PROVE \E l \in 1 .. Len(s) + 1 : c[l] = w
  <2>1. k + 1 \in 1 .. Len(s) + 1 /\ k + 1 # 1 /\ (k + 1) - 1 = k
    BY <1>2
  <2>2. c[k + 1] = w
    BY <1>3, <1>5, <2>1
  <2> QED
    BY <2>1, <2>2
<1>6. 1 \in 1 .. Len(s) + 1 /\ c[1] = x
  BY <1>2, <1>3
<1>7. (\E k \in 1 .. Len(c) : c[k] = w) <=> w = x \/ \E k \in 1 .. Len(s) : s[k] = w
  BY <1>2, <1>4, <1>5, <1>6
<1> QED
  BY <1>1, <1>7 DEF Abstract!Contains

LEMMA RemoveHas ==
  ASSUME NEW S, NEW s \in Seq(S), NEW e, NEW w,
         Abstract!Contains(Abstract!RemoveFirst(s, e), w)
  PROVE  Abstract!Contains(s, w)
<1>1. CASE \A k \in 1 .. Len(s) : s[k] # e
  BY <1>1, RemoveNothing
<1>2. CASE \E k \in 1 .. Len(s) : s[k] = e
  <2>1. PICK j \in 1 .. Len(s) : s[j] = e /\ \A k \in 1 .. j - 1 : s[k] # e
    BY <1>2, FirstPlace
  <2> DEFINE c == [k \in 1 .. Len(s) - 1 |-> IF k < j THEN s[k] ELSE s[k + 1]]
  <2>2. Abstract!RemoveFirst(s, e) = c
    BY <2>1, RemoveFirstIs
  <2>3. Len(s) - 1 \in Nat /\ Len(s) \in Nat /\ Len(c) = Len(s) - 1
    <3>1. Len(s) - 1 \in Nat /\ Len(s) \in Nat
      OBVIOUS
    <3>2. \A k \in 1 .. Len(s) - 1 : k \in 1 .. Len(s) /\ k + 1 \in 1 .. Len(s)
      BY <3>1
    <3>3. c \in [1 .. Len(s) - 1 -> S]
      BY <3>2
    <3> QED
      BY <3>1, <3>3
  <2>4. PICK k \in 1 .. Len(s) - 1 : c[k] = w
    <3> HIDE DEF c
    <3> QED
      BY <2>2, <2>3 DEF Abstract!Contains
  <2>5. k \in 1 .. Len(s) /\ k + 1 \in 1 .. Len(s)
    BY <2>3
  <2>6. s[k] = w \/ s[k + 1] = w
    BY <2>4
  <2> QED
    BY <2>5, <2>6 DEF Abstract!Contains
<1> QED
  BY <1>1, <1>2

(* What an effect does, from what was called before and after it.           *)
LEMMA EffectIs ==
  ASSUME NEW t \in Thr, Effect(t), ListTypes, Linked!listBar \in Seq(Linked!AllValues),
         NEW c, NEW d, Linked!callBar[t] = c, Linked!callBar'[t] = d
  PROVE  /\ c = d \/ c = <<>> => UNCHANGED <<Linked!listBar, answer>>
         /\ \A u \in Thr \ {t} : answer'[u] = answer[u]
         /\ \A w : Has(w)' => Has(w) \/ c = <<"insert", w>>
         /\ \A v : c = <<"insert", v>> /\ d = <<>> => UNCHANGED answer /\ Has(v)'
         /\ \A v : c = <<"contains", v>> /\ d = <<>> =>
              UNCHANGED Linked!listBar /\ answer'[t] = Has(v)
         /\ \A v : c = <<"destroy", v>> /\ d = <<>> => UNCHANGED answer
<1> DEFINE s == Linked!listBar
<1>1. CASE UNCHANGED <<Linked!listBar, Linked!callBar, answer>>
  <2>1. c = d /\ \A w : Has(w)' <=> Has(w)
    BY <1>1, Zenon DEF Has
  <2>2. \A v : <<"insert", v>> # <<>> /\ <<"contains", v>> # <<>> /\ <<"destroy", v>> # <<>>
    OBVIOUS
  <2> QED
    BY <1>1, <2>1, <2>2, Zenon
<1>2. ASSUME NEW v \in Linked!AllValues, Calls(t, v)
      PROVE  c = <<>> /\ UNCHANGED <<Linked!listBar, answer>>
  BY <1>2 DEF Calls
<1>3. ASSUME c = <<>>, UNCHANGED <<Linked!listBar, answer>>
      PROVE  /\ \A w : Has(w)' <=> Has(w)
             /\ \A v : c # <<"insert", v>> /\ c # <<"contains", v>> /\ c # <<"destroy", v>>
  <2>1. \A w : Has(w)' <=> Has(w)
    BY <1>3, Zenon DEF Has
  <2> QED
    BY <1>3, <2>1
<1>4. ASSUME NEW v \in Linked!AllValues, HasEffect(t, v)
      PROVE  /\ d = <<>> /\ c # <<>>
             /\ \/ /\ c = <<"insert", v>> /\ UNCHANGED answer
                   /\ \A w : Has(w)' <=> w = v \/ Has(w)
                \/ /\ c = <<"contains", v>> /\ UNCHANGED Linked!listBar
                   /\ answer' = [answer EXCEPT ![t] = Has(v)]
                   /\ \A w : Has(w)' <=> Has(w)
                \/ /\ c = <<"remove", v>> /\ UNCHANGED answer
                   /\ \A w : Has(w)' => Has(w)
                \/ /\ c = <<"destroy", v>> /\ UNCHANGED answer
                   /\ \A w : ~ Has(w)'
  <2>1. d = <<>>
    <3>1. PICK f : f = Linked!callBar
      OBVIOUS
    <3>2. f = [u \in Thr |-> f[u]]
      BY <3>1 DEF Linked!callBar, Thr
    <3>3. Linked!callBar' = [f EXCEPT ![t] = <<>>]
      BY <1>4, <3>1, Zenon DEF HasEffect
    <3>4. [f EXCEPT ![t] = <<>>][t] = <<>>
      BY <3>2
    <3> QED
      BY <3>3, <3>4
  <2>2. CASE /\ c = <<"insert", v>> /\ UNCHANGED answer
             /\ Linked!listBar' = Abstract!Cons(v, Linked!listBar)
    <3>1. PICK q \in Seq(Linked!AllValues) : q = s
      OBVIOUS
    <3>2. \A w : Abstract!Contains(Abstract!Cons(v, q), w) <=> w = v \/ Abstract!Contains(q, w)
      BY ConsHas
    <3>3. s' = Abstract!Cons(v, q)
      BY <2>2, <3>1, Zenon
    <3>4. \A w : Has(w)' <=> w = v \/ Has(w)
      BY <3>1, <3>2, <3>3, Zenon DEF Has
    <3> QED
      BY <2>1, <2>2, <3>4
  <2>3. CASE /\ c = <<"contains", v>> /\ UNCHANGED Linked!listBar
             /\ answer' = [answer EXCEPT ![t] = Abstract!Contains(Linked!listBar, v)]
    <3>1. \A w : Has(w)' <=> Has(w)
      BY <2>3, Zenon DEF Has
    <3>2. answer' = [answer EXCEPT ![t] = Has(v)]
      BY <2>3, Zenon DEF Has
    <3>3. c # <<>>
      BY <2>3
    <3> QED
      BY <2>1, <2>3, <3>1, <3>2, <3>3, Zenon
  <2>4. CASE /\ c = <<"remove", v>> /\ UNCHANGED answer
             /\ Linked!listBar' = Abstract!RemoveFirst(Linked!listBar, v)
    <3>1. PICK q \in Seq(Linked!AllValues) : q = s
      OBVIOUS
    <3>2. \A w : Abstract!Contains(Abstract!RemoveFirst(q, v), w) => Abstract!Contains(q, w)
      BY RemoveHas
    <3>3. s' = Abstract!RemoveFirst(q, v)
      BY <2>4, <3>1, Zenon
    <3>4. \A w : Has(w)' => Has(w)
      BY <3>1, <3>2, <3>3, Zenon DEF Has
    <3> QED
      BY <2>1, <2>4, <3>4
  <2>5. CASE c = <<"destroy", v>> /\ UNCHANGED answer /\ Linked!listBar' = <<>>
    <3>1. \A w : ~ Abstract!Contains(<<>>, w)
      BY DEF Abstract!Contains
    <3>2. \A w : ~ Has(w)'
      BY <2>5, <3>1, Zenon DEF Has
    <3> QED
      BY <2>1, <2>5, <3>2
  <2> QED
    BY <1>4, <2>2, <2>3, <2>4, <2>5, Zenon DEF HasEffect
<1>5. ASSUME NEW v \in Linked!AllValues, HasEffect(t, v)
      PROVE  /\ \A u \in Thr \ {t} : answer'[u] = answer[u]
             /\ c = <<"contains", v>> => answer'[t] = Has(v)
  <2>1. PICK b : b = Has(v)
    OBVIOUS
  <2>2. answer' = answer \/ (c = <<"contains", v>> /\ answer' = [answer EXCEPT ![t] = b])
    BY <1>4, <1>5, <2>1, Zenon
  <2>3. c = <<"contains", v>> => answer' = [answer EXCEPT ![t] = b]
    BY <1>4, <1>5, <2>1
  <2> QED
    BY <2>1, <2>2, <2>3 DEF ListTypes
<1>6. CASE \E v \in Linked!AllValues : Calls(t, v)
  <2>1. c = <<>> /\ UNCHANGED <<Linked!listBar, answer>>
    BY <1>2, <1>6
  <2> QED
    BY <1>3, <2>1
<1>7. CASE \E v \in Linked!AllValues : HasEffect(t, v)
  <2>1. PICK v \in Linked!AllValues : HasEffect(t, v)
    BY <1>7
  <2>2. d = <<>> /\ c # <<>>
    BY <1>4, <2>1
  <2>3. \A w : Has(w)' => Has(w) \/ c = <<"insert", w>>
    BY <1>4, <2>1
  <2>4. \A w : c = <<"insert", w>> => UNCHANGED answer /\ Has(w)'
    BY <1>4, <2>1
  <2>5. \A w : c = <<"contains", w>> =>
               w = v /\ UNCHANGED Linked!listBar /\ answer'[t] = Has(v)
    BY <1>4, <1>5, <2>1
  <2>6. \A w : c = <<"destroy", w>> => UNCHANGED answer
    BY <1>4, <2>1
  <2>7. \A w : c = <<"contains", w>> => UNCHANGED Linked!listBar /\ answer'[t] = Has(w)
    BY <2>5, Zenon
  <2> QED
    BY <1>5, <2>1, <2>2, <2>3, <2>4, <2>6, <2>7
<1> QED
  BY <1>1, <1>6, <1>7 DEF Effect

(* The way of a thread through its operations.                              *)
Within(p, l) ==
  \/ <<p, l>> \in {<<"insert", "link">>, <<"link", "publish">>,
                   <<"contains", "search">>, <<"remove", "hunt">>,
                   <<"hunt", "free">>, <<"destroy", "drain">>}
  \/ p \in {"search", "hunt", "drain"} /\ l = p

Leaves(t, p, l) ==
  /\ p \in {"publish", "search", "hunt", "free", "drain"}
  /\ l = IF t = main THEN (IF p = "drain" THEN "done" ELSE "join") ELSE "call"

(* A step inside of an operation and a return from one.                     *)
GoesOn(t, l) ==
  /\ Goes(t, l) /\ Within(wpc[t], l)
  /\ UNCHANGED <<value, wi>> /\ \A u \in Thr : wpc'[u] \in Own => curr'[u] = curr[u]
Returns(t, l) ==
  /\ Goes(t, l) /\ Leaves(t, wpc[t], l)
  /\ UNCHANGED value /\ wi' = [wi EXCEPT ![t] = wi[t] + 1]
  /\ \A u \in Thr : wpc'[u] \in Own => curr'[u] = curr[u]

LEMMA OperationWay ==
  ASSUME ListTypes, ListPcs, NEW t \in Thr, Linked!Operation(t)
  PROVE  \E l : GoesOn(t, l) \/ Returns(t, l)
<1>1. CASE Linked!InsertLock(t)
  <2>1. GoesOn(t, "link")
    BY <1>1 DEF Linked!InsertLock, Linked!Lock, Linked!Goto, Linked!heapVars,
       GoesOn, Goes, Within
  <2> QED
    BY <2>1
<1>2. CASE Linked!InsertLink(t)
  <2>1. GoesOn(t, "publish")
    BY <1>2 DEF Linked!InsertLink, Linked!Goto, GoesOn, Goes, Within
  <2> QED
    BY <2>1
<1>3. CASE Linked!ContainsLock(t)
  <2>1. GoesOn(t, "search")
    BY <1>3 DEF Linked!ContainsLock, Linked!LockAtHead, Linked!Lock, Linked!Goto,
       Linked!heapVars, GoesOn, Goes, Within, Own, ListPcs, ListTypes
  <2> QED
    BY <2>1
<1>4. CASE Linked!RemoveLock(t)
  <2>1. GoesOn(t, "hunt")
    BY <1>4 DEF Linked!RemoveLock, Linked!LockAtHead, Linked!Lock, Linked!Goto,
       Linked!heapVars, GoesOn, Goes, Within, Own, ListPcs, ListTypes
  <2> QED
    BY <2>1
<1>5. CASE Linked!DestroyLock(t)
  <2>1. GoesOn(t, "drain")
    BY <1>5 DEF Linked!DestroyLock, Linked!LockAtHead, Linked!Lock, Linked!Goto,
       Linked!heapVars, GoesOn, Goes, Within, Own, ListPcs, ListTypes
  <2> QED
    BY <2>1
<1>6. CASE Linked!ContainsNext(t) \/ Linked!RemoveNext(t) \/ Linked!DestroyNode(t)
  <2>1. PICK p : p = wpc[t]
    OBVIOUS
  <2>2. /\ p \in {"search", "hunt", "drain"} /\ wpc' = wpc /\ UNCHANGED <<val, value, wi>>
        /\ \A u \in Thr \ {t} : curr'[u] = curr[u]
    BY <1>6, <2>1 DEF Linked!ContainsNext, Linked!RemoveNext, Linked!DestroyNode,
       Linked!heapVars, ListTypes
  <2>3. GoesOn(t, p)
    BY <2>1, <2>2 DEF GoesOn, Goes, Within, Own, ListPcs
  <2> QED
    BY <2>3
<1>7. CASE Linked!RemoveUnlink(t)
  <2>1. GoesOn(t, "free")
    BY <1>7 DEF Linked!RemoveUnlink, Linked!Goto, GoesOn, Goes, Within
  <2> QED
    BY <2>1
<1>8. CASE \/ Linked!InsertPublish(t) \/ Linked!ContainsFound(t)
           \/ Linked!ContainsNot(t) \/ Linked!RemoveNot(t)
           \/ Linked!RemoveFree(t) \/ Linked!DestroyEnd(t)
  <2> DEFINE l == IF t = main THEN (IF wpc[t] = "drain" THEN "done" ELSE "join") ELSE "call"
  <2>1. wpc[t] \in {"publish", "search", "hunt", "free", "drain"} /\ UNCHANGED value
    BY <1>8 DEF Linked!InsertPublish, Linked!ContainsFound, Linked!ContainsNot,
       Linked!RemoveNot, Linked!RemoveFree, Linked!DestroyEnd, Linked!heapVars
  <2>2. /\ wpc' = [wpc EXCEPT ![t] = l] /\ UNCHANGED val
        /\ wi' = [wi EXCEPT ![t] = wi[t] + 1] /\ curr' = [curr EXCEPT ![t] = None]
    BY <1>8 DEF Linked!InsertPublish, Linked!ContainsFound, Linked!ContainsNot,
       Linked!RemoveNot, Linked!RemoveFree, Linked!DestroyEnd, Linked!UnlockReturn,
       Linked!Goto
  <2>3. PICK k : k = l
    OBVIOUS
  <2>4. k \in {"done", "join", "call"}
    BY <2>3
  <2>5. Leaves(t, wpc[t], k)
    BY <2>1, <2>3 DEF Leaves
  <2> HIDE DEF l
  <2>6. \A u \in Thr : wpc'[u] \in Own => curr'[u] = curr[u]
    BY <2>2, <2>3, <2>4 DEF ListPcs, ListTypes, Own
  <2>7. Returns(t, k)
    BY <2>1, <2>2, <2>3, <2>5, <2>6 DEF Returns, Goes
  <2> QED
    BY <2>7
<1> QED
  BY <1>1, <1>2, <1>3, <1>4, <1>5, <1>6, <1>7, <1>8 DEF Linked!Operation

(* A call with the argument v, for which list_insert() takes a new node.    *)
Asked(t, op, v) ==
  /\ wpc[t] \in {"call", "join"} /\ wpc' = [wpc EXCEPT ![t] = op]
  /\ val' = [val EXCEPT ![t] = v] /\ UNCHANGED wi
  /\ op = "insert" =>
       \E x \in Nodes \ allocated :
         value' = [value EXCEPT ![x] = v] /\ curr' = [curr EXCEPT ![t] = x]
  /\ op # "insert" => UNCHANGED <<value, curr>>

LEMMA CallAsks ==
  ASSUME NEW t \in Thr, NEW v, wpc[t] \in {"call", "join"}
  PROVE  /\ Linked!CallInsert(t, v) => Asked(t, "insert", v)
         /\ \A op \in {"contains", "remove", "destroy"} :
              Linked!CallOther(t, op, v) => Asked(t, op, v)
<1>1. Linked!CallInsert(t, v) => Asked(t, "insert", v)
  BY Zenon DEF Linked!CallInsert, Linked!Goto, Asked
<1>2. ASSUME NEW op \in {"contains", "remove", "destroy"}, Linked!CallOther(t, op, v)
      PROVE  Asked(t, op, v)
  BY <1>2 DEF Linked!CallOther, Linked!Goto, Linked!heapVars, Asked
<1> QED
  BY <1>1, <1>2

(* What a thread does next.                                                 *)
WorkerMoves(t) ==
  /\ t \in Workers
  /\ \/ \E l : GoesOn(t, l) \/ Returns(t, l)
     \/ \E v \in Values, op \in {"insert", "contains", "remove"} : Asked(t, op, v)
     \/ Goes(t, "done") /\ UNCHANGED <<value, curr, wi>>

MainMoves ==
  \/ \E l : GoesOn(main, l) \/ Returns(main, l)
  \/ /\ wpc[main] = "join" /\ \A u \in Workers : wpc[u] = "done"
     /\ \/ wi[main] = 0 /\ Asked(main, "insert", Fresh)
        \/ wi[main] = 1 /\ Asked(main, "contains", Fresh)
        \/ wi[main] = 2 /\ Asked(main, "contains", Absent)
        \/ wi[main] = 3 /\ Asked(main, "destroy", Absent)

LEMMA ActingMoves ==
  ASSUME ListTypes, ListPcs, NEW t \in Thr, Acting(t)
  PROVE  WorkerMoves(t) \/ (t = main /\ MainMoves)
<1>1. CASE Linked!Operation(t)
  <2>1. \E l : GoesOn(t, l) \/ Returns(t, l)
    BY <1>1, OperationWay
  <2>2. t \in Workers \/ t = main
    BY ListThreads
  <2> QED
    BY <2>1, <2>2, Zenon DEF WorkerMoves, MainMoves
<1>2. CASE t \in Workers /\ Linked!Worker(t)
  <2>1. wpc[t] \in {"call", "join"}
    BY <1>2 DEF Linked!Worker
  <2>2. PICK v \in Values : \/ Linked!CallInsert(t, v)
                            \/ Linked!CallOther(t, "contains", v)
                            \/ Linked!CallOther(t, "remove", v)
    BY <1>2 DEF Linked!Worker
  <2>3. \E op \in {"insert", "contains", "remove"} : Asked(t, op, v)
    BY <2>1, <2>2, CallAsks
  <2> QED
    BY <1>2, <2>3, Zenon DEF WorkerMoves
<1>3. CASE t \in Workers /\ Linked!WorkerDone(t)
  <2>1. Goes(t, "done") /\ UNCHANGED <<value, curr, wi>>
    BY <1>3 DEF Linked!WorkerDone, Linked!Goto, Linked!heapVars, Goes
  <2> QED
    BY <1>3, <2>1, Zenon DEF WorkerMoves
<1>4. CASE t = main /\ Linked!Main
  <2>1. /\ wpc[main] = "join" /\ \A u \in Workers : wpc[u] = "done"
        /\ \/ wi[main] = 0 /\ Linked!CallInsert(main, Fresh)
           \/ wi[main] = 1 /\ Linked!CallOther(main, "contains", Fresh)
           \/ wi[main] = 2 /\ Linked!CallOther(main, "contains", Absent)
           \/ wi[main] = 3 /\ Linked!CallOther(main, "destroy", Absent)
    BY <1>4 DEF Linked!Main
  <2>2. \/ wi[main] = 0 /\ Asked(main, "insert", Fresh)
        \/ wi[main] = 1 /\ Asked(main, "contains", Fresh)
        \/ wi[main] = 2 /\ Asked(main, "contains", Absent)
        \/ wi[main] = 3 /\ Asked(main, "destroy", Absent)
    BY <2>1, ListThreads, CallAsks
  <2> QED
    BY <1>4, <2>1, <2>2, Zenon DEF MainMoves
<1> QED
  BY <1>1, <1>2, <1>3, <1>4 DEF Acting

(* Nodes that threads have filled keep what is in them.                     *)
LEMMA OwnStep ==
  ASSUME ListInv, OwnInv, NEW t \in Thr, Acting(t)
  PROVE  OwnInv'
<1>1. ListTypes /\ ListPcs
  BY DEF ListInv
<1>2. \A u \in Thr : wpc[u] \in Own => curr[u] \in allocated /\ allocated \subseteq Nodes
  BY Places DEF ListInv, Heap, Own, ListTypes
<1>3. ASSUME NEW l, Goes(t, l), l \in Own => wpc[t] \in Own, UNCHANGED value,
             \A u \in Thr : wpc'[u] \in Own => curr'[u] = curr[u]
      PROVE  OwnInv'
  <2>1. \A u \in Thr : wpc'[u] \in Own => wpc[u] \in Own /\ val'[u] = val[u]
    BY <1>1, <1>3 DEF Goes, ListPcs
  <2> QED
    BY <1>3, <2>1 DEF OwnInv, Own
<1>4. ASSUME NEW v, NEW op, Asked(t, op, v), op # "insert" => op \notin Own PROVE OwnInv'
  <2>1. /\ wpc'[t] = op /\ val'[t] = v
        /\ \A u \in Thr \ {t} : wpc'[u] = wpc[u] /\ val'[u] = val[u]
    BY <1>1, <1>4 DEF Asked, ListPcs, ListTypes
  <2>2. CASE op = "insert"
    <3>1. PICK x \in Nodes \ allocated :
            value' = [value EXCEPT ![x] = v] /\ curr' = [curr EXCEPT ![t] = x]
      BY <1>4, <2>2 DEF Asked
    <3>2. /\ value'[x] = v /\ curr'[t] = x
          /\ \A y \in Nodes \ {x} : value'[y] = value[y]
          /\ \A u \in Thr \ {t} : curr'[u] = curr[u]
      BY <1>1, <3>1 DEF ListTypes
    <3>3. ASSUME NEW u \in Thr \ {t}, wpc[u] \in Own PROVE value'[curr'[u]] = val'[u]
      <4>1. curr[u] \in Nodes \ {x} /\ value[curr[u]] = val[u]
        BY <1>2, <3>1, <3>3 DEF OwnInv, Own
      <4> QED
        BY <2>1, <3>2, <4>1
    <3> QED
      BY <2>1, <3>2, <3>3 DEF OwnInv, Own
  <2>3. CASE op # "insert"
    BY <1>4, <2>1, <2>3 DEF OwnInv, Own, Asked
  <2> QED
    BY <2>2, <2>3
<1>5. \A l : GoesOn(t, l) => OwnInv'
  <2> SUFFICES ASSUME NEW l, GoesOn(t, l) PROVE OwnInv'
    OBVIOUS
  <2>1. l \in Own => wpc[t] \in Own
    BY DEF GoesOn, Within, Own
  <2> QED
    BY <1>3, <2>1 DEF GoesOn
<1>6. \A l : Returns(t, l) => OwnInv'
  <2> SUFFICES ASSUME NEW l, Returns(t, l) PROVE OwnInv'
    OBVIOUS
  <2>1. l \notin Own
    BY DEF Returns, Leaves, Own
  <2> QED
    BY <1>3, <2>1 DEF Returns
<1>7. CASE Goes(t, "done") /\ UNCHANGED <<value, curr, wi>>
  <2>1. "done" \notin Own
    BY DEF Own
  <2> QED
    BY <1>3, <1>7, <2>1
<1>8. \A v : \A op \in {"insert", "contains", "remove", "destroy"} : Asked(t, op, v) => OwnInv'
  <2>1. \A op \in {"insert", "contains", "remove", "destroy"} : op # "insert" => op \notin Own
    BY DEF Own
  <2> QED
    BY <1>4, <2>1
<1>9. WorkerMoves(t) \/ (t = main /\ MainMoves)
  BY <1>1, ActingMoves
<1> QED
  BY <1>5, <1>6, <1>7, <1>8, <1>9 DEF WorkerMoves, MainMoves

LEMMA AsksInsert ==
  ASSUME NEW p, NEW v, NEW w, Asks(p, v) = <<"insert", w>>
  PROVE  p \in Own /\ v = w
BY DEF Asks, Own

(* No step brings the value that main() does not expect to find.            *)
LEMMA AbsentStep ==
  ASSUME ListInv, BarIsHeld, MainInv, NEW t \in Thr, Acting(t), Effect(t)
  PROVE  (\A u \in Thr : wpc'[u] \in Own => val'[u] # Absent) /\ ~ Has(Absent)'
<1>1. ListTypes /\ ListPcs
  BY DEF ListInv
<1>2. ASSUME NEW l, Goes(t, l), l \in Own => wpc[t] \in Own
      PROVE  \A u \in Thr : wpc'[u] \in Own => val'[u] # Absent
  BY <1>1, <1>2 DEF Goes, ListPcs, MainInv
<1>3. ASSUME NEW v, NEW op, Asked(t, op, v), op \in Own => v # Absent
      PROVE  \A u \in Thr : wpc'[u] \in Own => val'[u] # Absent
  <2>1. /\ wpc'[t] = op /\ val'[t] = v
        /\ \A u \in Thr \ {t} : wpc'[u] = wpc[u] /\ val'[u] = val[u]
    BY <1>1, <1>3 DEF Asked, ListPcs, ListTypes
  <2> QED
    BY <1>3, <2>1 DEF MainInv
<1>4. \A l : GoesOn(t, l) => Goes(t, l) /\ (l \in Own => wpc[t] \in Own)
  BY DEF GoesOn, Within, Own
<1>5. \A l : Returns(t, l) => Goes(t, l) /\ l \notin Own
  BY DEF Returns, Leaves, Own
<1>6. Absent \notin Values /\ Fresh # Absent
  BY ProgramsAssumption DEF Linked!ListAssumption
<1>7. "done" \notin Own /\ "contains" \notin Own /\ "destroy" \notin Own
  BY DEF Own
<1>8. WorkerMoves(t) \/ (t = main /\ MainMoves)
  BY <1>1, ActingMoves
<1>9. ~ Has(Absent)'
  <2>1. PICK c : c = Linked!callBar[t]
    OBVIOUS
  <2>2. PICK d : d = Linked!callBar'[t]
    OBVIOUS
  <2>3. Has(Absent)' => Has(Absent) \/ c = <<"insert", Absent>>
    BY <1>1, <2>1, <2>2, ListSeq, EffectIs
  <2>4. c = Asks(wpc[t], val[t])
    BY <2>1 DEF Linked!callBar, Linked!Pending, Asks, Thr
  <2>5. PICK p : p = wpc[t]
    OBVIOUS
  <2>6. PICK v : v = val[t]
    OBVIOUS
  <2>7. c = Asks(p, v)
    BY <2>4, <2>5, <2>6, Zenon
  <2>8. c = <<"insert", Absent>> => p \in Own /\ v = Absent
    BY <2>7, AsksInsert
  <2> QED
    BY <2>3, <2>5, <2>6, <2>8 DEF MainInv
<1>10. CASE WorkerMoves(t)
  <2>1. \/ \E l : Goes(t, l) /\ (l \in Own => wpc[t] \in Own)
        \/ \E v \in Values, op \in {"insert", "contains", "remove"} : Asked(t, op, v)
    BY <1>4, <1>5, <1>7, <1>10, Zenon DEF WorkerMoves
  <2> QED
    BY <1>2, <1>3, <1>6, <1>9, <2>1
<1>11. CASE t = main /\ MainMoves
  <2>1. \/ \E l : Goes(t, l) /\ (l \in Own => wpc[t] \in Own)
        \/ Asked(t, "insert", Fresh) \/ Asked(t, "contains", Fresh)
        \/ Asked(t, "contains", Absent) \/ Asked(t, "destroy", Absent)
    BY <1>4, <1>5, <1>11, Zenon DEF MainMoves
  <2> QED
    BY <1>2, <1>3, <1>6, <1>7, <1>9, <2>1
<1> QED
  BY <1>8, <1>10, <1>11

(* A worker's step leaves main() where it is: main() has not begun.         *)
LEMMA WorkerKeepsMain ==
  ASSUME ListInv, BarIsHeld, MainInv, NEW t \in Workers, Acting(t), Effect(t)
  PROVE  MainInv'
<1>1. ListTypes /\ ListPcs /\ t \in Thr /\ t # main
  BY ListThreads DEF ListInv
<1>2. wpc[t] # "done"
  BY <1>1, ListActor DEF Acting
<1>3. wi[main] = 0 /\ wi \in [Thr -> Nat]
  BY <1>2, ListThreads DEF MainInv
<1>4. WorkerMoves(t)
  BY <1>1, ActingMoves
<1>5. /\ wpc'[main] = wpc[main] /\ val'[main] = val[main] /\ wi'[main] = wi[main]
      /\ wi' \in [Thr -> Nat]
  <2>1. ASSUME NEW l, Goes(t, l) PROVE wpc'[main] = wpc[main] /\ val'[main] = val[main]
    BY <1>1, <2>1, ListThreads DEF Goes, ListPcs
  <2>2. ASSUME NEW l, NEW v, Asked(t, l, v)
        PROVE  wpc'[main] = wpc[main] /\ val'[main] = val[main] /\ wi' = wi
    BY <1>1, <2>2, ListThreads DEF Asked, ListPcs, ListTypes
  <2>3. \A l : GoesOn(t, l) => Goes(t, l) /\ wi' = wi
    BY DEF GoesOn
  <2>4. \A l : Returns(t, l) => Goes(t, l) /\ wi' = [wi EXCEPT ![t] = wi[t] + 1]
    BY DEF Returns
  <2>5. /\ wpc'[main] = wpc[main] /\ val'[main] = val[main]
        /\ wi' = wi \/ wi' = [wi EXCEPT ![t] = wi[t] + 1]
    BY <1>4, <2>1, <2>2, <2>3, <2>4, Zenon DEF WorkerMoves
  <2> QED
    BY <1>1, <1>3, <2>5, ListThreads
<1>6. (\A u \in Thr : wpc'[u] \in Own => val'[u] # Absent) /\ ~ Has(Absent)'
  BY <1>1, AbsentStep
<1> QED
  BY <1>3, <1>5, <1>6 DEF MainInv

(* main() alone goes on, from one check to the next.                        *)
LEMMA MainStep ==
  ASSUME ListInv, BarIsHeld, MainInv, Acting(main), Effect(main)
  PROVE  MainInv'
<1>1. ListTypes /\ ListPcs /\ main \in Thr /\ Linked!listBar \in Seq(Linked!AllValues)
  BY ListThreads, ListSeq DEF ListInv
<1>2. (\A u \in Thr : wpc'[u] \in Own => val'[u] # Absent) /\ ~ Has(Absent)'
  BY <1>1, AbsentStep
<1>3. \A u \in Workers : wpc[u] = "done"
  BY <1>1, ListActor DEF Acting
<1>4. MainMoves
  <2>1. ~ WorkerMoves(main)
    BY ListThreads DEF WorkerMoves
  <2> QED
    BY <1>1, <2>1, ActingMoves
<1>5. PICK v : v = val[main]
  OBVIOUS
<1>6. PICK p : p = wpc[main]
  OBVIOUS
<1>7. PICK k \in Nat : k = wi[main]
  BY <1>1 DEF MainInv
<1>8. PICK c : c = Linked!callBar[main]
  OBVIOUS
<1>9. PICK d : d = Linked!callBar'[main]
  OBVIOUS
<1>10. /\ c = d \/ c = <<>> => UNCHANGED <<Linked!listBar, answer>>
       /\ c = <<"insert", v>> /\ d = <<>> => UNCHANGED answer /\ Has(v)'
       /\ c = <<"contains", v>> /\ d = <<>> =>
            UNCHANGED Linked!listBar /\ answer'[main] = Has(v)
       /\ c = <<"destroy", v>> /\ d = <<>> => UNCHANGED answer
  <2>1. /\ c = d \/ c = <<>> => UNCHANGED <<Linked!listBar, answer>>
        /\ \A w : c = <<"insert", w>> /\ d = <<>> => UNCHANGED answer /\ Has(w)'
        /\ \A w : c = <<"contains", w>> /\ d = <<>> =>
             UNCHANGED Linked!listBar /\ answer'[main] = Has(w)
        /\ \A w : c = <<"destroy", w>> /\ d = <<>> => UNCHANGED answer
    BY <1>1, <1>8, <1>9, EffectIs
  <2> QED
    BY <2>1, Zenon
<1>11. c = Asks(p, v) /\ d = Asks(wpc'[main], val'[main])
  <2>1. /\ Linked!callBar[main] = Asks(wpc[main], val[main])
        /\ Linked!callBar'[main] = Asks(wpc'[main], val'[main])
    BY <1>1 DEF Linked!callBar, Linked!Pending, Asks, Thr
  <2> QED
    BY <1>5, <1>6, <1>8, <1>9, <2>1, Zenon
<1>12. UNCHANGED Linked!listBar => \A w : Has(w)' <=> Has(w)
  BY Zenon DEF Has
<1>13. ASSUME NEW op \in {"insert", "contains", "destroy"}, NEW w, Asked(main, op, w),
              wpc[main] = "join",
              \/ k = 0 /\ op = "insert" /\ w = Fresh
              \/ k = 1 /\ op = "contains" /\ w = Fresh
              \/ k = 2 /\ op = "contains" /\ w = Absent
              \/ k = 3 /\ op = "destroy"
       PROVE  MainInv'
  <2>1. c = <<>>
    BY <1>6, <1>11, <1>13, AsksIs
  <2>2. UNCHANGED answer /\ \A x : Has(x)' <=> Has(x)
    BY <1>10, <1>12, <2>1
  <2>3. wpc'[main] = op /\ val'[main] = w /\ wi' = wi
    BY <1>1, <1>13 DEF Asked, ListPcs, ListTypes
  <2>4. \A u \in Workers : wpc'[u] = "done"
    BY <1>1, <1>3, <1>13, ListThreads DEF Asked, ListPcs
  <2> QED
    BY <1>2, <1>7, <1>13, <2>2, <2>3, <2>4 DEF MainInv, Own
<1>14. ASSUME NEW l, GoesOn(main, l) PROVE MainInv'
  <2>1. wpc'[main] = l /\ val'[main] = v /\ wi' = wi
    BY <1>1, <1>5, <1>14 DEF GoesOn, Goes, ListPcs
  <2>2. \A u \in Workers : wpc'[u] = "done"
    BY <1>1, <1>3, <1>14, ListThreads DEF GoesOn, Goes, ListPcs
  <2>3. \/ p = "insert" /\ l = "link"
        \/ p = "link" /\ l = "publish"
        \/ p \in {"contains", "search"} /\ l = "search"
        \/ p = "destroy" /\ l = "drain"
        \/ p = "drain" /\ l = "drain"
    BY <1>1, <1>6, <1>14 DEF GoesOn, Within, ListPcs
  <2>4. c = Asks(p, v) /\ d = Asks(l, v)
    BY <1>11, <2>1
  <2>5. CASE p # "destroy"
    <3>1. c = d
      BY <2>3, <2>4, <2>5, AsksIs
    <3>2. UNCHANGED answer /\ \A x : Has(x)' <=> Has(x)
      BY <1>10, <1>12, <3>1
    <3> QED
      BY <1>2, <1>5, <1>6, <2>1, <2>2, <2>3, <3>2 DEF MainInv, Own
  <2>6. CASE p = "destroy"
    <3>1. c = <<"destroy", v>> /\ d = <<>> /\ l = "drain"
      BY <2>3, <2>4, <2>6, AsksIs
    <3>2. UNCHANGED answer
      BY <1>10, <3>1
    <3> QED
      BY <1>2, <1>6, <2>1, <2>2, <2>6, <3>1, <3>2 DEF MainInv, Own
  <2> QED
    BY <2>5, <2>6
<1>15. ASSUME NEW l, Returns(main, l) PROVE MainInv'
  <2>1. wpc'[main] = l /\ val'[main] = v /\ wi' \in [Thr -> Nat] /\ wi'[main] = k + 1
    BY <1>1, <1>5, <1>7, <1>15 DEF Returns, Goes, ListPcs, MainInv
  <2>2. \A u \in Workers : wpc'[u] = "done"
    BY <1>1, <1>3, <1>15, ListThreads DEF Returns, Goes, ListPcs
  <2>3. \/ p = "publish" /\ l = "join"
        \/ p = "search" /\ l = "join"
        \/ p = "drain" /\ l = "done"
    BY <1>1, <1>6, <1>15 DEF Returns, Leaves, ListPcs
  <2>4. c = Asks(p, v) /\ d = <<>>
    <3>1. d = Asks(l, v)
      BY <1>11, <2>1
    <3> QED
      BY <1>11, <2>3, <3>1, AsksIs
  <2>5. CASE p = "publish" /\ l = "join"
    <3>1. c = <<"insert", v>> /\ k = 0 /\ v = Fresh
      BY <1>5, <1>6, <1>7, <2>4, <2>5, AsksIs DEF MainInv, Own
    <3>2. Has(Fresh)'
      BY <1>10, <2>4, <3>1
    <3> QED
      BY <1>2, <2>1, <2>2, <2>5, <3>1, <3>2 DEF MainInv, Own
  <2>6. CASE p = "search" /\ l = "join"
    <3>1. c = <<"contains", v>>
      BY <2>4, <2>6, AsksIs
    <3>2. answer'[main] = Has(v) /\ \A x : Has(x)' <=> Has(x)
      BY <1>10, <1>12, <2>4, <3>1
    <3>3. /\ k \in {1, 2}
          /\ k = 1 => v = Fresh /\ Has(Fresh)
          /\ k = 2 => v = Absent /\ ~ Has(Absent)
      BY <1>5, <1>6, <1>7, <2>6 DEF MainInv
    <3>4. (k = 1 => answer'[main]) /\ (k = 2 => ~ answer'[main])
      BY <3>2, <3>3, Zenon
    <3> QED
      BY <1>2, <2>1, <2>2, <2>6, <3>3, <3>4 DEF MainInv, Own
  <2>7. CASE p = "drain" /\ l = "done"
    <3>1. c = <<>> /\ k = 3
      BY <1>6, <1>7, <2>4, <2>7, AsksIs DEF MainInv
    <3>2. UNCHANGED answer
      BY <1>10, <3>1
    <3> QED
      BY <1>2, <1>7, <2>1, <2>2, <2>7, <3>1, <3>2 DEF MainInv, Own
  <2> QED
    BY <2>3, <2>5, <2>6, <2>7
<1> QED
  BY <1>4, <1>7, <1>13, <1>14, <1>15, Zenon DEF MainMoves

LEMMA MainStart ==
  ASSUME Linked!Init, Linked!listBar = <<>>
  PROVE  MainInv
<1>1. /\ wi = [t \in Thr |-> 0] /\ wpc[main] = "join"
      /\ \A t \in Thr : wpc[t] \notin Own
  BY ListThreads DEF Linked!Init, Thr, Own
<1>2. \A w : ~ Has(w)
  BY DEF Has, Abstract!Contains
<1> QED
  BY <1>1, <1>2, ListThreads DEF MainInv, Own

LEMMA MainChecks == MainInv => Linked!ChecksPass
BY DEF MainInv, Linked!ChecksPass

-----------------------------------------------------------------------------
(* All programs                                                             *)

(* The program that runs has its invariant.                                 *)
ProgramInv ==
  /\ program \in {"race", "bank", "sum", "stats", "list"}
  /\ program = "bank" => BankInv
  /\ program = "sum" => SumInv
  /\ program = "stats" => StatsInv
  /\ program = "list" => ListInv /\ OwnInv /\ MainInv

LEMMA ProgramStart == ProgramInit => ProgramInv
BY BankInit, SumInit, StatsInit, ListInit, MainStart, Zenon DEF ProgramInit, ProgramInv

(* A program that does not run changes nothing.                             *)
LEMMA ProgramIdle ==
  ASSUME UNCHANGED allVars
  PROVE  /\ BankInv => BankInv'
         /\ SumInv => SumInv'
         /\ StatsInv => StatsInv'
         /\ ListInv => ListInv'
         /\ OwnInv => OwnInv'
         /\ MainInv => MainInv'
<1>1. UNCHANGED <<program, opening, balance, successful, rejected, total, total_lock,
                  loaded, start, end, sum, mpc, n, total_sum, listVars, size, lock,
                  wpc, wi>>
  BY DEF allVars, bankVars, sumVars, statsVars
<1>2. Passed' = Passed /\ (\A t : Cut(t)' = Cut(t)) /\ Cut(n)' = Cut(n)
  BY <1>1 DEF Passed, Cut
<1>3. BankInv => BankInv'
  BY <1>1 DEF BankInv
<1>4. SumInv => SumInv'
  BY <1>1, <1>2 DEF SumInv, Ids
<1>5. StatsInv => StatsInv'
  BY <1>1, <1>2 DEF StatsInv, Ids
<1>6. ListInv => ListInv'
  BY <1>1, ListIdle
<1>7. OwnInv => OwnInv'
  BY <1>1 DEF OwnInv, listVars
<1>8. MainInv => MainInv'
  <2>1. \A w : Has(w)' <=> Has(w)
    BY BarIdle, Zenon DEF Has
  <2> QED
    BY <1>1, <2>1 DEF MainInv, listVars
<1> QED
  BY <1>3, <1>4, <1>5, <1>6, <1>7, <1>8

LEMMA ProgramStep ==
  ProgramInv /\ [ProgramNext]_allVars /\ BarIsHeld /\ BarIsHeld' =>
    ProgramInv' /\ [Abstract!Next]_Abstract!vars
<1> SUFFICES ASSUME ProgramInv, [ProgramNext]_allVars, BarIsHeld, BarIsHeld'
             PROVE  ProgramInv' /\ [Abstract!Next]_Abstract!vars
  OBVIOUS
<1>1. program' = program
  BY DEF ProgramNext, allVars, Run, RunList
<1>2. CASE UNCHANGED allVars
  BY <1>1, <1>2, ProgramIdle, BarIdle DEF ProgramInv
<1>3. ASSUME ProgramNext, program # "list" PROVE UNCHANGED Abstract!vars
  <2>1. UNCHANGED answer
    BY <1>3 DEF ProgramNext, Run, RunList, listVars
  <2> QED
    BY <1>1, <1>3, <2>1, Zenon DEF Abstract!vars
<1>4. CASE ProgramNext /\ program = "race"
  BY <1>1, <1>3, <1>4 DEF ProgramInv
<1>5. CASE ProgramNext /\ program = "bank"
  <2>1. BankInv /\ Account!Next
    BY <1>5 DEF ProgramInv, ProgramNext, Run, RunList
  <2> QED
    BY <1>1, <1>3, <1>5, <2>1, BankStep DEF ProgramInv
<1>6. CASE ProgramNext /\ program = "sum"
  <2>1. SumInv /\ Sum!Next
    BY <1>6 DEF ProgramInv, ProgramNext, Run, RunList
  <2> QED
    BY <1>1, <1>3, <1>6, <2>1, SumStep DEF ProgramInv
<1>7. CASE ProgramNext /\ program = "stats"
  <2>1. StatsInv /\ Stats!Next
    BY <1>7 DEF ProgramInv, ProgramNext, Run, RunList
  <2> QED
    BY <1>1, <1>3, <1>7, <2>1, StatsStep DEF ProgramInv
<1>8. CASE ProgramNext /\ program = "list"
  <2>1. ListInv /\ OwnInv /\ MainInv /\ Linked!Next
    BY <1>8 DEF ProgramInv, ProgramNext, Run, RunList
  <2>2. ListInv' /\ \E t \in Thr : Acting(t) /\ Effect(t)
    BY <2>1, ListStep
  <2>3. PICK t \in Thr : Acting(t) /\ Effect(t)
    BY <2>2
  <2>4. [Abstract!Next]_Abstract!vars
    BY <1>1, <1>8, <2>3, EffectAllowed
  <2>5. OwnInv'
    BY <2>1, <2>3, OwnStep
  <2>6. MainInv'
    BY <2>1, <2>3, WorkerKeepsMain, MainStep, ListThreads
  <2> QED
    BY <1>1, <1>8, <2>2, <2>4, <2>5, <2>6 DEF ProgramInv
<1> QED
  BY <1>2, <1>4, <1>5, <1>6, <1>7, <1>8 DEF ProgramInv

(* The invariant of the program that runs holds always.                     *)
THEOREM ProgramAlways == ProgramSpec => []ProgramInv
  BY ProgramStart, ProgramStep, ListBar, PTL DEF ProgramSpec

(* bank_chaos_fixed.c never overdraws the account, and what is gone from it *)
(* is what its customers count as withdrawn, for any number of customers.   *)
THEOREM BooksKept == ProgramSpec => []BooksAgree
<1>1. ProgramInv => BooksAgree
  BY BankBooks DEF ProgramInv, BooksAgree
<1> QED
  BY ProgramAlways, <1>1, PTL

(* parallel_sum_fixed.c and parallel_stats.c add every element of the array *)
(* to the total exactly once, for any number of threads and any size, a     *)
(* multiple of the number of threads or not.                                *)
THEOREM SumsKept == ProgramSpec => []SumsExact
<1>1. ProgramInv => SumsExact
  BY SumTotal, StatsJoined DEF ProgramInv, SumsExact
<1> QED
  BY ProgramAlways, <1>1, PTL

(* safe_list.c: no walk ever stands on a node that has been freed, and the  *)
(* list stays a chain of allocated nodes that ends, for any number of       *)
(* workers, operations and nodes.                                           *)
THEOREM NeverDangling == ProgramSpec => []NoDangling
<1>1. ProgramInv => NoDangling
  BY ListSafe DEF ProgramInv, NoDangling
<1> QED
  BY ProgramAlways, <1>1, PTL

(* safe_list.c: every node that malloc() handed out is in the list or in    *)
(* the hands of a thread, and list_destroy() leaves none.                   *)
THEOREM NothingLeaks == ProgramSpec => []NoLeak
<1>1. ProgramInv => NoLeak
  BY ListSafe DEF ProgramInv, NoLeak
<1> QED
  BY ProgramAlways, <1>1, PTL

(* safe_list.c: main() finds the value it has inserted last, and does not   *)
(* find the one that nobody inserted, whatever the workers have done to the *)
(* list before.                                                             *)
THEOREM ChecksRight == ProgramSpec => []ChecksPass
<1>1. ProgramInv => ChecksPass
  BY MainChecks DEF ProgramInv, ChecksPass
<1> QED
  BY ProgramAlways, <1>1, PTL

(* safe_list.c: each call of an operation takes effect once before it       *)
(* returns, in one step, with the value its caller has passed, and a lookup *)
(* answers whether that value is in the list: the list of nodes implements  *)
(* the abstract list of values, for any number of workers and calls.        *)
THEOREM ListIsAtomic == ProgramSpec => ListBehaves
<1>1. ProgramInit => Abstract!Init
  <2>1. ASSUME program # "list", NoList PROVE Abstract!Init
    BY <2>1, Zenon DEF NoList, Abstract!Init
  <2>2. ASSUME program = "list", Linked!Init PROVE Abstract!Init
    <3>1. Linked!listBar = <<>> /\ Linked!callBar = [t \in Linked!Callers |-> <<>>]
      BY <2>2, ListInit DEF Thr
    <3> QED
      BY <2>2, <3>1, Zenon DEF Linked!Init, Abstract!Init
  <2>3. ProgramInit => \/ program # "list" /\ NoList
                       \/ program = "list" /\ Linked!Init
    BY DEF ProgramInit
  <2> QED
    BY <2>1, <2>2, <2>3
<1> QED
  BY <1>1, ProgramAlways, ProgramStep, ListBar, PTL
     DEF ProgramSpec, ListBehaves, Abstract!Spec
=============================================================================
