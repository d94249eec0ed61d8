-------------------------------- MODULE Bank --------------------------------
(***************************************************************************)
(* week2/bank_chaos_fixed.c: customers withdraw from one account; the      *)
(* check of the balance and the withdrawal are under one lock.             *)
(***************************************************************************)
EXTENDS Integers, FiniteSetsExt

CONSTANTS
  Customers,
  ATTEMPTS,   (* ATTEMPTS_PER_CUSTOMER                                   *)
  AMOUNT,     (* WITHDRAWAL_AMOUNT                                       *)
  Balances,   (* the balances an account may start with: one is chosen   *)
  None        (* the owner of a free lock                                *)

BankAssumption ==
  /\ ATTEMPTS \in Nat \ {0} /\ AMOUNT \in Nat \ {0}
  /\ Balances \subseteq Nat
  /\ IsFiniteSet(Customers) /\ None \notin Customers

VARIABLES
  opening,               (* the balance the account started with          *)
  balance, lock,
  pc, i,                 (* each customer's control point and loop counter *)
  successful, rejected   (* each customer's counts                        *)

vars == <<opening, balance, lock, pc, i, successful, rejected>>

Init ==
  /\ opening \in Balances
  /\ balance = opening
  /\ lock = None
  /\ pc = [c \in Customers |-> "lock"]
  /\ i = [c \in Customers |-> 0]
  /\ successful = [c \in Customers |-> 0]
  /\ rejected = [c \in Customers |-> 0]

(* Mutant: the lock excludes nobody. *)
Lock_Shared(c) ==
  /\ pc[c] = "lock"
  /\ lock' = c
  /\ pc' = [pc EXCEPT ![c] = "check"]
  /\ UNCHANGED <<opening, balance, i, successful, rejected>>

Lock(c) ==
  /\ pc[c] = "lock"
  /\ lock = None
  /\ lock' = c
  /\ pc' = [pc EXCEPT ![c] = "check"]
  /\ UNCHANGED <<opening, balance, i, successful, rejected>>

(* The attempt is over: unlock, and on to the next one. *)
Unlock(c) ==
  /\ lock' = None
  /\ i' = [i EXCEPT ![c] = @ + 1]
  /\ pc' = [pc EXCEPT ![c] = IF i[c] + 1 < ATTEMPTS THEN "lock" ELSE "done"]
  /\ UNCHANGED opening

CheckEnough(c) ==
  /\ pc[c] = "check"
  /\ balance >= AMOUNT
  /\ pc' = [pc EXCEPT ![c] = "withdraw"]
  /\ UNCHANGED <<opening, balance, lock, i, successful, rejected>>

(* Mutant: the comparison is off by one. *)
Reject_LastDollar(c) ==
  /\ pc[c] = "check"
  /\ balance <= AMOUNT
  /\ rejected' = [rejected EXCEPT ![c] = @ + 1]
  /\ Unlock(c)
  /\ UNCHANGED <<balance, successful>>

Reject(c) ==
  /\ pc[c] = "check"
  /\ balance < AMOUNT
  /\ rejected' = [rejected EXCEPT ![c] = @ + 1]
  /\ Unlock(c)
  /\ UNCHANGED <<balance, successful>>

Withdraw(c) ==
  /\ pc[c] = "withdraw"
  /\ balance' = balance - AMOUNT
  /\ successful' = [successful EXCEPT ![c] = @ + 1]
  /\ Unlock(c)
  /\ UNCHANGED rejected

Next ==
  \E c \in Customers : Lock(c) \/ CheckEnough(c) \/ Reject(c) \/ Withdraw(c)

Spec == Init /\ [][Next]_vars
-----------------------------------------------------------------------------
Total(f) == MapThenSumSet(LAMBDA c : f[c], Customers)

(* The account is never overdrawn: no customer withdraws what another one   *)
(* has taken since the balance was checked.  And the books agree at all     *)
(* times: what is gone from the account has been counted as successful, and *)
(* an attempt is rejected only once the rest is too small for anybody.      *)
BooksAgree ==
  /\ balance >= 0
  /\ balance + AMOUNT * Total(successful) = opening
  /\ (\E c \in Customers : rejected[c] > 0) => balance < AMOUNT
=============================================================================
