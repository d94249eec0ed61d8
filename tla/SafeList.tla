------------------------------ MODULE SafeList ------------------------------
(***************************************************************************)
(* week2/safe_list.c: a linked list of malloc()ed nodes under one coarse   *)
(* lock, worker threads that insert, look up and remove values, and a main *)
(* thread that joins them, checks the list and destroys it.                *)
(***************************************************************************)
EXTENDS Integers, FiniteSets

CONSTANTS
  Workers, main,   (* the threads                                          *)
  OPS,             (* how many operations each worker performs             *)
  Nodes,           (* addresses malloc() may return; enough for all calls  *)
  Values,          (* the values workers use                               *)
  Fresh, Absent,   (* the values main checks with: 42, and 150, which no   *)
                   (* worker inserts                                       *)
  NULL             (* also the owner of a free lock                        *)

Callers == Workers \cup {main}
AllValues == Values \cup {Fresh, Absent}

ListAssumption ==
  /\ IsFiniteSet(Workers) /\ main \notin Workers
  /\ OPS \in Nat
  /\ IsFiniteSet(Nodes) /\ Cardinality(Nodes) > Cardinality(Workers) * OPS
  /\ Absent \notin Values \cup {Fresh}
  /\ NULL \notin Nodes \cup Callers

VARIABLES
  head, value, next,   (* the list and the fields of its nodes             *)
  allocated,           (* the nodes malloc() has handed out                *)
  lock,                (* the thread that holds list.lock                  *)
  pc, i,               (* each thread's control point and loop counter     *)
  val, curr, prev,     (* its argument and its pointers into the list      *)
  answer               (* what list_contains() last told it                *)

heapVars == <<head, value, next, allocated>>
vars == <<heapVars, lock, pc, i, val, curr, prev, answer>>

Idle == {"call", "join", "done"}
AtLock == {"insert", "contains", "remove", "destroy"}
Locked == {"link", "publish", "search", "hunt", "free", "drain"}

Init ==
  /\ head = NULL
  /\ value = [n \in Nodes |-> Absent]
  /\ next = [n \in Nodes |-> NULL]
  /\ allocated = {}
  /\ lock = NULL
  /\ pc = [t \in Callers |-> IF t = main THEN "join" ELSE "call"]
  /\ i = [t \in Callers |-> 0]
  /\ val = [t \in Callers |-> Absent]
  /\ curr = [t \in Callers |-> NULL]
  /\ prev = [t \in Callers |-> NULL]
  /\ answer = [t \in Callers |-> FALSE]

Goto(t, l) == pc' = [pc EXCEPT ![t] = l]

-----------------------------------------------------------------------------
(* Calls.  list_insert() allocates and fills its node before it locks; the *)
(* other operations lock at once.  malloc() finds a node: list_insert()    *)
(* uses the result unseen, and a NULL would end the program.               *)

CallInsert(t, v) ==
  \E n \in Nodes \ allocated :
    /\ allocated' = allocated \cup {n}
    /\ value' = [value EXCEPT ![n] = v]
    /\ curr' = [curr EXCEPT ![t] = n]
    /\ val' = [val EXCEPT ![t] = v]
    /\ Goto(t, "insert")
    /\ UNCHANGED <<head, next, lock, i, prev, answer>>

CallOther(t, op, v) ==
  /\ val' = [val EXCEPT ![t] = v]
  /\ Goto(t, op)
  /\ UNCHANGED <<heapVars, lock, i, curr, prev, answer>>

(* worker_thread() picks an operation and a value at random. *)
Worker(t) ==
  /\ pc[t] = "call"
  /\ i[t] < OPS
  /\ \E v \in Values :
       CallInsert(t, v) \/ CallOther(t, "contains", v) \/ CallOther(t, "remove", v)

WorkerDone(t) ==
  /\ pc[t] = "call"
  /\ i[t] = OPS
  /\ Goto(t, "done")
  /\ UNCHANGED <<heapVars, lock, i, val, curr, prev, answer>>

(* main() joins the workers, inserts 42, looks up 42 and 150, and destroys *)
(* the list.                                                               *)
Main ==
  /\ pc[main] = "join"
  /\ \A t \in Workers : pc[t] = "done"
  /\ \/ i[main] = 0 /\ CallInsert(main, Fresh)
     \/ i[main] = 1 /\ CallOther(main, "contains", Fresh)
     \/ i[main] = 2 /\ CallOther(main, "contains", Absent)
     \/ i[main] = 3 /\ CallOther(main, "destroy", Absent)

(* An operation unlocks and returns. *)
UnlockReturn(t) ==
  /\ lock' = NULL
  /\ curr' = [curr EXCEPT ![t] = NULL]
  /\ prev' = [prev EXCEPT ![t] = NULL]
  /\ i' = [i EXCEPT ![t] = @ + 1]
  /\ Goto(t, IF t = main THEN (IF pc[t] = "drain" THEN "done" ELSE "join")
                         ELSE "call")
  /\ UNCHANGED val

-----------------------------------------------------------------------------
(* list_insert() *)

Lock(t, op, l) ==
  /\ pc[t] = op
  /\ lock = NULL
  /\ lock' = t
  /\ Goto(t, l)
  /\ UNCHANGED <<heapVars, i, val, prev, answer>>

(* Mutant: list_insert() links its node without the lock. *)
InsertLock_NoLock(t) ==
  /\ pc[t] = "insert"
  /\ Goto(t, "link")
  /\ UNCHANGED <<heapVars, lock, i, val, curr, prev, answer>>

InsertLock(t) == Lock(t, "insert", "link") /\ UNCHANGED curr

InsertLink(t) ==
  /\ pc[t] = "link"
  /\ next' = [next EXCEPT ![curr[t]] = head]
  /\ Goto(t, "publish")
  /\ UNCHANGED <<head, value, allocated, lock, i, val, curr, prev, answer>>

InsertPublish(t) ==
  /\ pc[t] = "publish"
  /\ head' = curr[t]
  /\ UnlockReturn(t)
  /\ UNCHANGED <<value, next, allocated, answer>>

-----------------------------------------------------------------------------
(* list_contains() *)

LockAtHead(t, op, l) == Lock(t, op, l) /\ curr' = [curr EXCEPT ![t] = head]

(* Mutant: list_contains() walks the list without the lock. *)
ContainsLock_NoLock(t) ==
  /\ pc[t] = "contains"
  /\ curr' = [curr EXCEPT ![t] = head]
  /\ Goto(t, "search")
  /\ UNCHANGED <<heapVars, lock, i, val, prev, answer>>

ContainsLock(t) == LockAtHead(t, "contains", "search")

ContainsNext(t) ==
  /\ pc[t] = "search"
  /\ curr[t] # NULL
  /\ value[curr[t]] # val[t]
  /\ curr' = [curr EXCEPT ![t] = next[curr[t]]]
  /\ UNCHANGED <<heapVars, lock, pc, i, val, prev, answer>>

(* Mutant: the early return leaves the list locked. *)
ContainsFound_KeepsLock(t) ==
  /\ pc[t] = "search"
  /\ curr[t] # NULL
  /\ value[curr[t]] = val[t]
  /\ answer' = [answer EXCEPT ![t] = TRUE]
  /\ curr' = [curr EXCEPT ![t] = NULL]
  /\ i' = [i EXCEPT ![t] = @ + 1]
  /\ Goto(t, IF t = main THEN "join" ELSE "call")
  /\ UNCHANGED <<heapVars, lock, val, prev>>

(* Mutant: "=" for "==", any node is taken for the one looked for. *)
ContainsFound_Any(t) ==
  /\ pc[t] = "search"
  /\ curr[t] # NULL
  /\ answer' = [answer EXCEPT ![t] = TRUE]
  /\ UnlockReturn(t)
  /\ UNCHANGED heapVars

ContainsFound(t) ==
  /\ pc[t] = "search"
  /\ curr[t] # NULL
  /\ value[curr[t]] = val[t]
  /\ answer' = [answer EXCEPT ![t] = TRUE]
  /\ UnlockReturn(t)
  /\ UNCHANGED heapVars

ContainsNot(t) ==
  /\ pc[t] = "search"
  /\ curr[t] = NULL
  /\ answer' = [answer EXCEPT ![t] = FALSE]
  /\ UnlockReturn(t)
  /\ UNCHANGED heapVars

-----------------------------------------------------------------------------
(* list_remove() *)

RemoveLock(t) == LockAtHead(t, "remove", "hunt")

RemoveNext(t) ==
  /\ pc[t] = "hunt"
  /\ curr[t] # NULL
  /\ value[curr[t]] # val[t]
  /\ prev' = [prev EXCEPT ![t] = curr[t]]
  /\ curr' = [curr EXCEPT ![t] = next[curr[t]]]
  /\ UNCHANGED <<heapVars, lock, pc, i, val, answer>>

RemoveNot(t) ==
  /\ pc[t] = "hunt"
  /\ curr[t] = NULL
  /\ UnlockReturn(t)
  /\ UNCHANGED <<heapVars, answer>>

RemoveUnlink(t) ==
  /\ pc[t] = "hunt"
  /\ curr[t] # NULL
  /\ value[curr[t]] = val[t]
  /\ IF prev[t] = NULL
       THEN head' = next[curr[t]] /\ UNCHANGED next
       ELSE next' = [next EXCEPT ![prev[t]] = next[curr[t]]] /\ UNCHANGED head
  /\ Goto(t, "free")
  /\ UNCHANGED <<value, allocated, lock, i, val, curr, prev, answer>>

RemoveFree(t) ==
  /\ pc[t] = "free"
  /\ allocated' = allocated \ {curr[t]}
  /\ UnlockReturn(t)
  /\ UNCHANGED <<head, value, next, answer>>

-----------------------------------------------------------------------------
(* list_destroy() *)

DestroyLock(t) == LockAtHead(t, "destroy", "drain")

(* Mutant: every other node is passed over, not freed. *)
DestroyNode_Leaks(t) ==
  /\ pc[t] = "drain"
  /\ curr[t] # NULL
  /\ curr' = [curr EXCEPT ![t] = IF next[@] = NULL THEN NULL ELSE next[next[@]]]
  /\ allocated' = allocated \ {curr[t]}
  /\ UNCHANGED <<head, value, next, lock, pc, i, val, prev, answer>>

DestroyNode(t) ==
  /\ pc[t] = "drain"
  /\ curr[t] # NULL
  /\ curr' = [curr EXCEPT ![t] = next[@]]
  /\ allocated' = allocated \ {curr[t]}
  /\ UNCHANGED <<head, value, next, lock, pc, i, val, prev, answer>>

DestroyEnd(t) ==
  /\ pc[t] = "drain"
  /\ curr[t] = NULL
  /\ head' = NULL
  /\ UnlockReturn(t)
  /\ UNCHANGED <<value, next, allocated, answer>>

-----------------------------------------------------------------------------
Operation(t) ==
  \/ InsertLock(t) \/ InsertLink(t) \/ InsertPublish(t)
  \/ ContainsLock(t) \/ ContainsNext(t) \/ ContainsFound(t) \/ ContainsNot(t)
  \/ RemoveLock(t) \/ RemoveNext(t) \/ RemoveNot(t) \/ RemoveUnlink(t)
  \/ RemoveFree(t)
  \/ DestroyLock(t) \/ DestroyNode(t) \/ DestroyEnd(t)

Next ==
  \/ Main
  \/ \E t \in Workers : Worker(t) \/ WorkerDone(t)
  \/ \E t \in Callers : Operation(t)

Spec == Init /\ [][Next]_vars
-----------------------------------------------------------------------------
(* Where the list begins; list_destroy() takes it along as it frees it.     *)
Begin == IF pc[main] = "drain" THEN curr[main] ELSE head

(* Path[k] is the node k steps behind the first, or NULL. *)
Path[k \in 0 .. Cardinality(Nodes)] ==
  IF k = 0 THEN Begin
  ELSE LET n == Path[k - 1] IN IF n = NULL THEN NULL ELSE next[n]

Reachable == {Path[k] : k \in DOMAIN Path} \ {NULL}

(* The list ends: it has no cycle. *)
Acyclic == Path[Cardinality(Nodes)] = NULL

(* What the list holds; list_destroy() empties it when it takes the lock. *)
listBar ==
  IF pc[main] \in {"drain", "done"} THEN <<>>
  ELSE [k \in 1 .. Cardinality(Reachable) |-> value[Path[k - 1]]]

(* What t has called and what has not yet taken effect: list_insert() does  *)
(* when it publishes its node, list_remove() when it unlinks one,           *)
(* list_destroy() when it takes the lock, a walk that changes nothing at    *)
(* its end.                                                                 *)
Pending(t) ==
  CASE pc[t] \in {"insert", "link", "publish"} -> <<"insert", val[t]>>
    [] pc[t] \in {"contains", "search"} -> <<"contains", val[t]>>
    [] pc[t] \in {"remove", "hunt"} -> <<"remove", val[t]>>
    [] pc[t] = "destroy" -> <<"destroy", val[t]>>
    [] OTHER -> <<>>

callBar == [t \in Callers |-> Pending(t)]

(* What main() prints: once the workers are done, the 42 it has just        *)
(* inserted is found, whatever they have left behind, and the 150 that      *)
(* nobody inserted is not.                                                  *)
ChecksPass ==
  /\ i[main] = 2 => answer[main]
  /\ i[main] \in {3, 4} => ~answer[main]

(* No thread follows a dangling pointer: what a walk stands on, and every   *)
(* node of the list, has been allocated and not been freed.                 *)
NoDangling ==
  /\ Reachable \subseteq allocated /\ Acyclic
  /\ \A t \in Callers :
       /\ pc[t] \in {"search", "hunt", "free", "drain"} =>
            curr[t] \in allocated \cup {NULL}
       /\ pc[t] = "hunt" => prev[t] \in allocated \cup {NULL}

(* No node leaks: what is allocated is in the list or in the hands of a     *)
(* thread, and nothing is left at the end.                                  *)
NoLeak ==
  allocated \subseteq
    CASE pc[main] = "done" -> {}
      [] pc[main] = "drain" -> Reachable
      [] OTHER -> Reachable \cup {curr[t] : t \in Callers}
=============================================================================
