------------------------------ MODULE ListSpec ------------------------------
(***************************************************************************)
(* What the list of week2/safe_list.c promises: an operation takes effect  *)
(* at once, at one moment between its call and its return, on the value    *)
(* its caller has passed.  SafeList is shown to implement this.            *)
(***************************************************************************)
EXTENDS SequencesExt

CONSTANTS Threads, Values

VARIABLES
  list,     (* the values, the last one inserted first                     *)
  call,     (* call[t]: <<op, v>>, what t has called and what has not yet  *)
            (* taken effect, or <<>>                                       *)
  answer    (* answer[t]: what list_contains() last told thread t          *)

vars == <<list, call, answer>>

Operations == {"insert", "contains", "remove", "destroy"}

Init ==
  /\ list = <<>>
  /\ call = [t \in Threads |-> <<>>]
  /\ answer = [t \in Threads |-> FALSE]

Call(t) ==
  /\ call[t] = <<>>
  /\ call'[t] \in Operations \X Values
  /\ call' = [call EXCEPT ![t] = call'[t]]
  /\ UNCHANGED <<list, answer>>

(* What t has called takes effect, and does so once. *)
TakesEffect(t) == call' = [call EXCEPT ![t] = <<>>]

list_insert(t) == \E v \in Values :
  /\ call[t] = <<"insert", v>> /\ TakesEffect(t)
  /\ list' = Cons(v, list) /\ UNCHANGED answer

list_contains(t) == \E v \in Values :
  /\ call[t] = <<"contains", v>> /\ TakesEffect(t)
  /\ answer' = [answer EXCEPT ![t] = Contains(list, v)] /\ UNCHANGED list

list_remove(t) == \E v \in Values :
  /\ call[t] = <<"remove", v>> /\ TakesEffect(t)
  /\ list' = RemoveFirst(list, v) /\ UNCHANGED answer

list_destroy(t) == \E v \in Values :
  /\ call[t] = <<"destroy", v>> /\ TakesEffect(t)
  /\ list' = <<>> /\ UNCHANGED answer

Next ==
  \E t \in Threads :
    \/ Call(t)
    \/ list_insert(t) \/ list_contains(t) \/ list_remove(t) \/ list_destroy(t)

Spec == Init /\ [][Next]_vars
=============================================================================
