------------------------------ MODULE Channel ------------------------------
(***************************************************************************)
(* What a bounded buffer promises: items come out in the order in which    *)
(* they went in, none lost and none twice, and at most Capacity of them    *)
(* are inside.  CondBuffer and SemBuffer are shown to implement this.      *)
(***************************************************************************)
EXTENDS Naturals, Sequences

CONSTANTS
  Items,     (* what can be put              *)
  Capacity   (* how many items fit in        *)

VARIABLES
  sent,      (* all items put so far, in order   *)
  received   (* all items taken so far, in order *)

vars == <<sent, received>>

Init == sent = <<>> /\ received = <<>>

Put(x) ==
  /\ Len(sent) - Len(received) < Capacity
  /\ sent' = Append(sent, x)
  /\ UNCHANGED received

Get ==
  /\ Len(received) < Len(sent)
  /\ received' = Append(received, sent[Len(received) + 1])
  /\ UNCHANGED sent

Next == Get \/ \E x \in Items : Put(x)

Spec == Init /\ [][Next]_vars
=============================================================================
