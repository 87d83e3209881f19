------------------------------ MODULE LossyFifo ------------------------------
(***************************************************************************)
(* A bounded queue between a producer that cannot be held up and a         *)
(* consumer that can: what is put in comes out once and in order, except   *)
(* what arrives while the queue is full.                                   *)
(***************************************************************************)
EXTENDS Naturals, Sequences

CONSTANTS Data, Capacity

VARIABLES
  q,        \* what is queued, oldest first
  arrived,  \* what arrived last, whether it was queued or not
  out       \* what was taken last

fifoVars == <<q, arrived, out>>

Init ==
  /\ q = <<>>
  /\ arrived \in Data
  /\ out \in Data

Put(d) ==
  /\ arrived' = d
  /\ q' = IF Len(q) < Capacity THEN Append(q, d) ELSE q
  /\ UNCHANGED out

Get ==
  /\ q # <<>>
  /\ out' = Head(q)
  /\ q' = Tail(q)
  /\ UNCHANGED arrived

Next == Get \/ \E d \in Data : Put(d)

Spec == Init /\ [][Next]_fifoVars
=============================================================================
