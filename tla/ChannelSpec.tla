---------------------------- MODULE ChannelSpec ----------------------------
(***************************************************************************)
(* What a channel promises: a bounded queue with two ends.  A batch that   *)
(* is written goes in whole and in order, or not at all yet; what is read  *)
(* is what the queue held at that end.  Who goes next is left open.        *)
(***************************************************************************)
EXTENDS Naturals, Sequences

CONSTANTS
  Bound,  \* how many items the channel holds
  Batch   \* the sequences of items that are put in at once

VARIABLES
  q,   \* the items, front first
  got  \* the items the last reader took

channelVars == <<q, got>>

Init == q = << >> /\ got = << >>

PutBack(data) ==
  /\ Len(q) + Len(data) <= Bound
  /\ q' = q \o data
  /\ UNCHANGED got

PutFront(data) ==
  /\ Len(q) + Len(data) <= Bound
  /\ q' = data \o q
  /\ UNCHANGED got

TakeFront(n) ==
  /\ n <= Len(q)
  /\ got' = SubSeq(q, 1, n)
  /\ q' = SubSeq(q, n + 1, Len(q))

TakeBack ==
  /\ q # << >>
  /\ got' = <<q[Len(q)]>>
  /\ q' = SubSeq(q, 1, Len(q) - 1)

Flush == q' = << >> /\ UNCHANGED got

Next ==
  \/ \E data \in Batch : PutBack(data) \/ PutFront(data)
  \/ \E n \in 1 .. Bound : TakeFront(n)
  \/ TakeBack
  \/ Flush

Spec == Init /\ [][Next]_channelVars
=============================================================================
