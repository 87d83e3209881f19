----------------------------- MODULE PacketSpec -----------------------------
(***************************************************************************)
(* What the packet receiver promises, in terms of whole frames: a frame    *)
(* begins with the two header bytes, has a fixed length, and is good when  *)
(* the sum of everything before its two trailer bytes is the number they   *)
(* spell, high byte first.                                                 *)
(***************************************************************************)
EXTENDS Integers, Sequences

CONSTANTS Radix, FrameLength, H1, H2, CountMod

VARIABLES
  frame,    \* the bytes of the frame being received
  updated,  \* a good frame has come since anyone asked
  good_packets,
  bad_packets

packetVars == <<frame, updated, good_packets, bad_packets>>

Byte == 0 .. (Radix - 1)

\* The sum of a sequence, by its partial sums.
Sum(s) ==
  LET upto[n \in 0 .. Len(s)] == IF n = 0 THEN 0 ELSE upto[n - 1] + s[n]
  IN  upto[Len(s)]

\* The frame is all there but for its last byte, c.
Good(c) ==
  Sum(SubSeq(frame, 1, FrameLength - 2)) = frame[FrameLength - 1] * Radix + c

Init ==
  /\ frame = <<>>
  /\ updated = FALSE
  /\ good_packets = 0
  /\ bad_packets = 0

Skip(c) ==
  /\ \/ frame = <<>> /\ c # H1
     \/ frame = <<H1>> /\ c # H2
  /\ frame' = <<>>
  /\ UNCHANGED <<updated, good_packets, bad_packets>>

Collect(c) ==
  /\ frame = <<>> => c = H1
  /\ frame = <<H1>> => c = H2
  /\ Len(frame) < FrameLength - 1
  /\ frame' = Append(frame, c)
  /\ UNCHANGED <<updated, good_packets, bad_packets>>

Complete(c) ==
  /\ Len(frame) = FrameLength - 1
  /\ frame' = <<>>
  /\ IF Good(c)
       THEN /\ updated' = TRUE
            /\ good_packets' = (good_packets + 1) % CountMod
            /\ UNCHANGED bad_packets
       ELSE /\ bad_packets' = (bad_packets + 1) % CountMod
            /\ UNCHANGED <<updated, good_packets>>

Ask ==
  /\ updated' = FALSE
  /\ UNCHANGED <<frame, good_packets, bad_packets>>

Next == Ask \/ \E c \in Byte : Skip(c) \/ Collect(c) \/ Complete(c)

Spec == Init /\ [][Next]_packetVars
=============================================================================
