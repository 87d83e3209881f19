------------------------------- MODULE Decoder -------------------------------
(***************************************************************************)
(* EBL::decode and EBL::was_updated (src/ebl.cpp): the state machine that  *)
(* takes the ECU's packets apart byte by byte (format in ebl_format.txt).  *)
(* Comms calls decode for every byte it takes from the serial port; GUI    *)
(* calls was_updated, and as GUI outranks Comms neither call is cut by the *)
(* other in a way the other could see.                                     *)
(*                                                                         *)
(* rx_count, which is only printed, is left out.                           *)
(***************************************************************************)
EXTENDS Integers, Sequences

CONSTANTS
  Radix,        \* values of a byte: 256
  MemSize,      \* bytes of the memory dump: 256
  AdcChannels,  \* words of the ADC payload: 8
  H1, H2,       \* the header bytes: 0x55, 0xaa
  SumMod,       \* running_sum is an unsigned: 2^32
  CountMod      \* the statistics are unsigned, too; bounded apart for TLC

Byte == 0 .. (Radix - 1)
Word == 0 .. (Radix * Radix - 1)  \* uint16_t
AdcBytes == 2 * AdcChannels

\* The unsigned type holds the sum of a packet and any trailer.
ASSUME DecoderAssumption ==
  /\ Radix \in Nat \ {0}
  /\ MemSize \in Nat \ {0}
  /\ AdcChannels \in Nat \ {0}
  /\ H1 \in Byte /\ H2 \in Byte /\ H1 # H2
  /\ SumMod \in Nat \ {0}
  /\ SumMod > (MemSize + AdcBytes + 3) * (Radix - 1)
  /\ SumMod >= Radix * Radix
  /\ CountMod \in Nat \ {0}

VARIABLES
  state, running_sum, field_index,  \* the static locals of decode
  ebl_mem, ebl_adc, updated,
  good_packets, bad_packets,
  frame  \* history: the bytes taken since the header began

imageVars == <<ebl_mem, ebl_adc>>
statVars == <<updated, good_packets, bad_packets>>
decodeVars == <<state, running_sum, field_index, imageVars, statVars, frame>>

DecodeState ==
  {"WAIT_H1", "WAIT_H2", "ARRAY", "STATUS", "ADC", "WAIT_C1", "WAIT_C2"}

DecoderTypeOK ==
  /\ state \in DecodeState
  /\ running_sum \in 0 .. (SumMod - 1)
  /\ field_index \in Nat
  /\ ebl_mem \in [0 .. (MemSize - 1) -> Byte]
  /\ ebl_adc \in [0 .. (AdcChannels - 1) -> Word]
  /\ updated \in BOOLEAN
  /\ good_packets \in 0 .. (CountMod - 1)
  /\ bad_packets \in 0 .. (CountMod - 1)
  /\ frame \in Seq(Byte)

DecoderInit ==
  /\ state = "WAIT_H1"
  /\ running_sum = 0
  /\ field_index = 0
  /\ ebl_mem = [i \in 0 .. (MemSize - 1) |-> 0]
  /\ ebl_adc = [i \in 0 .. (AdcChannels - 1) |-> 0]
  /\ updated = FALSE
  /\ good_packets = 0
  /\ bad_packets = 0
  /\ frame = <<>>

-----------------------------------------------------------------------------
(***************************************************************************)
(* decode(c), one action per case of its switch                            *)
(***************************************************************************)

\* running_sum += c, the first thing decode does.
Added(c) == (running_sum + c) % SumMod

\* Mutant: a new header takes back the news of the last packet.
Header1_ClearsUpdated(c) ==
  /\ state = "WAIT_H1"
  /\ IF c = H1
       THEN /\ state' = "WAIT_H2"
            /\ running_sum' = c
            /\ frame' = <<c>>
            /\ updated' = FALSE
       ELSE /\ running_sum' = Added(c)
            /\ UNCHANGED <<state, frame, updated>>
  /\ UNCHANGED <<field_index, imageVars, good_packets, bad_packets>>

Header1(c) ==
  /\ state = "WAIT_H1"
  /\ IF c = H1
       THEN /\ state' = "WAIT_H2"
            /\ running_sum' = c
            /\ frame' = <<c>>
       ELSE /\ running_sum' = Added(c)
            /\ UNCHANGED <<state, frame>>
  /\ UNCHANGED <<field_index, imageVars, statVars>>

\* Mutant: the index is not reset for the array.
Header2_KeepsIndex(c) ==
  /\ state = "WAIT_H2"
  /\ running_sum' = Added(c)
  /\ IF c = H2
       THEN state' = "ARRAY" /\ frame' = Append(frame, c)
       ELSE state' = "WAIT_H1" /\ frame' = <<>>
  /\ UNCHANGED <<field_index, imageVars, statVars>>

Header2(c) ==
  /\ state = "WAIT_H2"
  /\ running_sum' = Added(c)
  /\ IF c = H2
       THEN /\ state' = "ARRAY"
            /\ field_index' = 0
            /\ frame' = Append(frame, c)
       ELSE /\ state' = "WAIT_H1"
            /\ frame' = <<>>
            /\ UNCHANGED field_index
  /\ UNCHANGED <<imageVars, statVars>>

\* Mutant: the index is counted up before the byte is stored.
Array_CountsFirst(c) ==
  /\ state = "ARRAY"
  /\ running_sum' = Added(c)
  /\ field_index' = field_index + 1
  /\ ebl_mem' = [ebl_mem EXCEPT ![field_index'] = c]
  /\ state' = IF field_index' = MemSize THEN "STATUS" ELSE "ARRAY"
  /\ frame' = Append(frame, c)
  /\ UNCHANGED <<ebl_adc, statVars>>

Array(c) ==
  /\ state = "ARRAY"
  /\ running_sum' = Added(c)
  /\ ebl_mem' = [ebl_mem EXCEPT ![field_index] = c]
  /\ field_index' = field_index + 1
  /\ state' = IF field_index' = MemSize THEN "STATUS" ELSE "ARRAY"
  /\ frame' = Append(frame, c)
  /\ UNCHANGED <<ebl_adc, statVars>>

\* The status byte itself is discarded.
Status(c) ==
  /\ state = "STATUS"
  /\ running_sum' = Added(c)
  /\ state' = "ADC"
  /\ field_index' = 0
  /\ frame' = Append(frame, c)
  /\ UNCHANGED <<imageVars, statVars>>

\* Mutant: the second byte of a word replaces the first.
Adc_Replaces(c) ==
  LET word == field_index \div 2 IN
  /\ state = "ADC"
  /\ running_sum' = Added(c)
  /\ ebl_adc' = [ebl_adc EXCEPT ![word] =
                   IF field_index % 2 = 0 THEN c ELSE c * Radix]
  /\ field_index' = field_index + 1
  /\ state' = IF field_index' = AdcBytes THEN "WAIT_C1" ELSE "ADC"
  /\ frame' = Append(frame, c)
  /\ UNCHANGED <<ebl_mem, statVars>>

\* Mutant: both halves are added, into an int, and nothing restarts the word.
Adc_Accumulates(c) ==
  LET word == field_index \div 2 IN
  /\ state = "ADC"
  /\ running_sum' = Added(c)
  /\ ebl_adc' = [ebl_adc EXCEPT ![word] =
                   @ + IF field_index % 2 = 0 THEN c ELSE c * Radix]
  /\ field_index' = field_index + 1
  /\ state' = IF field_index' = AdcBytes THEN "WAIT_C1" ELSE "ADC"
  /\ frame' = Append(frame, c)
  /\ UNCHANGED <<ebl_mem, statVars>>

\* ebl_adc is an array of 16-bit words.
Adc(c) ==
  LET word == field_index \div 2 IN
  /\ state = "ADC"
  /\ running_sum' = Added(c)
  /\ ebl_adc' = [ebl_adc EXCEPT ![word] =
                   IF field_index % 2 = 0
                     THEN c
                     ELSE (@ + c * Radix) % (Radix * Radix)]
  /\ field_index' = field_index + 1
  /\ state' = IF field_index' = AdcBytes THEN "WAIT_C1" ELSE "ADC"
  /\ frame' = Append(frame, c)
  /\ UNCHANGED <<ebl_mem, statVars>>

\* Mutant: the trailer byte itself is left in the sum.
Trailer1_KeepsByte(c) ==
  /\ state = "WAIT_C1"
  /\ running_sum' = (Added(c) - c * Radix) % SumMod
  /\ state' = "WAIT_C2"
  /\ frame' = Append(frame, c)
  /\ UNCHANGED <<field_index, imageVars, statVars>>

Trailer1(c) ==
  /\ state = "WAIT_C1"
  /\ running_sum' = (Added(c) - c - c * Radix) % SumMod
  /\ state' = "WAIT_C2"
  /\ frame' = Append(frame, c)
  /\ UNCHANGED <<field_index, imageVars, statVars>>

Trailer2(c) ==
  /\ state = "WAIT_C2"
  /\ running_sum' = (Added(c) - c) % SumMod
  /\ IF running_sum' = c
       THEN /\ updated' = TRUE
            /\ good_packets' = (good_packets + 1) % CountMod
            /\ UNCHANGED bad_packets
       ELSE /\ bad_packets' = (bad_packets + 1) % CountMod
            /\ UNCHANGED <<updated, good_packets>>
  /\ state' = "WAIT_H1"
  /\ frame' = <<>>
  /\ UNCHANGED <<field_index, imageVars>>

decode(c) ==
  \/ Header1(c)
  \/ Header2(c)
  \/ Array(c)
  \/ Status(c)
  \/ Adc(c)
  \/ Trailer1(c)
  \/ Trailer2(c)

\* was_updated() finds the flag up; if it is down, nothing changes.
was_updated ==
  /\ updated
  /\ updated' = FALSE
  /\ UNCHANGED <<state, running_sum, field_index, imageVars, good_packets,
                 bad_packets, frame>>

DecoderNext == was_updated \/ \E c \in Byte : decode(c)

DecoderSpec == DecoderInit /\ [][DecoderNext]_decodeVars

-----------------------------------------------------------------------------
(***************************************************************************)
(* Properties                                                              *)
(***************************************************************************)

\* The two arrays are only ever stored to inside their bounds, whatever bytes
\* the line delivers.
IndexInBounds ==
  /\ state = "ARRAY" => field_index \in 0 .. (MemSize - 1)
  /\ state = "ADC" => field_index \in 0 .. (AdcBytes - 1)

\* Where the payload of the frame begins.
MemOffset == 2
AdcOffset == 2 + MemSize + 1

\* Bytes of the array, and of the ADC payload, the frame already holds.
HaveMem == CASE state = "ARRAY" -> field_index
             [] state \in {"STATUS", "ADC", "WAIT_C1", "WAIT_C2"} -> MemSize
             [] OTHER -> 0
HaveAdc == CASE state = "ADC" -> field_index
             [] state \in {"WAIT_C1", "WAIT_C2"} -> AdcBytes
             [] OTHER -> 0

MemOfFrame ==
  \A i \in 0 .. (HaveMem - 1) : ebl_mem[i] = frame[MemOffset + i + 1]

AdcOfFrame ==
  \A w \in 0 .. (AdcChannels - 1) :
    LET low == AdcOffset + 2 * w + 1 IN
    /\ 2 * w + 1 = HaveAdc => ebl_adc[w] = frame[low]
    /\ 2 * w + 1 < HaveAdc => ebl_adc[w] = frame[low] + frame[low + 1] * Radix

\* What GUI finds if it looks in the middle of a packet: all that the frame
\* has delivered is in place, each byte at its address and each word whole,
\* but for the word whose second byte is still to come, which holds only its
\* low byte.
ImageOfFrame == MemOfFrame /\ AdcOfFrame

\* The byte-wise machine with its running sum, which takes the trailer out
\* again modulo 2^32, accepts exactly the frames whose checksum is right.
Packet == INSTANCE PacketSpec WITH
  FrameLength <- AdcOffset + AdcBytes + 2

ImplementsPacket == Packet!Spec

\* What ebl_format.txt says of the packet, "Data values are big-endian".
AdcBigEndian ==
  \A w \in 0 .. (AdcChannels - 1) :
    LET first == AdcOffset + 2 * w + 1 IN
    state \in {"WAIT_C1", "WAIT_C2"} =>
      ebl_adc[w] = frame[first] * Radix + frame[first + 1]
=============================================================================
