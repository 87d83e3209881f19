------------------------------- MODULE Display -------------------------------
(***************************************************************************)
(* GUI and the decoder: UI::tick asks was_updated and makes its texts from *)
(* the image, with no lock, while Comms may be at any byte of the next     *)
(* packet.  GUI cannot be preempted by Comms (SerialPort!GUIFirst), so the *)
(* question and the reading are one step; and a call of decode it preempts *)
(* has either stored its byte or not.                                      *)
(***************************************************************************)
EXTENDS Decoder

VARIABLES
  last,      \* history: the image when the last frame was complete
  verified,  \* history: that frame was good
  texts      \* whether the texts were made from that image alone

displayVars == <<decodeVars, last, verified, texts>>

Image == <<ebl_mem, ebl_adc>>

DisplayInit ==
  /\ DecoderInit
  /\ last = Image
  /\ verified = FALSE
  /\ texts = "other"

\* The end of UI::tick.
RenewTexts ==
  /\ was_updated
  /\ texts' = IF Image = last THEN "last" ELSE "other"
  /\ UNCHANGED <<last, verified>>

\* A turn of the loop of Comms, with a byte from com_getc.
Decode ==
  /\ \E c \in Byte : decode(c)
  /\ IF state = "WAIT_C2"
       THEN /\ last' = Image
            /\ verified' = (good_packets' # good_packets)
            /\ texts' = "other"
       ELSE UNCHANGED <<last, verified, texts>>

DisplayNext == RenewTexts \/ Decode

\* GUI comes to the end of its tick again and again.
DisplaySpec ==
  DisplayInit /\ [][DisplayNext]_displayVars /\ WF_displayVars(RenewTexts)

-----------------------------------------------------------------------------
(***************************************************************************)
(* Properties                                                              *)
(***************************************************************************)

\* The texts mix two frames at most: what the frame in progress has not yet
\* delivered is as the last complete frame, good or bad, left it.
RestOfLastFrame ==
  /\ \A i \in HaveMem .. (MemSize - 1) : ebl_mem[i] = last[1][i]
  /\ \A w \in 0 .. (AdcChannels - 1) :
       HaveAdc <= 2 * w => ebl_adc[w] = last[2][w]

\* A good packet is shown as it is, whatever comes between packets, unless
\* the payload of another begins before GUI looks.
GoodPacketIsShown ==
  (updated /\ verified /\ state = "WAIT_H1") ~> (texts = "last" \/ HaveMem > 0)
=============================================================================
