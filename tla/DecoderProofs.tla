---------------------------- MODULE DecoderProofs ----------------------------
(***************************************************************************)
(* Proofs about Decoder, and about Display on it, for packets of any size  *)
(* and bytes of any width: the image of the frame, and that the machine    *)
(* implements PacketSpec.                                                  *)
(***************************************************************************)
EXTENDS Display, TLAPS, NaturalsInduction, WellFoundedInduction

\* How much of the frame each state of the machine stands for.
FrameLengthExact ==
  Len(frame) =
    CASE state = "WAIT_H1" -> 0
      [] state = "WAIT_H2" -> 1
      [] state = "ARRAY"   -> MemOffset + field_index
      [] state = "STATUS"  -> MemOffset + MemSize
      [] state = "ADC"     -> AdcOffset + field_index
      [] state = "WAIT_C1" -> AdcOffset + AdcBytes
      [] state = "WAIT_C2" -> AdcOffset + AdcBytes + 1

DInv ==
  /\ DecoderTypeOK
  /\ IndexInBounds
  /\ FrameLengthExact
  /\ ImageOfFrame

-----------------------------------------------------------------------------
(***************************************************************************)
(* Arithmetic                                                              *)
(***************************************************************************)

\* The range of a remainder.
LEMMA ModRange ==
  ASSUME NEW x \in Int, NEW m \in Nat \ {0}
  PROVE  x % m \in 0 .. (m - 1)
OBVIOUS

\* A number below the modulus is its own remainder.
LEMMA ModSmall ==
  ASSUME NEW m \in Nat \ {0}, NEW x \in 0 .. (m - 1)
  PROVE  x % m = x
OBVIOUS

\* A quotient and a remainder in range are the only ones.
LEMMA ModIs ==
  ASSUME NEW x \in Int, NEW m \in Nat \ {0}, NEW q \in Int, NEW r \in 0 .. (m - 1),
         x = q * m + r
  PROVE  x % m = r
OBVIOUS

\* The modulus once more or less makes no difference to the remainder.
LEMMA ModOnce ==
  ASSUME NEW m \in Nat \ {0}, NEW x \in Int
  PROVE  (x + m) % m = x % m /\ (x - m) % m = x % m
<1> DEFINE r == x % m
           q == x \div m
<1>1. q \in Int /\ r \in 0 .. (m - 1) /\ x = q * m + r
  OBVIOUS
<1> HIDE DEF q, r
<1>2. /\ x + m \in Int /\ q + 1 \in Int /\ x + m = (q + 1) * m + r
      /\ x - m \in Int /\ q - 1 \in Int /\ x - m = (q - 1) * m + r
  BY <1>1
<1>3. (x + m) % m = r
  BY <1>1, <1>2, ModIs
<1>4. (x - m) % m = r
  BY <1>1, <1>2, ModIs
<1>5. QED
  BY <1>3, <1>4 DEF r

\* A byte added modulo the unsigned type and taken back, with more, modulo it.
LEMMA AddedAndTaken ==
  ASSUME NEW m \in Nat \ {0}, NEW x \in 0 .. (m - 1), NEW c \in 0 .. (m - 1),
         NEW d \in Int
  PROVE  (((x + c) % m) - c - d) % m = (x - d) % m
<1>1. CASE x + c < m
  <2>1. (x + c) % m = x + c
    BY <1>1, ModSmall
  <2>2. x + c - c - d = x - d
    OBVIOUS
  <2>3. QED
    BY <2>1, <2>2
<1>2. CASE x + c >= m
  <2>1. (x + c) % m = x + c - m
    <3>1. x + c - m \in 0 .. (m - 1) /\ x + c \in Int /\ x + c = 1 * m + (x + c - m)
      BY <1>2
    <3>2. QED
      BY <3>1, ModIs
  <2>2. x + c - m - c - d = (x - d) - m /\ x - d \in Int
    OBVIOUS
  <2>3. ((x - d) - m) % m = (x - d) % m
    BY <2>2, ModOnce
  <2>4. ((x + c) % m) - c - d = (x - d) - m
    BY <2>1, <2>2
  <2>5. QED
    BY <2>3, <2>4
<1>3. QED
  BY <1>1, <1>2

\* Two bytes make a word, of which the unsigned 16-bit type loses nothing.
LEMMA WordFits ==
  ASSUME NEW lo \in Byte, NEW hi \in Byte
  PROVE  /\ lo \in Word /\ lo + hi * Radix \in Word
         /\ (lo + hi * Radix) % (Radix * Radix) = lo + hi * Radix
<1>1. /\ Radix \in Nat /\ Radix > 0 /\ lo \in Nat /\ hi \in Nat
      /\ lo <= Radix - 1 /\ hi <= Radix - 1
  BY DecoderAssumption DEF Byte
<1>2. hi * Radix \in Nat /\ Radix * Radix \in Nat
  BY <1>1
<1>3. hi * Radix <= (Radix - 1) * Radix
  BY <1>1
<1>4. (Radix - 1) * Radix = Radix * Radix - Radix
  BY <1>1
<1>5. lo + hi * Radix \in 0 .. (Radix * Radix - 1)
  BY <1>1, <1>2, <1>3, <1>4
<1>6. Radix * Radix \in Nat \ {0}
  BY <1>1, <1>2, <1>5
<1>7. lo \in 0 .. (Radix * Radix - 1)
  BY <1>1, <1>2, <1>5
<1>8. QED
  BY <1>5, <1>6, <1>7, ModSmall DEF Word

-----------------------------------------------------------------------------
(***************************************************************************)
(* The invariant                                                           *)
(***************************************************************************)

\* What the constants and the derived offsets are.
LEMMA Sizes ==
  /\ Radix \in Nat \ {0} /\ MemSize \in Nat \ {0} /\ AdcChannels \in Nat \ {0}
  /\ SumMod \in Nat \ {0} /\ CountMod \in Nat \ {0}
  /\ Byte \subseteq Nat /\ 0 \in Byte /\ 0 \in Word
  /\ Byte \subseteq 0 .. (SumMod - 1)
  /\ AdcBytes \in Nat \ {0} /\ AdcBytes = 2 * AdcChannels
  /\ MemOffset = 2 /\ AdcOffset = 3 + MemSize
<1>1. Radix \in Nat \ {0} /\ Byte \subseteq Nat /\ 0 \in Byte
  BY DecoderAssumption DEF Byte
<1>2. 0 \in Word
  BY <1>1, WordFits
<1>3. Radix * Radix >= Radix
  BY <1>1
<1>4. Byte \subseteq 0 .. (SumMod - 1)
  BY <1>1, <1>3, DecoderAssumption DEF Byte
<1>5. QED
  BY <1>1, <1>2, <1>4, DecoderAssumption DEF AdcBytes, MemOffset, AdcOffset

\* Appending a byte leaves the bytes before it where they were.
LEMMA Appended ==
  ASSUME NEW f \in Seq(Byte), NEW c \in Byte
  PROVE  /\ Append(f, c) \in Seq(Byte)
         /\ Len(f) \in Nat
         /\ Len(Append(f, c)) = Len(f) + 1
         /\ \A i \in 1 .. Len(f) : Append(f, c)[i] = f[i]
         /\ Append(f, c)[Len(f) + 1] = c
OBVIOUS

\* The invariant holds at the start.
LEMMA InitInductive == DecoderInit => DInv
<1> SUFFICES ASSUME DecoderInit PROVE DInv
  OBVIOUS
<1>1. state = "WAIT_H1" /\ frame = <<>> /\ field_index = 0
  BY DEF DecoderInit
<1>2. /\ [i \in 0 .. (MemSize - 1) |-> 0] \in [0 .. (MemSize - 1) -> Byte]
      /\ [i \in 0 .. (AdcChannels - 1) |-> 0] \in [0 .. (AdcChannels - 1) -> Word]
  BY Sizes
<1>3. DecoderTypeOK
  BY <1>2, Sizes DEF DecoderInit, DecoderTypeOK, DecodeState
<1>4. FrameLengthExact
  BY <1>1 DEF FrameLengthExact
<1>5. HaveMem = 0 /\ HaveAdc = 0
  BY <1>1 DEF HaveMem, HaveAdc
<1>6. ImageOfFrame
  BY <1>5, Sizes DEF ImageOfFrame, MemOfFrame, AdcOfFrame
<1>7. QED
  BY <1>1, <1>3, <1>4, <1>6 DEF DInv, IndexInBounds

\* The running sum stays in its type, whichever branch changes it.
LEMMA SumInRange ==
  ASSUME DecoderTypeOK, NEW c \in Byte
  PROVE  /\ Added(c) \in 0 .. (SumMod - 1)
         /\ (Added(c) - c) % SumMod \in 0 .. (SumMod - 1)
         /\ (Added(c) - c - c * Radix) % SumMod \in 0 .. (SumMod - 1)
<1>1. running_sum \in Int /\ c \in Int /\ c * Radix \in Int
  BY Sizes DEF DecoderTypeOK
<1>2. Added(c) \in 0 .. (SumMod - 1)
  BY <1>1, Sizes, ModRange DEF Added
<1>3. Added(c) - c \in Int /\ Added(c) - c - c * Radix \in Int
  BY <1>1, <1>2, Sizes
<1>4. QED
  BY <1>2, <1>3, Sizes, ModRange

\* While the header is looked for, the frame promises nothing of the image.
LEMMA NoImageNext ==
  ASSUME state' \in {"WAIT_H1", "WAIT_H2"}
  PROVE  ImageOfFrame'
<1>1. HaveMem' = 0 /\ HaveAdc' = 0
  BY DEF HaveMem, HaveAdc
<1>2. QED
  BY <1>1, Sizes DEF ImageOfFrame, MemOfFrame, AdcOfFrame

\* The first header byte keeps the invariant.
LEMMA Header1Inductive ==
  ASSUME DInv, NEW c \in Byte, Header1(c)
  PROVE  DInv'
<1>1. DecoderTypeOK
  BY DEF DInv
<1>2. running_sum' \in 0 .. (SumMod - 1) /\ frame' \in Seq(Byte)
  <2>1. c \in 0 .. (SumMod - 1) /\ Added(c) \in 0 .. (SumMod - 1)
    BY <1>1, SumInRange, Sizes
  <2>2. <<c>> \in Seq(Byte) /\ frame \in Seq(Byte)
    BY <1>1 DEF DecoderTypeOK
  <2>3. QED
    BY <2>1, <2>2 DEF Header1
<1>3. /\ state' \in {"WAIT_H1", "WAIT_H2"}
      /\ UNCHANGED <<field_index, ebl_mem, ebl_adc, updated, good_packets, bad_packets>>
  BY <1>1 DEF Header1, imageVars, statVars
<1>4. DecoderTypeOK'
  BY <1>1, <1>2, <1>3 DEF DecoderTypeOK, DecodeState
<1>5. FrameLengthExact' /\ IndexInBounds'
  BY <1>3 DEF DInv, Header1, FrameLengthExact, IndexInBounds
<1>6. ImageOfFrame'
  BY <1>3, NoImageNext
<1>7. QED
  BY <1>4, <1>5, <1>6 DEF DInv

\* The second header byte keeps the invariant, and empties the frame.
LEMMA Header2Inductive ==
  ASSUME DInv, NEW c \in Byte, Header2(c)
  PROVE  DInv'
<1>1. DecoderTypeOK /\ state = "WAIT_H2" /\ Len(frame) = 1
  BY DEF DInv, FrameLengthExact, Header2
<1>2. running_sum' \in 0 .. (SumMod - 1)
  BY <1>1, SumInRange DEF Header2
<1>3. UNCHANGED <<ebl_mem, ebl_adc, updated, good_packets, bad_packets>>
  BY DEF Header2, imageVars, statVars
<1>4. CASE c = H2
  <2>0. frame \in Seq(Byte) /\ frame' = Append(frame, c)
    BY <1>1, <1>4 DEF Header2, DecoderTypeOK
  <2>7. /\ Append(frame, c) \in Seq(Byte)
        /\ Len(Append(frame, c)) = Len(frame) + 1
    BY <2>0, Appended, Zenon
  <2>8. frame' \in Seq(Byte) /\ Len(frame') = 2
    BY <1>1, <2>0, <2>7
  <2>1. state' = "ARRAY" /\ field_index' = 0
    BY <1>4 DEF Header2
  <2>2. DecoderTypeOK'
    BY <1>1, <1>2, <1>3, <2>8, <2>1 DEF DecoderTypeOK, DecodeState
  <2>3. FrameLengthExact' /\ IndexInBounds'
    BY <2>8, <2>1, Sizes DEF FrameLengthExact, IndexInBounds
  <2>4. HaveMem' = 0 /\ HaveAdc' = 0
    BY <2>1 DEF HaveMem, HaveAdc
  <2>5. ImageOfFrame'
    BY <2>4, Sizes DEF ImageOfFrame, MemOfFrame, AdcOfFrame
  <2>6. QED
    BY <2>2, <2>3, <2>5 DEF DInv
<1>5. CASE c # H2
  <2>1. state' = "WAIT_H1" /\ field_index' = field_index /\ frame' = <<>>
    BY <1>5 DEF Header2
  <2>2. DecoderTypeOK'
    BY <1>1, <1>2, <1>3, <2>1 DEF DecoderTypeOK, DecodeState
  <2>3. FrameLengthExact' /\ IndexInBounds'
    BY <2>1 DEF FrameLengthExact, IndexInBounds
  <2>4. ImageOfFrame'
    BY <2>1, NoImageNext
  <2>5. QED
    BY <2>2, <2>3, <2>4 DEF DInv
<1>6. QED
  BY <1>4, <1>5

\* Each byte of the dump goes to the address the frame gives it.
LEMMA ArrayInductive ==
  ASSUME DInv, NEW c \in Byte, Array(c)
  PROVE  DInv'
<1>1. /\ DecoderTypeOK /\ state = "ARRAY"
      /\ field_index \in 0 .. (MemSize - 1)
      /\ Len(frame) = 2 + field_index
      /\ MemOfFrame
  BY Sizes DEF DInv, FrameLengthExact, IndexInBounds, ImageOfFrame, Array
<1>2. /\ running_sum' \in 0 .. (SumMod - 1)
      /\ ebl_mem' = [ebl_mem EXCEPT ![field_index] = c]
      /\ field_index' = field_index + 1
      /\ state' = IF field_index' = MemSize THEN "STATUS" ELSE "ARRAY"
      /\ frame' = Append(frame, c)
      /\ UNCHANGED <<ebl_adc, updated, good_packets, bad_packets>>
  BY <1>1, SumInRange DEF Array, statVars
<1>3. /\ frame' \in Seq(Byte) /\ Len(frame') = 3 + field_index
      /\ \A i \in 1 .. (2 + field_index) : frame'[i] = frame[i]
      /\ frame'[3 + field_index] = c
  BY <1>1, <1>2, Appended DEF DecoderTypeOK
<1>4. DecoderTypeOK'
  BY <1>1, <1>2, <1>3 DEF DecoderTypeOK, DecodeState
<1>5. FrameLengthExact' /\ IndexInBounds'
  <2>1. CASE field_index + 1 = MemSize
    <3>1. state' = "STATUS" /\ Len(frame') = 2 + MemSize
      BY <1>1, <1>2, <1>3, <2>1, Sizes
    <3>2. QED
      BY <3>1, Sizes DEF FrameLengthExact, IndexInBounds
  <2>2. CASE field_index + 1 # MemSize
    <3>1. /\ state' = "ARRAY" /\ Len(frame') = 2 + field_index'
          /\ field_index' \in 0 .. (MemSize - 1)
      BY <1>1, <1>2, <1>3, <2>2, Sizes
    <3>2. QED
      BY <3>1, Sizes DEF FrameLengthExact, IndexInBounds
  <2>3. QED
    BY <2>1, <2>2
<1>6. HaveMem = field_index /\ HaveMem' = field_index + 1 /\ HaveAdc' = 0
  BY <1>1, <1>2 DEF HaveMem, HaveAdc
<1>7. \A i \in 0 .. (MemSize - 1) :
        ebl_mem'[i] = IF i = field_index THEN c ELSE ebl_mem[i]
  BY <1>1, <1>2 DEF DecoderTypeOK
<1>8. MemOfFrame'
  <2> SUFFICES ASSUME NEW i \in 0 .. field_index
               PROVE  ebl_mem'[i] = frame'[2 + i + 1]
    BY <1>1, <1>6, Sizes DEF MemOfFrame
  <2>1. CASE i = field_index
    BY <2>1, <1>1, <1>3, <1>7
  <2>2. CASE i # field_index
    BY <2>2, <1>1, <1>3, <1>6, <1>7, Sizes DEF MemOfFrame
  <2>3. QED
    BY <2>1, <2>2
<1>9. AdcOfFrame'
  BY <1>6, Sizes DEF AdcOfFrame
<1>10. QED
  BY <1>4, <1>5, <1>8, <1>9 DEF DInv, ImageOfFrame

\* A byte appended behind a complete array leaves the array's image alone.
LEMMA MemKept ==
  ASSUME frame \in Seq(Byte), NEW c \in Byte, frame' = Append(frame, c),
         HaveMem = MemSize, HaveMem' = MemSize,
         Len(frame) >= 2 + MemSize,
         UNCHANGED ebl_mem, MemOfFrame
  PROVE  MemOfFrame'
<1> SUFFICES ASSUME NEW i \in 0 .. (MemSize - 1)
             PROVE  ebl_mem'[i] = frame'[2 + i + 1]
  BY Sizes DEF MemOfFrame
<1>1. ebl_mem'[i] = frame[2 + i + 1]
  BY Sizes DEF MemOfFrame
<1>2. \A j \in 1 .. Len(frame) : frame'[j] = frame[j]
  BY Appended, Zenon
<1>3. 2 + i + 1 \in 1 .. Len(frame)
  BY Sizes
<1>4. QED
  BY <1>1, <1>2, <1>3

\* A status byte keeps the invariant.
LEMMA StatusInductive ==
  ASSUME DInv, NEW c \in Byte, Status(c)
  PROVE  DInv'
<1>1. /\ DecoderTypeOK /\ state = "STATUS" /\ frame \in Seq(Byte)
      /\ Len(frame) = 2 + MemSize
      /\ MemOfFrame
  BY Sizes DEF DInv, FrameLengthExact, ImageOfFrame, Status, DecoderTypeOK
<1>2. /\ running_sum' \in 0 .. (SumMod - 1)
      /\ state' = "ADC" /\ field_index' = 0
      /\ frame' = Append(frame, c)
      /\ UNCHANGED <<ebl_mem, ebl_adc, updated, good_packets, bad_packets>>
  BY <1>1, SumInRange DEF Status, imageVars, statVars
<1>3. /\ Append(frame, c) \in Seq(Byte)
      /\ Len(Append(frame, c)) = Len(frame) + 1
  BY <1>1, Appended, Zenon
<1>4. frame' \in Seq(Byte) /\ Len(frame') = 3 + MemSize
  BY <1>1, <1>2, <1>3, Sizes
<1>5. DecoderTypeOK'
  BY <1>1, <1>2, <1>4 DEF DecoderTypeOK, DecodeState
<1>6. FrameLengthExact' /\ IndexInBounds'
  <2>1. state' = "ADC" /\ field_index' = 0 /\ Len(frame') = AdcOffset + field_index'
    BY <1>2, <1>4, Sizes
  <2>2. FrameLengthExact'
    BY <2>1 DEF FrameLengthExact
  <2>3. IndexInBounds'
    BY <2>1, Sizes DEF IndexInBounds
  <2>4. QED
    BY <2>2, <2>3
<1>7. HaveMem = MemSize /\ HaveMem' = MemSize /\ HaveAdc' = 0
  BY <1>1, <1>2 DEF HaveMem, HaveAdc
<1>8. MemOfFrame'
  BY <1>1, <1>2, <1>7, MemKept, Sizes
<1>9. AdcOfFrame'
  BY <1>7, Sizes DEF AdcOfFrame
<1>10. QED
  BY <1>5, <1>6, <1>8, <1>9 DEF DInv, ImageOfFrame

\* The word and the half of it that a byte of the ADC payload belongs to.
LEMMA WordOfIndex ==
  ASSUME NEW k \in 0 .. (AdcBytes - 1)
  PROVE  /\ k \div 2 \in 0 .. (AdcChannels - 1)
         /\ \/ k % 2 = 0 /\ k = 2 * (k \div 2)
            \/ k % 2 = 1 /\ k = 2 * (k \div 2) + 1
<1>1. k \in Nat /\ AdcChannels \in Nat /\ k <= 2 * AdcChannels - 1
  BY Sizes
<1>2. /\ k \div 2 \in Nat
      /\ \/ k % 2 = 0 /\ k = 2 * (k \div 2)
         \/ k % 2 = 1 /\ k = 2 * (k \div 2) + 1
  BY <1>1
<1>3. QED
  BY <1>1, <1>2

\* A byte of an ADC word, its first or its second half, keeps the invariant.
LEMMA AdcInductive ==
  ASSUME DInv, NEW c \in Byte, Adc(c)
  PROVE  DInv'
<1> DEFINE word == field_index \div 2
           even == field_index % 2 = 0
<1>1. /\ DecoderTypeOK /\ state = "ADC" /\ frame \in Seq(Byte)
      /\ field_index \in 0 .. (AdcBytes - 1)
      /\ Len(frame) = 3 + MemSize + field_index
      /\ MemOfFrame /\ AdcOfFrame
      /\ ebl_adc \in [0 .. (AdcChannels - 1) -> Word]
  <2>1. DecoderTypeOK /\ state = "ADC" /\ MemOfFrame /\ AdcOfFrame
    BY DEF DInv, ImageOfFrame, Adc
  <2>2. /\ Len(frame) = AdcOffset + field_index
        /\ field_index \in 0 .. (AdcBytes - 1)
    BY <2>1 DEF DInv, FrameLengthExact, IndexInBounds
  <2>3. QED
    BY <2>1, <2>2, Sizes DEF DecoderTypeOK
<1>2. /\ word \in 0 .. (AdcChannels - 1)
      /\ even => field_index = 2 * word
      /\ ~even => field_index = 2 * word + 1
  BY <1>1, WordOfIndex
<1>3. /\ running_sum' \in 0 .. (SumMod - 1)
      /\ ebl_adc' = [ebl_adc EXCEPT ![word] =
                       IF even THEN c ELSE (@ + c * Radix) % (Radix * Radix)]
      /\ field_index' = field_index + 1
      /\ state' = IF field_index' = AdcBytes THEN "WAIT_C1" ELSE "ADC"
      /\ frame' = Append(frame, c)
      /\ UNCHANGED <<ebl_mem, updated, good_packets, bad_packets>>
  BY <1>1, SumInRange DEF Adc, statVars
<1>4. /\ Append(frame, c) \in Seq(Byte)
      /\ Len(Append(frame, c)) = Len(frame) + 1
      /\ \A i \in 1 .. Len(frame) : Append(frame, c)[i] = frame[i]
      /\ Append(frame, c)[Len(frame) + 1] = c
  BY <1>1, Appended, Zenon
<1>5. /\ frame' \in Seq(Byte) /\ Len(frame') = 4 + MemSize + field_index
      /\ \A i \in 1 .. (3 + MemSize + field_index) : frame'[i] = frame[i]
      /\ frame'[4 + MemSize + field_index] = c
  BY <1>1, <1>3, <1>4, Sizes
<1>6. HaveMem = MemSize /\ HaveMem' = MemSize
      /\ HaveAdc = field_index /\ HaveAdc' = field_index + 1
  <2>1. CASE state' = "ADC"
    BY <1>1, <1>3, <2>1 DEF HaveMem, HaveAdc
  <2>2. CASE state' = "WAIT_C1" /\ AdcBytes = field_index + 1
    BY <1>1, <2>2 DEF HaveMem, HaveAdc
  <2>3. QED
    BY <1>3, <2>1, <2>2
\* The first byte is the whole word for a while; the second completes it,
\* once the first is known to be there.
<1>7. ~even => /\ ebl_adc[word] = frame[AdcOffset + 2 * word + 1]
               /\ ebl_adc[word] \in Byte
  <2> SUFFICES ASSUME ~even
               PROVE  /\ ebl_adc[word] = frame[AdcOffset + 2 * word + 1]
                      /\ ebl_adc[word] \in Byte
    OBVIOUS
  <2>1. ebl_adc[word] = frame[AdcOffset + 2 * word + 1]
    BY <1>1, <1>2, <1>6 DEF AdcOfFrame
  <2>2. AdcOffset + 2 * word + 1 \in 1 .. Len(frame)
    BY <1>1, <1>2, Sizes
  <2>3. QED
    BY <1>1, <2>1, <2>2
<1>8. /\ ebl_adc' \in [0 .. (AdcChannels - 1) -> Word]
      /\ \A w \in 0 .. (AdcChannels - 1) : w # word => ebl_adc'[w] = ebl_adc[w]
      /\ even => ebl_adc'[word] = c
      /\ ~even => ebl_adc'[word] = ebl_adc[word] + c * Radix
  <2> DEFINE v == IF even THEN c ELSE (ebl_adc[word] + c * Radix) % (Radix * Radix)
  <2>1. /\ v \in Word
        /\ even => v = c
        /\ ~even => v = ebl_adc[word] + c * Radix
    <3>1. CASE even
      <4>1. c \in Word
        BY WordFits
      <4>2. QED
        BY <3>1, <4>1
    <3>2. CASE ~even
      <4>1. ebl_adc[word] + c * Radix \in Word
            /\ (ebl_adc[word] + c * Radix) % (Radix * Radix) = ebl_adc[word] + c * Radix
        BY <1>7, <3>2, WordFits, Zenon
      <4>2. QED
        BY <3>2, <4>1
    <3>3. QED
      BY <3>1, <3>2
  <2>2. ebl_adc' = [ebl_adc EXCEPT ![word] = v]
    BY <1>3
  <2> HIDE DEF v, even, word
  <2>3. QED
    BY <1>1, <1>2, <2>1, <2>2
<1> HIDE DEF even, word
<1>9. DecoderTypeOK'
  BY <1>1, <1>3, <1>5, <1>8 DEF DecoderTypeOK, DecodeState
<1>10. FrameLengthExact' /\ IndexInBounds'
  <2>1. CASE field_index + 1 = AdcBytes
    <3>1. state' = "WAIT_C1" /\ Len(frame') = 3 + MemSize + AdcBytes
      BY <1>1, <1>3, <1>5, <2>1, Sizes
    <3>2. QED
      BY <3>1, Sizes DEF FrameLengthExact, IndexInBounds
  <2>2. CASE field_index + 1 # AdcBytes
    <3>1. /\ state' = "ADC" /\ Len(frame') = 3 + MemSize + field_index'
          /\ field_index' \in 0 .. (AdcBytes - 1)
      BY <1>1, <1>3, <1>5, <2>2, Sizes
    <3>2. QED
      BY <3>1, Sizes DEF FrameLengthExact, IndexInBounds
  <2>3. QED
    BY <2>1, <2>2
<1>11. MemOfFrame'
  BY <1>1, <1>3, <1>6, MemKept, Sizes
<1>12. AdcOfFrame'
  <2> SUFFICES ASSUME NEW w \in 0 .. (AdcChannels - 1)
               PROVE  LET low == AdcOffset + 2 * w + 1 IN
                      /\ 2 * w + 1 = HaveAdc' => ebl_adc'[w] = frame'[low]
                      /\ 2 * w + 1 < HaveAdc' =>
                           ebl_adc'[w] = frame'[low] + frame'[low + 1] * Radix
    BY DEF AdcOfFrame
  <2>1. CASE w = word /\ even
    BY <1>1, <1>2, <1>5, <1>6, <1>8, <2>1, Sizes
  <2>2. CASE w = word /\ ~even
    BY <1>1, <1>2, <1>5, <1>6, <1>7, <1>8, <2>2, Sizes
  <2>3. CASE w < word
    <3>1. 2 * w + 1 < field_index
      BY <1>1, <1>2, <2>3, Sizes
    <3>2. ebl_adc[w] =
            frame[AdcOffset + 2 * w + 1] + frame[AdcOffset + 2 * w + 2] * Radix
      BY <1>1, <1>6, <3>1, Sizes DEF AdcOfFrame
    <3>3. QED
      BY <1>1, <1>2, <1>5, <1>6, <1>8, <2>3, <3>1, <3>2, Sizes
  <2>4. CASE w > word
    BY <1>1, <1>2, <1>6, <2>4, Sizes
  <2>5. QED
    BY <1>2, <2>1, <2>2, <2>3, <2>4, Sizes
<1>13. QED
  BY <1>9, <1>10, <1>11, <1>12 DEF DInv, ImageOfFrame

\* The first trailer byte keeps the invariant.
LEMMA Trailer1Inductive ==
  ASSUME DInv, NEW c \in Byte, Trailer1(c)
  PROVE  DInv'
<1>1. DecoderTypeOK /\ state = "WAIT_C1" /\ MemOfFrame /\ AdcOfFrame
  BY DEF DInv, ImageOfFrame, Trailer1
<1>2. frame \in Seq(Byte) /\ Len(frame) = 3 + MemSize + AdcBytes
  BY <1>1, Sizes DEF DInv, FrameLengthExact, DecoderTypeOK
<1>3. /\ running_sum' \in 0 .. (SumMod - 1)
      /\ state' = "WAIT_C2"
      /\ frame' = Append(frame, c)
      /\ UNCHANGED <<field_index, ebl_mem, ebl_adc, updated, good_packets, bad_packets>>
  BY <1>1, SumInRange DEF Trailer1, imageVars, statVars
<1>4. /\ Append(frame, c) \in Seq(Byte)
      /\ Len(Append(frame, c)) = Len(frame) + 1
      /\ \A i \in 1 .. Len(frame) : Append(frame, c)[i] = frame[i]
  BY <1>2, Appended, Zenon
<1>5. frame' \in Seq(Byte) /\ Len(frame') = 4 + MemSize + AdcBytes
  BY <1>2, <1>3, <1>4, Sizes
<1>6. DecoderTypeOK'
  BY <1>1, <1>3, <1>5 DEF DecoderTypeOK, DecodeState
<1>7. FrameLengthExact' /\ IndexInBounds'
  <2>1. state' = "WAIT_C2" /\ Len(frame') = AdcOffset + AdcBytes + 1
    BY <1>3, <1>5, Sizes
  <2>2. QED
    BY <2>1 DEF FrameLengthExact, IndexInBounds
<1>8. /\ HaveMem = MemSize /\ HaveMem' = MemSize
      /\ HaveAdc = AdcBytes /\ HaveAdc' = AdcBytes
  BY <1>1, <1>3 DEF HaveMem, HaveAdc
<1>9. MemOfFrame'
  BY <1>1, <1>2, <1>3, <1>8, MemKept, Sizes
<1>10. AdcOfFrame'
  <2> SUFFICES ASSUME NEW w \in 0 .. (AdcChannels - 1)
               PROVE  ebl_adc'[w] = frame'[AdcOffset + 2 * w + 1]
                                      + frame'[AdcOffset + 2 * w + 2] * Radix
    BY <1>8, Sizes DEF AdcOfFrame
  <2>1. ebl_adc[w] = frame[AdcOffset + 2 * w + 1] + frame[AdcOffset + 2 * w + 2] * Radix
    BY <1>1, <1>8, Sizes DEF AdcOfFrame
  <2>2. /\ AdcOffset + 2 * w + 1 \in 1 .. Len(frame)
        /\ AdcOffset + 2 * w + 2 \in 1 .. Len(frame)
    BY <1>2, Sizes
  <2>3. QED
    BY <1>3, <1>4, <2>1, <2>2
<1>11. QED
  BY <1>6, <1>7, <1>9, <1>10 DEF DInv, ImageOfFrame

\* The second trailer byte keeps the invariant, good or bad.
LEMMA Trailer2Inductive ==
  ASSUME DInv, NEW c \in Byte, Trailer2(c)
  PROVE  DInv'
<1>1. DecoderTypeOK
  BY DEF DInv
<1>2. /\ running_sum' \in 0 .. (SumMod - 1)
      /\ state' = "WAIT_H1" /\ frame' = <<>>
      /\ UNCHANGED <<field_index, ebl_mem, ebl_adc>>
  BY <1>1, SumInRange DEF Trailer2, imageVars
<1>3. /\ updated' \in BOOLEAN
      /\ good_packets' \in 0 .. (CountMod - 1)
      /\ bad_packets' \in 0 .. (CountMod - 1)
  <2>1. /\ (good_packets + 1) % CountMod \in 0 .. (CountMod - 1)
        /\ (bad_packets + 1) % CountMod \in 0 .. (CountMod - 1)
    BY <1>1, Sizes, ModRange DEF DecoderTypeOK
  <2>2. QED
    BY <1>1, <2>1 DEF Trailer2, DecoderTypeOK
<1>4. DecoderTypeOK'
  BY <1>1, <1>2, <1>3 DEF DecoderTypeOK, DecodeState
<1>5. FrameLengthExact' /\ IndexInBounds'
  BY <1>2 DEF FrameLengthExact, IndexInBounds
<1>6. ImageOfFrame'
  BY <1>2, NoImageNext
<1>7. QED
  BY <1>4, <1>5, <1>6 DEF DInv

\* Neither was_updated nor a stutter touches what the invariant speaks of.
LEMMA QuietInductive ==
  ASSUME DInv, was_updated \/ UNCHANGED decodeVars
  PROVE  DInv'
<1>1. /\ UNCHANGED <<state, running_sum, field_index, ebl_mem, ebl_adc,
                     good_packets, bad_packets, frame>>
      /\ updated' \in {FALSE, updated}
  BY DEF was_updated, decodeVars, imageVars, statVars
<1>2. DecoderTypeOK'
  BY <1>1 DEF DInv, DecoderTypeOK
<1>3. FrameLengthExact' /\ IndexInBounds'
  BY <1>1 DEF DInv, FrameLengthExact, IndexInBounds
<1>4. HaveMem' = HaveMem /\ HaveAdc' = HaveAdc
  BY <1>1 DEF HaveMem, HaveAdc
<1>5. ImageOfFrame'
  BY <1>1, <1>4 DEF DInv, ImageOfFrame, MemOfFrame, AdcOfFrame
<1>6. QED
  BY <1>2, <1>3, <1>5 DEF DInv

-----------------------------------------------------------------------------
(***************************************************************************)
(* Theorems                                                                *)
(***************************************************************************)

\* The inductive invariant holds throughout, whatever the line delivers.
THEOREM DecoderInvariance == DecoderSpec => []DInv
<1>1. DecoderInit => DInv
  BY InitInductive
<1>2. DInv /\ [DecoderNext]_decodeVars => DInv'
  <2> SUFFICES ASSUME DInv, [DecoderNext]_decodeVars PROVE DInv'
    OBVIOUS
  <2>1. CASE was_updated \/ UNCHANGED decodeVars
    BY <2>1, QuietInductive
  <2>2. ASSUME NEW c \in Byte, decode(c) PROVE DInv'
    <3>1. CASE Header1(c)
      BY <3>1, Header1Inductive
    <3>2. CASE Header2(c)
      BY <3>2, Header2Inductive
    <3>3. CASE Array(c)
      BY <3>3, ArrayInductive
    <3>4. CASE Status(c)
      BY <3>4, StatusInductive
    <3>5. CASE Adc(c)
      BY <3>5, AdcInductive
    <3>6. CASE Trailer1(c)
      BY <3>6, Trailer1Inductive
    <3>7. CASE Trailer2(c)
      BY <3>7, Trailer2Inductive
    <3>8. QED
      BY <2>2, <3>1, <3>2, <3>3, <3>4, <3>5, <3>6, <3>7 DEF decode
  <2>3. QED
    BY <2>1, <2>2 DEF DecoderNext
<1>3. QED
  BY <1>1, <1>2, PTL DEF DecoderSpec

\* The machine's variables stay in their types: the sum and the counters wrap
\* inside theirs, and an ADC word never exceeds sixteen bits.
THEOREM DecoderTypeCorrect == DecoderSpec => []DecoderTypeOK
<1>1. DInv => DecoderTypeOK
  BY DEF DInv
<1>2. QED
  BY <1>1, DecoderInvariance, PTL

\* decode() never stores outside ebl_mem and ebl_adc, for any sizes of the two
\* and any sequence of bytes.
THEOREM StoresInBounds == DecoderSpec => []IndexInBounds
<1>1. DInv => IndexInBounds
  BY DEF DInv
<1>2. QED
  BY <1>1, DecoderInvariance, PTL

\* At every byte boundary the image holds what the frame has delivered so far,
\* the word that is half received holding its low byte alone.
THEOREM ImageMatchesFrame == DecoderSpec => []ImageOfFrame
<1>1. DInv => ImageOfFrame
  BY DEF DInv
<1>2. QED
  BY <1>1, DecoderInvariance, PTL

-----------------------------------------------------------------------------
(***************************************************************************)
(* Sums of sequences                                                       *)
(***************************************************************************)

\* Induction, as a fact about sets: a set that holds 0, and with each number
\* the next, holds them all.  If not, the least number missing contradicts it.
LEMMA Induction ==
  ASSUME NEW S, 0 \in S, \A n \in Nat : n \in S => n + 1 \in S
  PROVE  \A n \in Nat : n \in S
<1> SUFFICES ASSUME Nat \ S # {} PROVE FALSE
  OBVIOUS
<1> DEFINE missing == Nat \ S
<1>1. PICK least \in missing : \A n \in missing : ~(<<n, least>> \in OpToRel(<, Nat))
  <2>1. missing \subseteq Nat
    OBVIOUS
  <2>2. QED
    BY <2>1, NatLessThanWellFounded, WFMin
<1>2. \A n \in missing : ~(n < least)
  BY <1>1 DEF OpToRel
<1>3. least \in Nat /\ least # 0 /\ least - 1 \in Nat
  OBVIOUS
<1>4. least - 1 \in S
  BY <1>2, <1>3
<1>5. least - 1 + 1 = least
  BY <1>3
<1>6. QED
  BY <1>3, <1>4, <1>5

\* g holds the partial sums of s.
PartialSums(g, s) ==
  g = [n \in 0 .. Len(s) |-> IF n = 0 THEN 0 ELSE g[n - 1] + s[n]]

\* The recursive function of Sum, with its name taken off.
LEMMA SumOfPartial ==
  ASSUME NEW s
  PROVE  Packet!Sum(s) = (CHOOSE g : PartialSums(g, s))[Len(s)]
BY DEF Packet!Sum, PartialSums

\* There is such a function: each number of partial sums can be followed by the
\* next.
LEMMA PartialSumsExist ==
  ASSUME NEW s \in Seq(Nat)
  PROVE  \E g \in [0 .. Len(s) -> Nat] : PartialSums(g, s)
<1> DEFINE Upto(n) == \E g \in [0 .. n -> Nat] :
                        \A k \in 0 .. n : g[k] = IF k = 0 THEN 0 ELSE g[k - 1] + s[k]
           Fine == {n \in Nat : n <= Len(s) => Upto(n)}
<1>0. Len(s) \in Nat /\ \A k \in 1 .. Len(s) : s[k] \in Nat
  OBVIOUS
<1>1. 0 \in Fine
  <2> DEFINE h == [k \in 0 .. 0 |-> 0]
  <2>1. /\ h \in [0 .. 0 -> Nat]
        /\ \A k \in 0 .. 0 : h[k] = IF k = 0 THEN 0 ELSE h[k - 1] + s[k]
    OBVIOUS
  <2> HIDE DEF h
  <2>2. Upto(0)
    BY <2>1
  <2>3. QED
    BY <2>2
<1>2. ASSUME NEW n \in Nat, n \in Fine PROVE n + 1 \in Fine
  <2> SUFFICES ASSUME n + 1 <= Len(s) PROVE Upto(n + 1)
    OBVIOUS
  <2>1. PICK g \in [0 .. n -> Nat] :
          \A k \in 0 .. n : g[k] = IF k = 0 THEN 0 ELSE g[k - 1] + s[k]
    <3>1. n <= Len(s) => Upto(n)
      BY <1>2, Zenon
    <3>2. n <= Len(s)
      BY <1>0
    <3>3. QED
      BY <3>1, <3>2
  <2> DEFINE h == [k \in 0 .. (n + 1) |-> IF k = n + 1 THEN g[n] + s[n + 1] ELSE g[k]]
  <2>2. h \in [0 .. (n + 1) -> Nat]
    BY <1>0
  <2>3. \A k \in 0 .. (n + 1) : h[k] = IF k = 0 THEN 0 ELSE h[k - 1] + s[k]
    BY <2>1
  <2>4. QED
    BY <2>2, <2>3
<1> HIDE DEF Fine
<1>3. Len(s) \in Fine
  BY <1>0, <1>1, <1>2, Induction
<1>4. Upto(Len(s))
  BY <1>0, <1>3 DEF Fine
<1>5. QED
  BY <1>4 DEF PartialSums

\* The sum of a sequence of numbers is the last of its partial sums.
LEMMA SumPartial ==
  ASSUME NEW s \in Seq(Nat)
  PROVE  \E g \in [0 .. Len(s) -> Nat] :
           /\ Packet!Sum(s) = g[Len(s)]
           /\ g[0] = 0
           /\ \A k \in 1 .. Len(s) : g[k] = g[k - 1] + s[k]
<1>1. PICK f \in [0 .. Len(s) -> Nat] : PartialSums(f, s)
  BY PartialSumsExist
<1> DEFINE g == CHOOSE g : PartialSums(g, s)
<1>2. PartialSums(g, s)
  BY <1>1
<1>3. Packet!Sum(s) = g[Len(s)]
  BY SumOfPartial
<1> HIDE DEF g
<1>0. Len(s) \in Nat /\ \A k \in 1 .. Len(s) : s[k] \in Nat
  OBVIOUS
<1>4. /\ g[0] = 0
      /\ \A k \in 1 .. Len(s) : g[k] = g[k - 1] + s[k]
  BY <1>0, <1>2 DEF PartialSums
<1>5. \A k \in Nat : k \in {i \in Nat : i <= Len(s) => g[i] \in Nat}
  <2> DEFINE S == {i \in Nat : i <= Len(s) => g[i] \in Nat}
  <2>1. 0 \in S
    BY <1>4
  <2>2. ASSUME NEW n \in Nat, n \in S PROVE n + 1 \in S
    <3> SUFFICES ASSUME n + 1 <= Len(s) PROVE g[n + 1] \in Nat
      OBVIOUS
    <3>1. g[n] \in Nat /\ s[n + 1] \in Nat /\ n + 1 \in 1 .. Len(s) /\ n + 1 - 1 = n
      BY <1>0, <2>2
    <3>2. QED
      BY <1>4, <3>1
  <2> HIDE DEF S
  <2>3. \A k \in Nat : k \in S
    BY <2>1, <2>2, Induction
  <2>4. QED
    BY <2>3 DEF S
<1>6. DOMAIN g = 0 .. Len(s) /\ g = [k \in 0 .. Len(s) |-> g[k]]
  BY <1>2 DEF PartialSums
<1>7. \A k \in 0 .. Len(s) : g[k] \in Nat
  BY <1>0, <1>5
<1>8. g \in [0 .. Len(s) -> Nat]
  BY <1>6, <1>7
<1>9. QED
  BY <1>3, <1>4, <1>8

\* No bytes have the sum 0.
LEMMA SumEmpty == Packet!Sum(<<>>) = 0
<1>1. <<>> \in Seq(Nat) /\ Len(<<>>) = 0
  OBVIOUS
<1>2. QED
  BY <1>1, SumPartial

\* An element appended is added: the partial sums before it stay what they were.
LEMMA SumAppend ==
  ASSUME NEW s \in Seq(Nat), NEW c \in Nat
  PROVE  Packet!Sum(Append(s, c)) = Packet!Sum(s) + c /\ Packet!Sum(s) \in Nat
<1> DEFINE t == Append(s, c)
<1>1. /\ t \in Seq(Nat) /\ Len(s) \in Nat /\ Len(t) = Len(s) + 1
      /\ \A k \in 1 .. Len(s) : t[k] = s[k]
      /\ t[Len(s) + 1] = c
  OBVIOUS
<1> HIDE DEF t
<1>2. PICK g \in [0 .. Len(s) -> Nat] :
        /\ Packet!Sum(s) = g[Len(s)]
        /\ g[0] = 0
        /\ \A k \in 1 .. Len(s) : g[k] = g[k - 1] + s[k]
  BY SumPartial
<1>3. PICK h \in [0 .. Len(t) -> Nat] :
        /\ Packet!Sum(t) = h[Len(t)]
        /\ h[0] = 0
        /\ \A k \in 1 .. Len(t) : h[k] = h[k - 1] + t[k]
  BY <1>1, SumPartial
<1> DEFINE Same == {k \in Nat : k <= Len(s) => h[k] = g[k]}
<1>4. 0 \in Same
  BY <1>2, <1>3
<1>5. ASSUME NEW n \in Nat, n \in Same PROVE n + 1 \in Same
  <2> SUFFICES ASSUME n + 1 <= Len(s) PROVE h[n + 1] = g[n + 1]
    OBVIOUS
  <2>1. n + 1 \in 1 .. Len(s) /\ n + 1 \in 1 .. Len(t) /\ n + 1 - 1 = n /\ h[n] = g[n]
    BY <1>1, <1>5
  <2>2. QED
    BY <1>1, <1>2, <1>3, <2>1
<1> HIDE DEF Same
<1>6. Len(s) \in Same
  BY <1>1, <1>4, <1>5, Induction
<1>7. h[Len(s)] = g[Len(s)]
  BY <1>1, <1>6 DEF Same
<1>8. Packet!Sum(t) = h[Len(s)] + c
  <2>1. Len(t) \in 1 .. Len(t) /\ Len(t) - 1 = Len(s)
    BY <1>1
  <2>2. QED
    BY <1>1, <1>3, <2>1
<1>9. Packet!Sum(s) \in Nat
  BY <1>1, <1>2
<1>10. QED
  BY <1>2, <1>7, <1>8, <1>9 DEF t

-----------------------------------------------------------------------------
(***************************************************************************)
(* The checksum                                                            *)
(***************************************************************************)

\* running_sum is the sum of the bytes of the frame, exactly, until the first
\* trailer byte is taken out of it; it carries nothing over from the frame or
\* the noise before.
SumOfFrame ==
  /\ state = "WAIT_H2" => frame = <<H1>>
  /\ state \in {"WAIT_H2", "ARRAY", "STATUS", "ADC", "WAIT_C1"} =>
       running_sum = Packet!Sum(frame)
  /\ state = "WAIT_C2" =>
       running_sum = (Packet!Sum(SubSeq(frame, 1, Len(frame) - 1))
                        - frame[Len(frame)] * Radix) % SumMod

\* No sum of bytes exceeds what as many of the greatest would make.
LEMMA SumBound ==
  ASSUME NEW f \in Seq(Byte)
  PROVE  Packet!Sum(f) \in Nat /\ Packet!Sum(f) <= Len(f) * (Radix - 1)
<1>0. Radix \in Nat /\ Radix > 0 /\ Byte = 0 .. (Radix - 1) /\ f \in Seq(Nat)
  BY Sizes DEF Byte
<1>1. PICK g \in [0 .. Len(f) -> Nat] :
        /\ Packet!Sum(f) = g[Len(f)]
        /\ g[0] = 0
        /\ \A k \in 1 .. Len(f) : g[k] = g[k - 1] + f[k]
  BY <1>0, SumPartial
<1> DEFINE Bounded == {k \in Nat : k <= Len(f) => g[k] <= k * (Radix - 1)}
<1>2. 0 \in Bounded
  BY <1>0, <1>1
<1>3. ASSUME NEW n \in Nat, n \in Bounded PROVE n + 1 \in Bounded
  <2> SUFFICES ASSUME n + 1 <= Len(f) PROVE g[n + 1] <= (n + 1) * (Radix - 1)
    OBVIOUS
  <2>1. /\ n + 1 \in 1 .. Len(f) /\ n + 1 - 1 = n
        /\ g[n] \in Nat /\ g[n] <= n * (Radix - 1)
    BY <1>1, <1>3
  <2>2. g[n + 1] = g[n] + f[n + 1] /\ f[n + 1] \in 0 .. (Radix - 1)
    BY <1>0, <1>1, <2>1
  <2>3. (n + 1) * (Radix - 1) = n * (Radix - 1) + (Radix - 1)
    BY <1>0
  <2>4. n * (Radix - 1) \in Int
    BY <1>0
  <2>5. QED
    BY <1>0, <2>1, <2>2, <2>3, <2>4
<1> HIDE DEF Bounded
<1>4. Len(f) \in Bounded
  BY <1>2, <1>3, Induction
<1>5. g[Len(f)] <= Len(f) * (Radix - 1)
  BY <1>4 DEF Bounded
<1>6. QED
  BY <1>1, <1>5

\* Up to the trailer, the unsigned type holds the sum exactly.
LEMMA SumSmall ==
  ASSUME NEW f \in Seq(Byte), Len(f) <= AdcOffset + AdcBytes
  PROVE  Packet!Sum(f) \in 0 .. (SumMod - 1)
<1>1. /\ Len(f) \in Nat /\ Len(f) <= MemSize + AdcBytes + 3
      /\ MemSize \in Nat /\ AdcBytes \in Nat /\ Radix - 1 \in Nat
      /\ SumMod \in Nat /\ SumMod > (MemSize + AdcBytes + 3) * (Radix - 1)
  BY Sizes, DecoderAssumption
<1>2. /\ Len(f) * (Radix - 1) <= (MemSize + AdcBytes + 3) * (Radix - 1)
      /\ Len(f) * (Radix - 1) \in Nat /\ (MemSize + AdcBytes + 3) * (Radix - 1) \in Nat
  BY <1>1
<1>3. QED
  BY <1>1, <1>2, SumBound

\* running_sum += c keeps up with the frame.
LEMMA SumAdded ==
  ASSUME NEW f \in Seq(Byte), NEW c \in Byte, Len(f) < AdcOffset + AdcBytes,
         running_sum = Packet!Sum(f)
  PROVE  Added(c) = Packet!Sum(Append(f, c))
<1>1. /\ Append(f, c) \in Seq(Byte) /\ Len(f) \in Nat
      /\ Len(Append(f, c)) = Len(f) + 1
  BY Appended, Zenon
<1>2. Packet!Sum(Append(f, c)) \in 0 .. (SumMod - 1)
  <2>1. Len(Append(f, c)) <= AdcOffset + AdcBytes
    BY <1>1, Sizes
  <2>2. QED
    BY <1>1, <2>1, SumSmall
<1>3. Packet!Sum(Append(f, c)) = Packet!Sum(f) + c
  <2>1. f \in Seq(Nat) /\ c \in Nat
    <3>1. Byte = 0 .. (Radix - 1) /\ Radix \in Nat
      BY Sizes DEF Byte
    <3>2. QED
      BY <3>1
  <2>2. QED
    BY <2>1, SumAppend
<1>4. QED
  BY <1>2, <1>3, ModSmall, Sizes DEF Added

\* What stands before the byte appended is the sequence it was appended to.
LEMMA FrontOfAppend ==
  ASSUME NEW f \in Seq(Byte), NEW c \in Byte
  PROVE  SubSeq(Append(f, c), 1, Len(Append(f, c)) - 1) = f
OBVIOUS

\* The two trailer bytes spell the sum, as the machine computes it.
LEMMA TrailerSpellsSum ==
  ASSUME NEW s \in 0 .. (SumMod - 1), NEW hi \in Byte, NEW c \in Byte
  PROVE  (s - hi * Radix) % SumMod = c <=> s = hi * Radix + c
<1> DEFINE h == hi * Radix
<1>1. h \in Nat /\ h + c < SumMod /\ c \in Nat /\ SumMod \in Nat \ {0}
  <2>1. c + h \in Word
    BY WordFits
  <2>2. c \in Nat /\ SumMod >= Radix * Radix /\ SumMod \in Nat \ {0}
        /\ hi \in Nat /\ Radix \in Nat
    BY Sizes, DecoderAssumption
  <2>3. h \in Nat
    BY <2>2
  <2>4. c + h <= Radix * Radix - 1 /\ Radix * Radix \in Nat
    BY <2>1, <2>2 DEF Word
  <2>5. QED
    BY <2>2, <2>3, <2>4
<1> HIDE DEF h
<1>2. CASE s >= h
  <2>1. (s - h) % SumMod = s - h
    BY <1>1, <1>2, ModSmall
  <2>2. QED
    BY <1>1, <2>1 DEF h
<1>3. CASE s < h
  <2>1. s - h + SumMod \in 0 .. (SumMod - 1) /\ s - h \in Int
    BY <1>1, <1>3
  <2>2. (s - h + SumMod) % SumMod = s - h + SumMod
    BY <1>1, <2>1, ModSmall
  <2>3. (s - h + SumMod) % SumMod = (s - h) % SumMod
    BY <1>1, <2>1, ModOnce
  <2>4. (s - h) % SumMod = s - h + SumMod
    BY <2>2, <2>3
  <2>5. QED
    BY <1>1, <1>3, <2>4 DEF h
<1>4. QED
  BY <1>1, <1>2, <1>3

\* What the trailer step makes of the sum.
LEMMA TrailerTakesOut ==
  ASSUME NEW s \in 0 .. (SumMod - 1), NEW c \in Byte, running_sum = s
  PROVE  /\ (Added(c) - c - c * Radix) % SumMod = (s - c * Radix) % SumMod
         /\ (Added(c) - c) % SumMod = s
<1>1. c \in 0 .. (SumMod - 1) /\ c * Radix \in Int /\ 0 \in Int /\ SumMod \in Nat \ {0}
  BY Sizes
<1>2. (((s + c) % SumMod) - c - c * Radix) % SumMod = (s - c * Radix) % SumMod
  BY <1>1, AddedAndTaken
<1>3. (((s + c) % SumMod) - c - 0) % SumMod = (s - 0) % SumMod
  BY <1>1, AddedAndTaken
<1>4. ((s + c) % SumMod) - c - 0 = ((s + c) % SumMod) - c /\ s - 0 = s
  <2>1. s + c \in Int
    BY <1>1
  <2>2. (s + c) % SumMod \in Int /\ c \in Int
    BY <1>1, <2>1
  <2>3. QED
    BY <2>2
<1>5. (s - 0) % SumMod = s
  BY <1>1, <1>4, ModSmall
<1>6. QED
  BY <1>2, <1>3, <1>4, <1>5 DEF Added

\* Nothing is promised before the first header byte.
LEMMA SumInit == DecoderInit => SumOfFrame
BY DEF DecoderInit, SumOfFrame

\* Every byte keeps the sum that of the frame.
LEMMA SumNext ==
  ASSUME DInv, SumOfFrame, [DecoderNext]_decodeVars
  PROVE  SumOfFrame'
<1>0. DecoderTypeOK /\ FrameLengthExact /\ IndexInBounds
  BY DEF DInv
<1>1. CASE was_updated \/ UNCHANGED decodeVars
  BY <1>1 DEF was_updated, decodeVars, SumOfFrame
<1>2. ASSUME NEW c \in Byte, Header1(c) PROVE SumOfFrame'
  <2>1. CASE c = H1
    <3>1. state' = "WAIT_H2" /\ frame' = <<c>> /\ running_sum' = c
      BY <1>2, <2>1 DEF Header1
    <3>2. <<c>> = Append(<<>>, c) /\ <<>> \in Seq(Nat) /\ c \in Nat
      BY Sizes
    <3>3. Packet!Sum(<<c>>) = c
      <4>1. Packet!Sum(Append(<<>>, c)) = Packet!Sum(<<>>) + c
        BY <3>2, SumAppend, Zenon
      <4>2. QED
        BY <3>2, <4>1, SumEmpty
    <3>4. QED
      BY <2>1, <3>1, <3>3 DEF SumOfFrame
  <2>2. CASE c # H1
    BY <1>2, <2>2 DEF Header1, SumOfFrame
  <2>3. QED
    BY <2>1, <2>2
<1>3. ASSUME NEW c \in Byte,
             \/ Header2(c) /\ c = H2
             \/ Array(c) \/ Status(c) \/ Adc(c)
      PROVE SumOfFrame'
  <2>1. /\ frame \in Seq(Byte) /\ running_sum = Packet!Sum(frame)
        /\ Len(frame) < AdcOffset + AdcBytes
    <3>1. state \in {"WAIT_H2", "ARRAY", "STATUS", "ADC"}
      BY <1>3 DEF Header2, Array, Status, Adc
    <3>2. frame \in Seq(Byte) /\ running_sum = Packet!Sum(frame)
      BY <1>0, <3>1 DEF DecoderTypeOK, SumOfFrame
    <3>3. Len(frame) =
            CASE state = "WAIT_H2" -> 1
              [] state = "ARRAY"   -> 2 + field_index
              [] state = "STATUS"  -> 2 + MemSize
              [] state = "ADC"     -> 3 + MemSize + field_index
      BY <1>0, <3>1, Sizes DEF FrameLengthExact
    <3>4. Len(frame) < 3 + MemSize + AdcBytes
      <4>0. MemSize \in Nat /\ AdcBytes \in Nat \ {0}
        BY Sizes
      <4>1. CASE state = "WAIT_H2" \/ state = "STATUS"
        <5>1. Len(frame) = 1 \/ Len(frame) = 2 + MemSize
          BY <3>3, <4>1
        <5>2. QED
          BY <4>0, <5>1
      <4>2. CASE state = "ARRAY"
        <5>1. field_index \in 0 .. (MemSize - 1)
          BY <1>0, <4>2 DEF IndexInBounds
        <5>2. Len(frame) = 2 + field_index
          BY <3>3, <4>2
        <5>3. QED
          BY <4>0, <5>1, <5>2
      <4>3. CASE state = "ADC"
        <5>1. field_index \in 0 .. (AdcBytes - 1)
          BY <1>0, <4>3 DEF IndexInBounds
        <5>2. Len(frame) = 3 + MemSize + field_index
          BY <3>3, <4>3
        <5>3. QED
          BY <4>0, <5>1, <5>2
      <4>4. QED
        BY <3>1, <4>1, <4>2, <4>3
    <3>5. QED
      BY <3>2, <3>4, Sizes
  <2>2. /\ running_sum' = Added(c) /\ frame' = Append(frame, c)
        /\ state' \in {"ARRAY", "STATUS", "ADC", "WAIT_C1"}
    BY <1>3 DEF Header2, Array, Status, Adc
  <2>3. Added(c) = Packet!Sum(Append(frame, c))
    BY <2>1, SumAdded
  <2>4. QED
    BY <2>2, <2>3 DEF SumOfFrame
<1>4. ASSUME NEW c \in Byte, \/ Header2(c) /\ c # H2
                             \/ Trailer2(c)
      PROVE SumOfFrame'
  BY <1>4 DEF Header2, Trailer2, SumOfFrame
<1>5. ASSUME NEW c \in Byte, Trailer1(c) PROVE SumOfFrame'
  <2>1. /\ frame \in Seq(Byte) /\ running_sum = Packet!Sum(frame)
        /\ Len(frame) <= AdcOffset + AdcBytes
    BY <1>0, <1>5, Sizes DEF DecoderTypeOK, SumOfFrame, FrameLengthExact, Trailer1
  <2>2. /\ running_sum' = (Added(c) - c - c * Radix) % SumMod
        /\ frame' = Append(frame, c) /\ state' = "WAIT_C2"
    BY <1>5 DEF Trailer1
  <2>3. running_sum' = (Packet!Sum(frame) - c * Radix) % SumMod
    BY <2>1, <2>2, SumSmall, TrailerTakesOut
  <2>4. /\ SubSeq(frame', 1, Len(frame') - 1) = frame
        /\ frame'[Len(frame')] = c
    <3>1. /\ SubSeq(Append(frame, c), 1, Len(Append(frame, c)) - 1) = frame
          /\ Len(Append(frame, c)) = Len(frame) + 1
          /\ Append(frame, c)[Len(frame) + 1] = c
      BY <2>1, Appended, FrontOfAppend, Zenon
    <3>2. QED
      BY <2>2, <3>1
  <2>5. QED
    BY <2>2, <2>3, <2>4 DEF SumOfFrame
<1>6. QED
  BY <1>1, <1>2, <1>3, <1>4, <1>5 DEF DecoderNext, decode

\* The invariant of the refinement.
LEMMA SumInvariance == DecoderSpec => [](DInv /\ SumOfFrame)
<1>1. DecoderSpec => []DInv
  BY DecoderInvariance
<1>2. DInv /\ SumOfFrame /\ [DecoderNext]_decodeVars => SumOfFrame'
  BY SumNext
<1>3. QED
  BY <1>1, <1>2, SumInit, PTL DEF DecoderSpec

-----------------------------------------------------------------------------
(***************************************************************************)
(* The decoder receives packets                                            *)
(***************************************************************************)

\* No frame, no packet, no news.
LEMMA RefinesInit == DecoderInit => Packet!Init
BY DEF DecoderInit, Packet!Init

\* Each byte skips, collects or completes a frame, each answer of was_updated
\* is an Ask; the verdict on the frame is the one its bytes deserve.
LEMMA RefinesNext ==
  ASSUME DInv, SumOfFrame, [DecoderNext]_decodeVars
  PROVE  [Packet!Next]_Packet!packetVars
<1>0. /\ DecoderTypeOK /\ FrameLengthExact /\ IndexInBounds
      /\ frame \in Seq(Byte)
      /\ Packet!Byte = Byte
  BY DEF DInv, DecoderTypeOK, Packet!Byte, Byte
<1>1. CASE UNCHANGED decodeVars
  BY <1>1 DEF decodeVars, statVars, Packet!packetVars
<1>2. CASE was_updated
  BY <1>2 DEF was_updated, Packet!Next, Packet!Ask
<1>3. ASSUME NEW c \in Byte, Header1(c) PROVE [Packet!Next]_Packet!packetVars
  <2>1. frame = <<>> /\ UNCHANGED <<updated, good_packets, bad_packets>>
    BY <1>0, <1>3 DEF Header1, statVars, FrameLengthExact
  <2>2. CASE c = H1
    <3>1. frame' = Append(frame, c) /\ frame # <<H1>>
      BY <1>3, <2>1, <2>2 DEF Header1
    <3>2. Len(frame) < (AdcOffset + AdcBytes + 2) - 1
      BY <2>1, Sizes
    <3>3. Packet!Collect(c)
      BY <2>1, <2>2, <3>1, <3>2 DEF Packet!Collect
    <3>4. QED
      BY <1>0, <3>3 DEF Packet!Next
  <2>3. CASE c # H1
    <3>1. Packet!Skip(c)
      BY <1>3, <2>1, <2>3 DEF Header1, Packet!Skip
    <3>2. QED
      BY <1>0, <3>1 DEF Packet!Next
  <2>4. QED
    BY <2>2, <2>3
<1>4. ASSUME NEW c \in Byte, Header2(c), c # H2 PROVE [Packet!Next]_Packet!packetVars
  <2>1. Packet!Skip(c)
    BY <1>4 DEF Header2, SumOfFrame, statVars, Packet!Skip
  <2>2. QED
    BY <1>0, <2>1 DEF Packet!Next
<1>5. ASSUME NEW c \in Byte,
             \/ Header2(c) /\ c = H2
             \/ Array(c) \/ Status(c) \/ Adc(c) \/ Trailer1(c)
      PROVE [Packet!Next]_Packet!packetVars
  <2>1. state \in {"WAIT_H2", "ARRAY", "STATUS", "ADC", "WAIT_C1"}
    BY <1>5 DEF Header2, Array, Status, Adc, Trailer1
  <2>2. Len(frame) =
          CASE state = "WAIT_H2" -> 1
            [] state = "ARRAY"   -> 2 + field_index
            [] state = "STATUS"  -> 2 + MemSize
            [] state = "ADC"     -> 3 + MemSize + field_index
            [] state = "WAIT_C1" -> 3 + MemSize + AdcBytes
    BY <1>0, <2>1, Sizes DEF FrameLengthExact
  <2>3. /\ Len(frame) \in 1 .. (3 + MemSize + AdcBytes)
        /\ state # "WAIT_H2" => Len(frame) >= 2
    <3>1. CASE state \in {"WAIT_H2", "STATUS", "WAIT_C1"}
      BY <2>2, <3>1, Sizes
    <3>2. CASE state = "ARRAY"
      <4>1. Len(frame) = 2 + field_index
        BY <2>2, <3>2
      <4>2. field_index \in 0 .. (MemSize - 1)
        BY <1>0, <3>2 DEF IndexInBounds
      <4>3. QED
        BY <4>1, <4>2, Sizes
    <3>3. CASE state = "ADC"
      <4>1. Len(frame) = 3 + MemSize + field_index
        BY <2>2, <3>3
      <4>2. field_index \in 0 .. (AdcBytes - 1)
        BY <1>0, <3>3 DEF IndexInBounds
      <4>3. QED
        BY <4>1, <4>2, Sizes
    <3>4. QED
      BY <2>1, <3>1, <3>2, <3>3
  <2>4. Len(frame) < (AdcOffset + AdcBytes + 2) - 1
    BY <2>3, Sizes
  <2>5. frame # <<>> /\ (frame = <<H1>> => c = H2)
    <3>1. state = "WAIT_H2" => c = H2
      BY <1>5 DEF Header2, Array, Status, Adc, Trailer1
    <3>2. Len(<<>>) = 0 /\ Len(<<H1>>) = 1
      OBVIOUS
    <3>3. CASE state = "WAIT_H2"
      <4>1. Len(frame) # 0
        BY <2>3
      <4>2. QED
        BY <3>1, <3>2, <3>3, <4>1, Zenon
    <3>4. CASE state # "WAIT_H2"
      <4>1. Len(frame) # 0 /\ Len(frame) # 1
        BY <2>3, <3>4, Sizes
      <4>2. QED
        BY <3>2, <4>1, Zenon
    <3>5. QED
      BY <3>3, <3>4
  <2>6. frame' = Append(frame, c) /\ UNCHANGED <<updated, good_packets, bad_packets>>
    BY <1>5 DEF Header2, Array, Status, Adc, Trailer1, statVars
  <2>7. Packet!Collect(c)
    BY <2>4, <2>5, <2>6 DEF Packet!Collect
  <2>8. QED
    BY <1>0, <2>7 DEF Packet!Next
<1>6. ASSUME NEW c \in Byte, Trailer2(c) PROVE [Packet!Next]_Packet!packetVars
  <2> DEFINE n == AdcOffset + AdcBytes
             body == SubSeq(frame, 1, n)
             hi == frame[n + 1]
  <2>1. /\ Len(frame) = n + 1 /\ n \in Nat
        /\ running_sum = (Packet!Sum(SubSeq(frame, 1, Len(frame) - 1))
                            - frame[Len(frame)] * Radix) % SumMod
        /\ running_sum \in 0 .. (SumMod - 1)
    <3>1. state = "WAIT_C2"
      BY <1>6 DEF Trailer2
    <3>2. QED
      <4>1. Len(frame) = n + 1
        BY <1>0, <3>1 DEF FrameLengthExact
      <4>2. n \in Nat
        BY Sizes
      <4>3. QED
        BY <1>0, <3>1, <4>1, <4>2 DEF SumOfFrame, DecoderTypeOK
  <2>2. (n + 1) - 1 = n /\ (n + 2) - 1 = n + 1 /\ (n + 2) - 2 = n
    BY <2>1
  <2>3. running_sum = (Packet!Sum(body) - hi * Radix) % SumMod
    BY <2>1, <2>2
  <2>4. body \in Seq(Byte) /\ Len(body) = n /\ hi \in Byte
    BY <1>0, <2>1
  <2>5. Packet!Sum(body) \in 0 .. (SumMod - 1)
    <3>1. Len(body) <= AdcOffset + AdcBytes
      BY <2>1, <2>4
    <3>2. QED
      BY <2>4, <3>1, SumSmall
  <2>6. (Added(c) - c) % SumMod = running_sum
    BY <2>1, TrailerTakesOut
  <2>7. running_sum = c <=> Packet!Sum(body) = hi * Radix + c
    BY <2>3, <2>4, <2>5, TrailerSpellsSum
  <2> DEFINE good == Packet!Sum(SubSeq(frame, 1, (n + 2) - 2))
                       = frame[(n + 2) - 1] * Radix + c
  <2>8. running_sum = c <=> good
    BY <2>2, <2>7
  <2> HIDE DEF n, body, hi
  <2>9. /\ frame' = <<>>
        /\ IF good
             THEN /\ updated' = TRUE
                  /\ good_packets' = (good_packets + 1) % CountMod
                  /\ UNCHANGED bad_packets
             ELSE /\ bad_packets' = (bad_packets + 1) % CountMod
                  /\ UNCHANGED <<updated, good_packets>>
    <3> HIDE DEF good
    <3>1. QED
      BY <1>6, <2>6, <2>8 DEF Trailer2
  <2>10. good <=> Packet!Good(c)
    BY DEF Packet!Good, n
  <2>11. Len(frame) = (AdcOffset + AdcBytes + 2) - 1
    BY <2>1, <2>2 DEF n
  <2> HIDE DEF good
  <2>12. Packet!Complete(c)
    BY <2>9, <2>10, <2>11 DEF Packet!Complete
  <2>13. QED
    BY <1>0, <2>12 DEF Packet!Next
<1>7. QED
  BY <1>1, <1>2, <1>3, <1>4, <1>5, <1>6 DEF DecoderNext, decode

\* decode() with its static locals accepts exactly the frames whose checksum is
\* right, for packets and bytes of any size, although its sum wraps and the
\* trailer is taken out of it modulo 2^32.
THEOREM DecoderImplements == DecoderSpec => ImplementsPacket
<1>1. DecoderInit => Packet!Init
  BY RefinesInit
<1>2. DInv /\ SumOfFrame /\ [DecoderNext]_decodeVars => [Packet!Next]_Packet!packetVars
  BY RefinesNext
<1>3. QED
  BY <1>1, <1>2, SumInvariance, PTL DEF DecoderSpec, ImplementsPacket, Packet!Spec

-----------------------------------------------------------------------------
(***************************************************************************)
(* GUI looks at the image while it is being filled                         *)
(***************************************************************************)

\* Asking for news and taking a byte are the decoder's own steps.
LEMMA DisplayStepIsDecoderStep == [DisplayNext]_displayVars => [DecoderNext]_decodeVars
BY DEF DisplayNext, displayVars, RenewTexts, Decode, DecoderNext

\* The decoder's invariant holds with GUI looking on.
LEMMA DisplayInvariance == DisplaySpec => []DInv
<1>1. DisplayInit => DecoderInit
  BY DEF DisplayInit
<1>2. DisplaySpec => DecoderSpec
  BY <1>1, DisplayStepIsDecoderStep, PTL DEF DisplaySpec, DecoderSpec
<1>3. QED
  BY <1>2, DecoderInvariance, PTL

\* So it does with GUI looking on.
THEOREM DisplayImplements == DisplaySpec => ImplementsPacket
<1>1. DisplayInit => DecoderInit
  BY DEF DisplayInit
<1>2. DisplaySpec => DecoderSpec
  BY <1>1, DisplayStepIsDecoderStep, PTL DEF DisplaySpec, DecoderSpec
<1>3. QED
  BY <1>2, DecoderImplements, PTL

\* A byte changes nothing behind the place it goes to.
LEMMA ByteKeepsRest ==
  ASSUME DInv, RestOfLastFrame, NEW c \in Byte, decode(c), state # "WAIT_C2",
         UNCHANGED last
  PROVE  RestOfLastFrame'
<1> USE DEF HaveMem, HaveAdc
<1>1. /\ DecoderTypeOK /\ IndexInBounds
      /\ MemSize \in Nat \ {0} /\ AdcChannels \in Nat \ {0}
      /\ AdcBytes = 2 * AdcChannels
  BY DecoderAssumption DEF DInv, AdcBytes
<1>2. CASE Header1(c) \/ Header2(c)
  <2>1. HaveMem = 0 /\ HaveAdc = 0 /\ HaveMem' = 0 /\ HaveAdc' = 0
        /\ UNCHANGED <<ebl_mem, ebl_adc>>
    BY <1>2 DEF Header1, Header2, imageVars
  <2>2. QED
    BY <2>1 DEF RestOfLastFrame
<1>3. CASE Array(c)
  <2>1. /\ HaveMem = field_index /\ HaveMem' = field_index + 1
        /\ HaveAdc = 0 /\ HaveAdc' = 0
        /\ field_index \in Int
        /\ ebl_mem' = [ebl_mem EXCEPT ![field_index] = c]
        /\ UNCHANGED ebl_adc
    BY <1>1, <1>3 DEF Array, IndexInBounds
  <2>2. \A i \in (field_index + 1) .. (MemSize - 1) :
          i \in field_index .. (MemSize - 1) /\ ebl_mem'[i] = ebl_mem[i]
    BY <1>1, <1>3, <2>1 DEF DecoderTypeOK, Array, IndexInBounds
  <2>3. QED
    BY <2>1, <2>2 DEF RestOfLastFrame
<1>4. CASE Status(c)
  <2>1. HaveMem = MemSize /\ HaveAdc = 0 /\ HaveMem' = MemSize /\ HaveAdc' = 0
        /\ UNCHANGED <<ebl_mem, ebl_adc>>
    BY <1>4 DEF Status, imageVars
  <2>2. QED
    BY <2>1 DEF RestOfLastFrame
<1>5. CASE Adc(c)
  <2>1. /\ HaveMem = MemSize /\ HaveMem' = MemSize
        /\ HaveAdc = field_index /\ HaveAdc' = field_index + 1
        /\ field_index \in Int
        /\ UNCHANGED ebl_mem
    BY <1>1, <1>5 DEF Adc, IndexInBounds
  <2>2. ASSUME NEW w \in 0 .. (AdcChannels - 1), field_index + 1 <= 2 * w
        PROVE  field_index <= 2 * w /\ ebl_adc'[w] = ebl_adc[w]
    <3>1. w # field_index \div 2
      BY <2>1, <2>2
    <3>2. QED
      BY <1>1, <1>5, <2>1, <2>2, <3>1 DEF Adc, DecoderTypeOK
  <2>3. QED
    BY <2>1, <2>2 DEF RestOfLastFrame
<1>6. CASE Trailer1(c)
  <2>1. HaveMem' = HaveMem /\ HaveAdc' = HaveAdc /\ UNCHANGED <<ebl_mem, ebl_adc>>
    BY <1>6 DEF Trailer1, imageVars
  <2>2. QED
    BY <2>1 DEF RestOfLastFrame
<1>7. QED
  BY <1>2, <1>3, <1>4, <1>5, <1>6 DEF decode, Trailer2

\* What GUI draws mixes two frames at most, at whatever byte it looks.
THEOREM TwoFramesAtMost == DisplaySpec => []RestOfLastFrame
<1>1. DisplayInit => RestOfLastFrame
  BY DEF DisplayInit, RestOfLastFrame, Image
<1>2. DInv /\ RestOfLastFrame /\ [DisplayNext]_displayVars => RestOfLastFrame'
  <2> SUFFICES ASSUME DInv, RestOfLastFrame, [DisplayNext]_displayVars
               PROVE  RestOfLastFrame'
    OBVIOUS
  <2>1. CASE RenewTexts \/ UNCHANGED displayVars
    BY <2>1 DEF RenewTexts, was_updated, displayVars, decodeVars, imageVars,
       RestOfLastFrame, HaveMem, HaveAdc
  <2>2. CASE Decode
    <3>1. PICK c \in Byte : decode(c)
      BY <2>2 DEF Decode
    <3>2. CASE state = "WAIT_C2"
      <4>1. last' = <<ebl_mem, ebl_adc>> /\ UNCHANGED <<ebl_mem, ebl_adc>>
        BY <2>2, <3>1, <3>2 DEF Decode, Image, decode, Header1, Header2, Array, Status,
           Adc, Trailer1, Trailer2, imageVars
      <4>2. QED
        BY <4>1 DEF RestOfLastFrame
    <3>3. CASE state # "WAIT_C2"
      BY <2>2, <3>1, <3>3, ByteKeepsRest DEF Decode
    <3>4. QED
      BY <3>2, <3>3
  <2>3. QED
    BY <2>1, <2>2 DEF DisplayNext
<1>3. QED
  BY <1>1, <1>2, DisplayInvariance, PTL DEF DisplaySpec
=============================================================================
