------------------------------- MODULE Gauges -------------------------------
(***************************************************************************)
(* What the gauges make of the image in ebl_mem and ebl_adc: the           *)
(* conversions of src/ebl.cpp, in the integers the floats of the code      *)
(* round to, and the texts UI::tick (src/ui.cpp) builds from them: a gauge *)
(* as its number, whose unit counts only for the length of the text.       *)
(*                                                                         *)
(* The state is the image; every step is another packet.                   *)
(***************************************************************************)
EXTENDS Integers, Sequences, FiniteSets

CONSTANTS
  Counts,    \* readings of the 10-bit ADC, each sent with the byte Count % 256
  CodeBytes  \* bytes for the three trouble code registers

ASSUME GaugesAssumption ==
  /\ Counts \subseteq 0 .. 1023
  /\ CodeBytes \subseteq 0 .. 255
  /\ 0 \in Counts

VARIABLES ebl_mem, ebl_adc

gaugeVars == <<ebl_mem, ebl_adc>>

CodeAddresses == {\h12, \h13, \h14}
Addresses == {\h01, \h0b, \h34, \h45, \he3, \hf3} \union CodeAddresses
Channels == {1, 2}

Bit(byte, k) == (byte \div 2^k) % 2 = 1

\* roundf(x / y) for x >= 0 and y > 0: to the nearest, halves away from zero.
Rounded(x, y) == (2 * x + y) \div (2 * y)

-----------------------------------------------------------------------------
(***************************************************************************)
(* Conversions                                                             *)
(***************************************************************************)

engine_speed == ebl_mem[\hf3] * 31 + ebl_mem[\hf3] \div 4

ground_speed == ebl_mem[\h34]

\* The constant 8.192F is the float 8589935 / 2^20, and a quotient by it that
\* would end in .5 exactly (512 counts) falls just short of it.
PerPsi(counts) == Rounded(counts * 2^20, 8589935)

\* Mutant: the zero offset is subtracted from any reading; the unsigned then
\* wraps, here divided by 8.192.
oil_pressure_Wraps ==
  IF ebl_adc[2] < 102 THEN 524287000 + ebl_adc[2] ELSE PerPsi(ebl_adc[2] - 102)

\* The branch that would cut the reading off at 921 is never taken: it is the
\* "else" of counts > 102.
oil_pressure ==
  PerPsi(IF ebl_adc[2] > 102 THEN ebl_adc[2] - 102 ELSE ebl_adc[2])

water_temperature ==
  IF 3 * ebl_mem[\he3] < 160 THEN 0 ELSE Rounded(3 * ebl_mem[\he3] - 160, 4)

voltage == ebl_mem[\h45]

\* Ten times the ratio, the offset 9.6 included.
afr == Rounded(100 * ebl_adc[1] + 96 * 1024, 1024)

ses_set == Bit(ebl_mem[\h0b], 0)

engine_running == Bit(ebl_mem[\h01], 7)

\* The known trouble codes by priority: address, bit and name.
Codes == <<
  <<\h12, 0, "VSS   ">>, <<\h12, 1, "IAT LO">>, <<\h12, 2, "TPS LO">>,
  <<\h12, 3, "TPS HI">>, <<\h12, 4, "CTS LO">>, <<\h12, 5, "CTS HI">>,
  <<\h12, 6, "O2    ">>, <<\h12, 7, "DRP   ">>, <<\h13, 0, "EST   ">>,
  <<\h13, 3, "MAP LO">>, <<\h13, 4, "MAP HI">>, <<\h13, 7, "IAT HI">>,
  <<\h14, 0, "ADU   ">>, <<\h14, 1, "FP RLY">>, <<\h14, 2, "VATS  ">>,
  <<\h14, 3, "CALPAK">>, <<\h14, 4, "PROM  ">>, <<\h14, 5, "O2 RH ">>,
  <<\h14, 6, "O2 LN ">>, <<\h14, 7, "ESC   ">> >>

IsSet(code) == Bit(ebl_mem[code[1]], code[2])

\* Mutant: the index counts down past codes that are not set, too.
Test_CountsAll(chain, code) ==
  IF chain.answer # "nullptr" THEN chain
  ELSE IF chain.index <= 0 /\ IsSet(code) THEN [chain EXCEPT !.answer = code[3]]
  ELSE [chain EXCEPT !.index = @ - 1]

\* A link of the chain of tests: a code that is set is the answer if the index
\* has come down to 0, and takes the index down otherwise.
Test(chain, code) ==
  IF chain.answer # "nullptr" \/ ~IsSet(code) THEN chain
  ELSE IF chain.index = 0 THEN [chain EXCEPT !.answer = code[3]]
  ELSE [chain EXCEPT !.index = @ - 1]

dtc_string(dtc_index) ==
  LET after[k \in 0 .. Len(Codes)] ==
        IF k = 0 THEN [index |-> dtc_index, answer |-> "nullptr"]
        ELSE Test(after[k - 1], Codes[k])
  IN  after[Len(Codes)].answer

CheckEngine(code) == "CHECK ENGINE [" \o code \o "]"

ebl_status ==
  IF ses_set THEN CheckEngine(IF dtc_string(0) = "nullptr" THEN "??????"
                              ELSE dtc_string(0))
    ELSE IF engine_running THEN "OK                   "
    ELSE "NOT RUNNING          "

\* The texts as the source pads them.
ASSUME TextsPadded ==
  /\ \A k \in 1 .. Len(Codes) : Len(CheckEngine(Codes[k][3])) = 21
  /\ Len(CheckEngine("??????")) = 21
  /\ Len("OK                   ") = 21
  /\ Len("NOT RUNNING          ") = 21

-----------------------------------------------------------------------------

Init ==
  /\ ebl_mem = [a \in Addresses |-> 0]
  /\ ebl_adc = [ch \in Channels |-> 0]

\* A packet whose readings run through the ranges of the sensors.
Readings ==
  \E n \in Counts :
    /\ ebl_mem' = [a \in Addresses |-> n % 256]
    /\ ebl_adc' = [ch \in Channels |-> n]

\* A packet that reports trouble codes, with the lamp on or off.
Troubles ==
  \E codes \in [CodeAddresses -> CodeBytes], lamp \in {0, 1} :
    /\ ebl_mem' = [a \in Addresses |->
                     IF a \in CodeAddresses THEN codes[a] ELSE lamp]
    /\ ebl_adc' = [ch \in Channels |-> 0]

Next == Readings \/ Troubles

Spec == Init /\ [][Next]_gaugeVars

-----------------------------------------------------------------------------
(***************************************************************************)
(* Properties                                                              *)
(***************************************************************************)

PowersOfTen ==
  {10, 100, 1000, 10000, 100000, 1000000, 10000000, 100000000, 1000000000}
Digits(n) == Cardinality({p \in PowersOfTen : p <= n}) + 1

\* A number, its unit or its point and one more digit, and the final NUL.
NumbersFit ==
  /\ Digits(ground_speed) + 3 + 1 <= 8
  /\ Digits(engine_speed) + 3 + 1 <= 8
  /\ Digits(water_temperature) + 1 + 1 <= 8
  /\ Digits(oil_pressure) + 1 + 1 <= 8
  /\ Digits(voltage \div 10) + 1 + 1 + 1 + 1 <= 8
  /\ Digits(afr \div 10) + 1 + 1 + 1 <= 8

\* sprintf never writes past the eight bytes of a gauge's text or the 22 of the
\* status, unit and final NUL included: "7968rpm" and a trouble code fill theirs
\* to the last byte.
TextsFit == NumbersFit /\ Len(ebl_status) + 1 <= 22

\* The number of codes that are set among the first k.
SetAmong(k) == Cardinality({n \in 1 .. k : IsSet(Codes[n])})

\* dtc_string(i) is the i-th of the codes that are set, in order of priority,
\* and null beyond the last: counting up finds every code once.
CodesInPriorityOrder ==
  /\ \A k \in 1 .. Len(Codes) :
       IsSet(Codes[k]) => dtc_string(SetAmong(k - 1)) = Codes[k][3]
  /\ \A i \in SetAmong(Len(Codes)) .. 255 : dtc_string(i) = "nullptr"

\* The sensor the comment in oil_pressure describes: no pressure up to 0.5 V
\* (102.4 counts), 100 psi at the end of its span.
OilPressureInSensorRange ==
  /\ ebl_adc[2] <= 102 => oil_pressure = 0
  /\ oil_pressure <= 100
=============================================================================
