------------------------------ MODULE MCGauges ------------------------------
(***************************************************************************)
(* Gauges over every reading of the 10-bit ADC and every byte, and over    *)
(* trouble code registers with no, one, several and all bits set.          *)
(***************************************************************************)
EXTENDS Gauges

AllCounts == 0 .. 1023
SomeCodeBytes == {0, 1, 8, 128, 146, 255}
=============================================================================
