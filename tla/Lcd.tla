--------------------------------- MODULE Lcd ---------------------------------
(***************************************************************************)
(* The display of the FLD-V2 board and its driver (src/board_fld_v2.cpp):  *)
(* the messages u8glib gives u8g_com_hw_spi_fn, what they do to the pins   *)
(* and the SPI port, what the controller on the other end makes of it, and *)
(* the sequences of messages u8g_board_dev_fn sends.                       *)
(*                                                                         *)
(* The controller is external: it is modelled from the comments on the     *)
(* commands the driver sends it.  A byte is a tuple: its meaning (command  *)
(* or picture) is not in the byte, it depends on the A0 pin.               *)
(***************************************************************************)
EXTENDS Integers, Sequences

CONSTANTS
  Pages,    \* HEIGHT / PAGE_HEIGHT: 8
  WIDTH,    \* columns: 128
  Nibble    \* values of half a column address: 16

ASSUME LcdAssumption ==
  /\ Pages \in Nat \ {0}
  /\ WIDTH \in Nat \ {0}
  /\ Nibble \in Nat \ {0}

Page == 0 .. (Pages - 1)
Column == 0 .. (WIDTH - 1)

Blank == <<"blank">>
Noise == <<"noise">>

\* Power on: the ports leave all pins low, which holds the controller in reset
\* and selects it; the memory holds anything.
PowerOn == [
  spi |-> FALSE, rst |-> 0, cs |-> 1, a0 |-> 0,
  on |-> FALSE, all_points |-> FALSE, volume |-> "default", command |-> "none",
  page |-> 0, column |-> 0,
  ram |-> [pg \in Page |-> [cl \in Column |-> Noise]]]

-----------------------------------------------------------------------------
(***************************************************************************)
(* The controller                                                          *)
(***************************************************************************)

\* The column address is set in two halves and counts up with each byte of
\* the picture; past the last column nothing is stored.
Pixels(lcd, byte) ==
  IF lcd.column \notin Column THEN lcd
  ELSE [lcd EXCEPT !.ram[lcd.page][lcd.column] = byte, !.column = @ + 1]

\* The volume command (0x81) takes the byte after it as its value.
Command(lcd, byte) ==
  IF lcd.command = "volume"
    THEN [lcd EXCEPT !.volume = byte, !.command = "none"]
    ELSE CASE byte[1] = "volume" -> [lcd EXCEPT !.command = "volume"]
           [] byte[1] = "page" -> [lcd EXCEPT !.page = byte[2]]
           [] byte[1] = "column_high" ->
                [lcd EXCEPT !.column = byte[2] * Nibble + (@ % Nibble)]
           [] byte[1] = "column_low" ->
                [lcd EXCEPT !.column = (@ \div Nibble) * Nibble + byte[2]]
           [] byte[1] = "display_on" -> [lcd EXCEPT !.on = TRUE]
           [] byte[1] = "all_points" -> [lcd EXCEPT !.all_points = byte[2]]
           [] OTHER -> lcd

Received(lcd, byte) ==
  IF ~lcd.spi \/ lcd.rst = 0 \/ lcd.cs = 0 THEN lcd
  ELSE IF lcd.a0 = 1 THEN Pixels(lcd, byte) ELSE Command(lcd, byte)

\* The low level of /RST: all is as after power on, but for the memory.
ResetLow(lcd) ==
  [PowerOn EXCEPT !.spi = lcd.spi, !.cs = lcd.cs, !.a0 = lcd.a0, !.ram = lcd.ram]

-----------------------------------------------------------------------------
(***************************************************************************)
(* The driver.  cs and a0 are the arguments of the messages: the CS pin is *)
(* low when the display is selected.                                       *)
(***************************************************************************)

Msg(msg, arg) == [msg |-> msg, arg |-> arg]

\* The state after a sequence of inputs, each of which F takes the state
\* through, as a set of one (which has TLC look at each input once).
Through(F(_, _), lcd, inputs) ==
  LET after[n \in 0 .. Len(inputs)] ==
        IF n = 0 THEN {lcd} ELSE {F(l, inputs[n]) : l \in after[n - 1]}
  IN  after[Len(inputs)]

TheOne(S) == CHOOSE x \in S : TRUE

u8g_com_hw_spi_fn(lcd, m) ==
  CASE m.msg = "INIT" -> [lcd EXCEPT !.spi = TRUE]
    [] m.msg = "STOP" -> [lcd EXCEPT !.spi = FALSE]
    [] m.msg = "ADDRESS" -> [lcd EXCEPT !.a0 = m.arg]
    [] m.msg = "CHIP_SELECT" -> [lcd EXCEPT !.cs = m.arg]
    [] m.msg = "RESET" -> IF m.arg = 0 THEN ResetLow(lcd) ELSE [lcd EXCEPT !.rst = 1]
    [] m.msg = "WRITE_BYTE" -> Received(lcd, m.arg)
    [] m.msg = "WRITE_SEQ" -> TheOne(Through(Received, lcd, m.arg))

\* What a script of messages makes of the display.
Sent(lcd, script) == TheOne(Through(u8g_com_hw_spi_fn, lcd, script))

SetAddress(a) == <<Msg("ADDRESS", a)>>
SetChipSelect(s) == <<Msg("CHIP_SELECT", s)>>
WriteByte(byte) == <<Msg("WRITE_BYTE", byte)>>

\* The initialisation sequence, cut where it has a delay: after each part but
\* the last, u8g_Delay is called with the delay of the same number.
u8g_dev_init_seq == <<
  <<Msg("INIT", 0)>> \o SetChipSelect(0) \o SetAddress(0) \o <<Msg("RESET", 0)>>,
  <<Msg("RESET", 1)>>,
  SetChipSelect(1) \o WriteByte(<<"display_on">>) \o WriteByte(<<"setup">>)
    \o WriteByte(<<"all_points", FALSE>>) \o WriteByte(<<"volume">>)
    \o WriteByte(<<"value", 37>>),
  WriteByte(<<"all_points", TRUE>>),
  WriteByte(<<"all_points", FALSE>>) \o SetChipSelect(0) >>

init_delays == <<18, 1, 100, 100>>

\* Mutant: only the upper half of the column address is reset.
u8g_dev_data_start_HalfColumn ==
  SetAddress(0) \o SetChipSelect(1) \o WriteByte(<<"column_high", 0>>)

u8g_dev_data_start ==
  SetAddress(0) \o SetChipSelect(1) \o WriteByte(<<"column_high", 0>>)
    \o WriteByte(<<"column_low", 0>>)

\* One page of bytes, to its place in the memory.
WritePage(pg, bytes) ==
  u8g_dev_data_start \o WriteByte(<<"page", pg>>) \o SetAddress(1)
    \o <<Msg("WRITE_SEQ", bytes)>> \o SetChipSelect(0)

ClearPage(lcd, pg) == Sent(lcd, WritePage(pg, [cl \in 1 .. WIDTH |-> Blank]))

\* The last part of U8G_DEV_MSG_INIT: every page is cleared.
ClearPages(lcd) == TheOne(Through(ClearPage, lcd, [i \in 1 .. Pages |-> i - 1]))

\* Mutant: the value of the contrast is not sent.
SetContrast_NoValue(value) ==
  SetChipSelect(1) \o SetAddress(0) \o WriteByte(<<"volume">>) \o SetChipSelect(0)

\* U8G_DEV_MSG_CONTRAST
SetContrast(value) ==
  SetChipSelect(1) \o SetAddress(0) \o WriteByte(<<"volume">>)
    \o WriteByte(<<"value", value \div 4>>) \o SetChipSelect(0)
=============================================================================
