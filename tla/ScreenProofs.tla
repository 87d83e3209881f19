----------------------------- MODULE ScreenProofs -----------------------------
(***************************************************************************)
(* Proofs about Screen, for a display of any size, any stream of keys and  *)
(* of packets, and any contrasts.                                          *)
(*                                                                         *)
(* Through is recursive: what a script of any length does to the display   *)
(* follows from an induction over the messages, which is one over a set of *)
(* numbers (Induction), as no prover takes an operator for its parameter.  *)
(***************************************************************************)
EXTENDS Screen, TLAPS, NaturalsInduction, WellFoundedInduction

\* Induction, as a fact about sets: a set that holds 0, and with each number
\* the next, holds them all.
LEMMA Induction ==
  ASSUME NEW S, 0 \in S, \A n \in Nat : n \in S => n + 1 \in S
  PROVE  \A n \in Nat : n \in S
<1> SUFFICES ASSUME Nat \ S # {} PROVE FALSE
  OBVIOUS
<1> DEFINE missing == Nat \ S
<1>1. PICK least \in missing : \A n \in missing : ~(<<n, least>> \in OpToRel(<, Nat))
  <2>1. missing \subseteq Nat
    OBVIOUS
  <2>2. QED
    BY <2>1, NatLessThanWellFounded, WFMin
<1>2. \A n \in missing : ~(n < least)
  BY <1>1 DEF OpToRel
<1>3. least \in Nat /\ least # 0 /\ least - 1 \in Nat
  OBVIOUS
<1>4. least - 1 \in S
  BY <1>2, <1>3
<1>5. least - 1 + 1 = least
  BY <1>3
<1>6. QED
  BY <1>3, <1>4, <1>5

\* Two functions that agree at 0, and at each number if at the one before,
\* agree.
LEMMA SameSteps ==
  ASSUME NEW N \in Nat, NEW g, NEW h, g[0] = h[0],
         \A n \in 1 .. N : g[n - 1] = h[n - 1] => g[n] = h[n]
  PROVE  g[N] = h[N]
<1> DEFINE Same == {n \in Nat : n <= N => g[n] = h[n]}
<1>1. 0 \in Same
  OBVIOUS
<1>2. ASSUME NEW n \in Nat, n \in Same PROVE n + 1 \in Same
  <2> SUFFICES ASSUME n + 1 <= N PROVE g[n + 1] = h[n + 1]
    OBVIOUS
  <2>1. n + 1 \in 1 .. N /\ n + 1 - 1 = n /\ g[n] = h[n]
    BY <1>2
  <2>2. QED
    BY <2>1
<1> HIDE DEF Same
<1>3. N \in Same
  BY <1>1, <1>2, Induction
<1>4. QED
  BY <1>3 DEF Same

\* h is the run of the display through the first n messages of script.
Run(h, l, script, n) ==
  /\ h = [k \in 0 .. n |-> h[k]]
  /\ h[0] = l
  /\ \A k \in 1 .. n : h[k] = u8g_com_hw_spi_fn(h[k - 1], script[k])

\* Each run can be continued by a message.
LEMMA RunExists ==
  ASSUME NEW l, NEW script, NEW N \in Nat
  PROVE  \E h : Run(h, l, script, N)
<1> DEFINE Fine == {n \in Nat : \E h : Run(h, l, script, n)}
<1>1. 0 \in Fine
  <2> DEFINE h == [k \in 0 .. 0 |-> l]
  <2>1. h = [k \in 0 .. 0 |-> h[k]] /\ h[0] = l
    OBVIOUS
  <2> HIDE DEF h
  <2>2. Run(h, l, script, 0)
    BY <2>1 DEF Run
  <2>3. QED
    BY <2>2
<1>2. ASSUME NEW n \in Nat, n \in Fine PROVE n + 1 \in Fine
  <2>1. PICK g : Run(g, l, script, n)
    BY <1>2
  <2> DEFINE last == u8g_com_hw_spi_fn(g[n], script[n + 1])
             h == [k \in 0 .. (n + 1) |-> IF k = n + 1 THEN last ELSE g[k]]
  <2> HIDE DEF last
  <2>2. h = [k \in 0 .. (n + 1) |-> h[k]]
    OBVIOUS
  <2>3. /\ h[n + 1] = last
        /\ \A k \in 0 .. n : h[k] = g[k]
    OBVIOUS
  <2> HIDE DEF h
  <2>4. h[0] = l
    BY <2>1, <2>3 DEF Run
  <2>5. ASSUME NEW k \in 1 .. (n + 1)
        PROVE  h[k] = u8g_com_hw_spi_fn(h[k - 1], script[k])
    <3>1. CASE k = n + 1
      <4>1. k - 1 = n /\ h[k - 1] = g[n]
        BY <2>3, <3>1
      <4>2. QED
        BY <2>3, <3>1, <4>1 DEF last
    <3>2. CASE k # n + 1
      <4>1. k \in 1 .. n /\ k - 1 \in 0 .. n /\ k \in 0 .. n
        BY <3>2
      <4>2. QED
        BY <2>1, <2>3, <4>1 DEF Run
    <3>3. QED
      BY <3>1, <3>2
  <2>6. Run(h, l, script, n + 1)
    BY <2>2, <2>4, <2>5 DEF Run
  <2>7. QED
    BY <2>6
<1> HIDE DEF Fine
<1>3. N \in Fine
  BY <1>1, <1>2, Induction
<1>4. QED
  BY <1>3 DEF Fine

\* What is chosen from a set of one.
LEMMA OneOf == ASSUME NEW x PROVE TheOne({x}) = x
BY DEF TheOne

\* Sent is the end of the run through the whole script.
LEMMA SentIsRun ==
  ASSUME NEW l, NEW script, Len(script) \in Nat, NEW h, Run(h, l, script, Len(script))
  PROVE  Sent(l, script) = h[Len(script)]
<1> DEFINE N == Len(script)
           After(g) == g = [n \in 0 .. N |->
                              IF n = 0 THEN {l}
                              ELSE {u8g_com_hw_spi_fn(x, script[n]) : x \in g[n - 1]}]
           sets == [n \in 0 .. N |-> {h[n]}]
           after == CHOOSE g : After(g)
<1>0. N \in Nat
  OBVIOUS
<1>1. Sent(l, script) = TheOne(after[N])
  BY DEF Sent, Through
<1>2. After(sets)
  <2>1. ASSUME NEW n \in 0 .. N
        PROVE  {h[n]} = IF n = 0 THEN {l}
                        ELSE {u8g_com_hw_spi_fn(x, script[n]) : x \in sets[n - 1]}
    <3>1. CASE n = 0
      BY <3>1 DEF Run
    <3>2. CASE n # 0
      <4>1. n \in 1 .. N /\ n - 1 \in 0 .. N
        BY <3>2
      <4>2. sets[n - 1] = {h[n - 1]}
        BY <4>1
      <4>3. h[n] = u8g_com_hw_spi_fn(h[n - 1], script[n])
        BY <4>1 DEF Run
      <4> HIDE DEF sets
      <4>4. QED
        BY <3>2, <4>2, <4>3
    <3>3. QED
      BY <3>1, <3>2
  <2>2. QED
    BY <2>1
<1>3. After(after)
  BY <1>2
<1> HIDE DEF after, sets
<1>4. after[0] = sets[0]
  BY <1>0, <1>2, <1>3
<1>5. ASSUME NEW n \in 1 .. N, after[n - 1] = sets[n - 1] PROVE after[n] = sets[n]
  <2>1. n \in 0 .. N /\ n # 0
    BY <1>0
  <2>2. after[n] = {u8g_com_hw_spi_fn(x, script[n]) : x \in after[n - 1]}
    BY <1>3, <2>1
  <2>3. sets[n] = {u8g_com_hw_spi_fn(x, script[n]) : x \in sets[n - 1]}
    BY <1>2, <2>1
  <2>4. QED
    BY <1>5, <2>2, <2>3
<1>6. after[N] = sets[N]
  BY <1>0, <1>4, <1>5, SameSteps
<1>7. sets[N] = {h[N]}
  BY <1>0 DEF sets
<1>8. QED
  BY <1>1, <1>6, <1>7, OneOf

\* Sending nothing does nothing.
LEMMA SentNothing == ASSUME NEW l PROVE Sent(l, <<>>) = l
<1>1. Len(<<>>) = 0 /\ 0 \in Nat
  OBVIOUS
<1>2. PICK h : Run(h, l, <<>>, 0)
  BY <1>1, RunExists
<1>3. Sent(l, <<>>) = h[0]
  BY <1>1, <1>2, SentIsRun
<1>4. QED
  BY <1>2, <1>3 DEF Run

\* A script and one more message.
LEMMA SentThen ==
  ASSUME NEW l, NEW M, NEW script \in Seq(M), NEW m \in M
  PROVE  Sent(l, script \o <<m>>) = u8g_com_hw_spi_fn(Sent(l, script), m)
<1> DEFINE N == Len(script)
           longer == script \o <<m>>
<1>1. /\ N \in Nat /\ Len(longer) = N + 1
      /\ \A k \in 1 .. N : longer[k] = script[k]
      /\ longer[N + 1] = m
  OBVIOUS
<1> HIDE DEF longer
<1>2. PICK h : Run(h, l, longer, N + 1)
  <2>1. N + 1 \in Nat
    BY <1>1
  <2>2. QED
    BY <2>1, RunExists, Zenon
<1>3. Sent(l, longer) = h[N + 1]
  BY <1>1, <1>2, SentIsRun
<1> DEFINE g == [k \in 0 .. N |-> h[k]]
<1>4. Run(g, l, script, N)
  <2>1. g = [k \in 0 .. N |-> g[k]] /\ g[0] = h[0]
    BY <1>1
  <2>2. ASSUME NEW k \in 1 .. N
        PROVE  g[k] = u8g_com_hw_spi_fn(g[k - 1], script[k])
    <3>1. k \in 1 .. (N + 1) /\ k \in 0 .. N /\ k - 1 \in 0 .. N
      BY <1>1
    <3>2. h[k] = u8g_com_hw_spi_fn(h[k - 1], longer[k])
      BY <1>2, <3>1 DEF Run
    <3>3. QED
      BY <1>1, <3>1, <3>2
  <2> HIDE DEF g
  <2>3. QED
    BY <1>2, <2>1, <2>2 DEF Run
<1>5. Sent(l, script) = g[N]
  BY <1>1, <1>4, SentIsRun
<1>6. g[N] = h[N]
  BY <1>1
<1>7. h[N + 1] = u8g_com_hw_spi_fn(h[N], m)
  <2>1. N + 1 \in 1 .. (N + 1) /\ (N + 1) - 1 = N
    BY <1>1
  <2>2. h[N + 1] = u8g_com_hw_spi_fn(h[(N + 1) - 1], longer[N + 1])
    BY <1>2, <2>1, Zenon DEF Run
  <2>3. QED
    BY <1>1, <2>1, <2>2
<1>8. QED
  BY <1>3, <1>5, <1>6, <1>7 DEF longer

-----------------------------------------------------------------------------
(***************************************************************************)
(* The display as a record, and a page of it                               *)
(***************************************************************************)

Pictures == Roots \X Nat \X Nat
Cells == {Noise, Blank} \cup
         {<<"picture", picture, p, cl>> :
            picture \in Pictures, p \in Page, cl \in 1 .. WIDTH}
Volumes == {"default"} \cup {<<"value", v>> : v \in Nat}

Display == [
  spi: BOOLEAN, rst: {0, 1}, cs: {0, 1}, a0: {0, 1},
  on: BOOLEAN, all_points: BOOLEAN, volume: Volumes, command: {"none", "volume"},
  page: Page, column: Nat, ram: [Page -> [Column -> Cells]]]

\* The display has at least a page, a column and a column address.
LEMMA Dimensions ==
  /\ Pages \in Nat /\ Pages > 0 /\ WIDTH \in Nat /\ WIDTH > 0
  /\ Nibble \in Nat /\ Nibble > 0
  /\ Page = 0 .. (Pages - 1) /\ Column = 0 .. (WIDTH - 1) /\ 0 \in Page
BY LcdAssumption DEF Page, Column

\* The memory with the first n bytes in page p.
Written(ram, p, bytes, n) ==
  [ram EXCEPT ![p] = [c \in Column |-> IF c < n THEN bytes[c + 1] ELSE ram[p][c]]]

\* One byte more.
OneMore(ram, p, c, byte) == [ram EXCEPT ![p][c] = byte]

\* A byte more in a page.
LEMMA WrittenNext ==
  ASSUME NEW ram \in [Page -> [Column -> Cells]], NEW p \in Page,
         NEW bytes \in [1 .. WIDTH -> Cells], NEW n \in 1 .. WIDTH
  PROVE  OneMore(Written(ram, p, bytes, n - 1), p, n - 1, bytes[n])
           = Written(ram, p, bytes, n)
<1> DEFINE old == Written(ram, p, bytes, n - 1)
           new == Written(ram, p, bytes, n)
           row(k) == [c \in Column |-> IF c < k THEN bytes[c + 1] ELSE ram[p][c]]
<1>0. n \in Nat /\ n - 1 \in Column /\ n - 1 + 1 = n
  BY Dimensions
<1>1. /\ old = [q \in Page |-> IF q = p THEN row(n - 1) ELSE ram[q]]
      /\ new = [q \in Page |-> IF q = p THEN row(n) ELSE ram[q]]
  BY DEF Written
<1>2. [row(n - 1) EXCEPT ![n - 1] = bytes[n]] = row(n)
  <2>1. \A c \in Column : IF c = n - 1 THEN bytes[n] = row(n)[c]
                                      ELSE row(n - 1)[c] = row(n)[c]
    BY <1>0, Dimensions
  <2>2. QED
    BY <2>1
<1> HIDE DEF old, new, row
<1>3. [old EXCEPT ![p][n - 1] = bytes[n]]
        = [old EXCEPT ![p] = [old[p] EXCEPT ![n - 1] = bytes[n]]]
  OBVIOUS
<1>4. old[p] = row(n - 1)
  BY <1>1
<1>5. [old EXCEPT ![p] = row(n)] = new
  BY <1>1
<1>6. QED
  BY <1>2, <1>3, <1>4, <1>5 DEF old, new, OneMore

\* Where the controller takes bytes for the picture.
TakesPicture(l) == l.spi /\ l.rst = 1 /\ l.cs = 1 /\ l.a0 = 1

\* The display with the first n bytes stored, from column 0 of its page on.
Stored(l, bytes, n) ==
  [l EXCEPT !.column = n, !.ram = Written(l.ram, l.page, bytes, n)]

\* The controller stores a byte of the picture at its column, and counts up.
LEMMA StoredNext ==
  ASSUME NEW l \in Display, TakesPicture(l),
         NEW bytes \in [1 .. WIDTH -> Cells], NEW n \in 1 .. WIDTH
  PROVE  Received(Stored(l, bytes, n - 1), bytes[n]) = Stored(l, bytes, n)
<1> DEFINE old == Stored(l, bytes, n - 1)
<1>0. n - 1 \in Column /\ (n - 1) + 1 = n
  BY Dimensions
<1>1. /\ old.spi = l.spi /\ old.rst = l.rst /\ old.cs = l.cs /\ old.a0 = l.a0
      /\ old.column = n - 1 /\ old.page = l.page
      /\ old.ram = Written(l.ram, l.page, bytes, n - 1)
  BY DEF Stored, Display
<1> HIDE DEF old
<1>2. Received(old, bytes[n]) =
        [old EXCEPT !.ram[l.page][n - 1] = bytes[n], !.column = @ + 1]
  <2>1. Received(old, bytes[n]) = Pixels(old, bytes[n])
    BY <1>1 DEF TakesPicture, Received
  <2>2. old.column \in Column
    BY <1>0, <1>1
  <2>3. QED
    BY <1>1, <2>1, <2>2 DEF Pixels
<1>3. @ = [old EXCEPT !.ram = OneMore(old.ram, l.page, n - 1, bytes[n]), !.column = n]
  BY <1>0, <1>1 DEF OneMore
<1>4. OneMore(old.ram, l.page, n - 1, bytes[n]) = Written(l.ram, l.page, bytes, n)
  <2>1. l.ram \in [Page -> [Column -> Cells]] /\ l.page \in Page
    BY DEF Display
  <2>2. OneMore(Written(l.ram, l.page, bytes, n - 1), l.page, n - 1, bytes[n])
          = Written(l.ram, l.page, bytes, n)
    BY <2>1, WrittenNext, Zenon
  <2>3. QED
    BY <1>1, <2>2
<1>5. [old EXCEPT !.ram = Written(l.ram, l.page, bytes, n), !.column = n]
        = Stored(l, bytes, n)
  BY DEF Stored, Display, old
<1>6. Received(old, bytes[n]) = Stored(l, bytes, n)
  BY <1>2, <1>3, <1>4, <1>5
<1>7. QED
  BY <1>6 DEF old

-----------------------------------------------------------------------------
(***************************************************************************)
(* Messages, one at a time                                                 *)
(***************************************************************************)

\* Sent with WRITE_SEQ, the bytes of a page are stored in its page, each at
\* its column.
LEMMA WriteSeqStores ==
  ASSUME NEW l \in Display, TakesPicture(l), l.column = 0,
         NEW bytes \in [1 .. WIDTH -> Cells]
  PROVE  u8g_com_hw_spi_fn(l, Msg("WRITE_SEQ", bytes)) = Stored(l, bytes, WIDTH)
<1> DEFINE After(g) == g = [n \in 0 .. Len(bytes) |->
                              IF n = 0 THEN {l}
                              ELSE {Received(x, bytes[n]) : x \in g[n - 1]}]
           sets == [n \in 0 .. Len(bytes) |-> {Stored(l, bytes, n)}]
           after == CHOOSE g : After(g)
<1>0. WIDTH \in Nat /\ bytes \in Seq(Cells) /\ Len(bytes) = WIDTH
  BY Dimensions
<1>1. u8g_com_hw_spi_fn(l, Msg("WRITE_SEQ", bytes)) = TheOne(after[Len(bytes)])
  BY DEF u8g_com_hw_spi_fn, Msg, Through
<1>2. Stored(l, bytes, 0) = l
  <2>1. Written(l.ram, l.page, bytes, 0) = l.ram
    <3>1. l.ram \in [Page -> [Column -> Cells]] /\ l.page \in Page
      BY DEF Display
    <3>2. [c \in Column |-> IF c < 0 THEN bytes[c + 1] ELSE l.ram[l.page][c]]
            = l.ram[l.page]
      BY <3>1, Dimensions
    <3>3. QED
      BY <3>1, <3>2 DEF Written
  <2>2. QED
    BY <2>1 DEF Stored, Display
<1>3. After(sets)
  <2>1. ASSUME NEW n \in 0 .. Len(bytes)
        PROVE  {Stored(l, bytes, n)} =
                 IF n = 0 THEN {l} ELSE {Received(x, bytes[n]) : x \in sets[n - 1]}
    <3>1. CASE n = 0
      BY <1>2, <3>1
    <3>2. CASE n # 0
      <4>1. n \in 1 .. WIDTH /\ n - 1 \in 0 .. Len(bytes)
        BY <1>0, <3>2
      <4>2. sets[n - 1] = {Stored(l, bytes, n - 1)}
        BY <4>1
      <4>3. Received(Stored(l, bytes, n - 1), bytes[n]) = Stored(l, bytes, n)
        BY <4>1, StoredNext
      <4> HIDE DEF sets
      <4>4. QED
        BY <3>2, <4>2, <4>3
    <3>3. QED
      BY <3>1, <3>2
  <2>2. QED
    BY <2>1
<1>4. After(after)
  BY <1>3
<1> HIDE DEF after, sets
<1>5. after[0] = sets[0]
  BY <1>0, <1>3, <1>4
<1>6. ASSUME NEW n \in 1 .. Len(bytes), after[n - 1] = sets[n - 1]
      PROVE  after[n] = sets[n]
  <2>1. n \in 0 .. Len(bytes) /\ n # 0
    BY <1>0
  <2>2. after[n] = {Received(x, bytes[n]) : x \in after[n - 1]}
    BY <1>4, <2>1
  <2>3. sets[n] = {Received(x, bytes[n]) : x \in sets[n - 1]}
    BY <1>3, <2>1
  <2>4. QED
    BY <1>6, <2>2, <2>3
<1>7. after[Len(bytes)] = sets[Len(bytes)]
  BY <1>0, <1>5, <1>6, SameSteps
<1>8. sets[Len(bytes)] = {Stored(l, bytes, WIDTH)}
  BY <1>0 DEF sets
<1>9. QED
  BY <1>1, <1>7, <1>8, OneOf

\* What the messages for the pins do.
LEMMA OnPin ==
  ASSUME NEW l, NEW a
  PROVE  /\ u8g_com_hw_spi_fn(l, Msg("INIT", a)) = [l EXCEPT !.spi = TRUE]
         /\ u8g_com_hw_spi_fn(l, Msg("ADDRESS", a)) = [l EXCEPT !.a0 = a]
         /\ u8g_com_hw_spi_fn(l, Msg("CHIP_SELECT", a)) = [l EXCEPT !.cs = a]
         /\ u8g_com_hw_spi_fn(l, Msg("RESET", 0)) = ResetLow(l)
         /\ u8g_com_hw_spi_fn(l, Msg("RESET", 1)) = [l EXCEPT !.rst = 1]
BY DEF u8g_com_hw_spi_fn, Msg

TakesCommand(l) == l.spi /\ l.rst = 1 /\ l.cs = 1 /\ l.a0 = 0

\* A byte with A0 low is a command.
LEMMA OnByte ==
  ASSUME NEW l \in Display, TakesCommand(l), NEW byte
  PROVE  u8g_com_hw_spi_fn(l, Msg("WRITE_BYTE", byte)) = Command(l, byte)
<1>1. u8g_com_hw_spi_fn(l, Msg("WRITE_BYTE", byte)) = Received(l, byte)
  BY DEF u8g_com_hw_spi_fn, Msg
<1>2. QED
  BY <1>1 DEF Received, TakesCommand, Display

\* What the commands do, when none is half sent.
LEMMA OnCommand ==
  ASSUME NEW l \in Display, l.command = "none", NEW v
  PROVE  /\ Command(l, <<"volume">>) = [l EXCEPT !.command = "volume"]
         /\ Command(l, <<"page", v>>) = [l EXCEPT !.page = v]
         /\ Command(l, <<"column_high", v>>)
              = [l EXCEPT !.column = v * Nibble + (l.column % Nibble)]
         /\ Command(l, <<"column_low", v>>)
              = [l EXCEPT !.column = (l.column \div Nibble) * Nibble + v]
         /\ Command(l, <<"display_on">>) = [l EXCEPT !.on = TRUE]
         /\ Command(l, <<"all_points", v>>) = [l EXCEPT !.all_points = v]
         /\ Command(l, <<"setup">>) = l
BY DEF Command

\* After the volume command, any byte is its value.
LEMMA OnValue ==
  ASSUME NEW l \in Display, l.command = "volume", NEW byte
  PROVE  Command(l, byte) = [l EXCEPT !.volume = byte, !.command = "none"]
BY DEF Command

\* A script is a sequence of anything.
Script(s) == \E M : s \in Seq(M)

\* A message more makes a script of a script, and acts on what that left.
LEMMA ScriptThen ==
  ASSUME NEW s, Script(s), NEW m
  PROVE  /\ Script(s \o <<m>>)
         /\ \A l : Sent(l, s \o <<m>>) = u8g_com_hw_spi_fn(Sent(l, s), m)
<1>1. PICK M : s \in Seq(M)
  BY DEF Script
<1> DEFINE More == M \cup {m}
<1>2. s \in Seq(More) /\ m \in More
  BY <1>1
<1> HIDE DEF More
<1>3. s \o <<m>> \in Seq(More)
  BY <1>2
<1>4. ASSUME NEW l PROVE Sent(l, s \o <<m>>) = u8g_com_hw_spi_fn(Sent(l, s), m)
  BY <1>2, SentThen, Zenon
<1>5. QED
  BY <1>3, <1>4 DEF Script

\* A script of one message.
LEMMA SentOne ==
  ASSUME NEW l, NEW m
  PROVE  Sent(l, <<m>>) = u8g_com_hw_spi_fn(l, m)
<1>1. <<>> \in Seq({m}) /\ m \in {m} /\ <<>> \o <<m>> = <<m>>
  OBVIOUS
<1>2. Sent(l, <<>> \o <<m>>) = u8g_com_hw_spi_fn(Sent(l, <<>>), m)
  BY <1>1, SentThen, Zenon
<1>3. QED
  BY <1>1, <1>2, SentNothing

\* The first half of the column address, then the second, reset it, whatever
\* it was.
LEMMA ColumnReset ==
  ASSUME NEW c \in Nat
  PROVE  /\ 0 * Nibble + (c % Nibble) \in Nat
         /\ ((0 * Nibble + (c % Nibble)) \div Nibble) * Nibble + 0 = 0
<1>1. Nibble \in Nat /\ Nibble > 0
  BY Dimensions
<1>2. 0 * Nibble = 0
  BY <1>1
<1>3. c % Nibble \in 0 .. (Nibble - 1)
  BY <1>1
<1>4. 0 * Nibble + (c % Nibble) = c % Nibble
  BY <1>2, <1>3
<1>5. \A x \in 0 .. (Nibble - 1) : x \div Nibble = 0
  BY <1>1
<1>6. ((0 * Nibble + (c % Nibble)) \div Nibble) = 0
  BY <1>3, <1>4, <1>5
<1>7. QED
  BY <1>2, <1>3, <1>4, <1>6

\* A page of bytes leaves a display.
LEMMA StoredInDisplay ==
  ASSUME NEW l \in Display, NEW bytes \in [1 .. WIDTH -> Cells]
  PROVE  Stored(l, bytes, WIDTH) \in Display
<1>1. l.ram \in [Page -> [Column -> Cells]] /\ l.page \in Page
  BY DEF Display
<1>2. [c \in Column |-> IF c < WIDTH THEN bytes[c + 1] ELSE l.ram[l.page][c]]
        \in [Column -> Cells]
  BY <1>1, Dimensions
<1>3. Written(l.ram, l.page, bytes, WIDTH) \in [Page -> [Column -> Cells]]
  BY <1>1, <1>2 DEF Written
<1>4. QED
  BY <1>3, Dimensions DEF Stored, Display

\* The display after a page of bytes.
PageDone(l, p, bytes) ==
  [l EXCEPT !.cs = 0, !.a0 = 1, !.page = p, !.column = WIDTH,
            !.ram = Written(l.ram, p, bytes, WIDTH)]

\* A message is a script.
LEMMA ScriptOne == ASSUME NEW m PROVE Script(<<m>>)
<1>1. <<m>> \in Seq({m})
  OBVIOUS
<1>2. QED
  BY <1>1, Zenon DEF Script

\* A command more.
LEMMA ThenCommand ==
  ASSUME NEW l, NEW s, Script(s), NEW k \in Display, TakesCommand(k), Sent(l, s) = k,
         NEW byte
  PROVE  /\ Script(s \o WriteByte(byte))
         /\ Sent(l, s \o WriteByte(byte)) = Command(k, byte)
<1>1. u8g_com_hw_spi_fn(k, Msg("WRITE_BYTE", byte)) = Command(k, byte)
  BY OnByte
<1>2. /\ Script(s \o <<Msg("WRITE_BYTE", byte)>>)
      /\ Sent(l, s \o <<Msg("WRITE_BYTE", byte)>>)
           = u8g_com_hw_spi_fn(Sent(l, s), Msg("WRITE_BYTE", byte))
  BY ScriptThen, Zenon
<1>3. QED
  BY <1>1, <1>2 DEF WriteByte

Addressed(k, a) == [k EXCEPT !.a0 = a]
Selected(k, a) == [k EXCEPT !.cs = a]

\* An address or a chip select more.
LEMMA ThenPin ==
  ASSUME NEW l, NEW s, Script(s), NEW k, Sent(l, s) = k, NEW a
  PROVE  /\ Script(s \o SetAddress(a)) /\ Script(s \o SetChipSelect(a))
         /\ Sent(l, s \o SetAddress(a)) = Addressed(k, a)
         /\ Sent(l, s \o SetChipSelect(a)) = Selected(k, a)
<1>1. /\ u8g_com_hw_spi_fn(k, Msg("ADDRESS", a)) = Addressed(k, a)
      /\ u8g_com_hw_spi_fn(k, Msg("CHIP_SELECT", a)) = Selected(k, a)
  BY OnPin DEF Addressed, Selected
<1>2. \A m : /\ Script(s \o <<m>>)
             /\ Sent(l, s \o <<m>>) = u8g_com_hw_spi_fn(Sent(l, s), m)
  BY ScriptThen, Zenon
<1>3. QED
  BY <1>1, <1>2 DEF SetAddress, SetChipSelect

\* A page is stored whole, in its place and nowhere else, wherever the
\* controller's column address was before.
LEMMA PageSent ==
  ASSUME NEW l \in Display, l.spi, l.rst = 1, l.command = "none",
         NEW p \in Page, NEW bytes \in [1 .. WIDTH -> Cells]
  PROVE  /\ Sent(l, WritePage(p, bytes)) = PageDone(l, p, bytes)
         /\ PageDone(l, p, bytes) \in Display
<1> DEFINE s1 == SetAddress(0)
           s2 == s1 \o SetChipSelect(1)
           s3 == s2 \o WriteByte(<<"column_high", 0>>)
           s4 == s3 \o WriteByte(<<"column_low", 0>>)
           s5 == s4 \o WriteByte(<<"page", p>>)
           s6 == s5 \o SetAddress(1)
           s7 == s6 \o <<Msg("WRITE_SEQ", bytes)>>
           s8 == s7 \o SetChipSelect(0)
           l1 == Addressed(l, 0)
           l2 == Selected(l1, 1)
           l3 == Command(l2, <<"column_high", 0>>)
           l4 == Command(l3, <<"column_low", 0>>)
           l5 == Command(l4, <<"page", p>>)
           l6 == Addressed(l5, 1)
           l7 == Stored(l6, bytes, WIDTH)
           l8 == Selected(l7, 0)
           high == 0 * Nibble + (l.column % Nibble)
<1>1. WritePage(p, bytes) = s8
  BY DEF WritePage, u8g_dev_data_start
<1>2. l.column \in Nat /\ high \in Nat /\ (high \div Nibble) * Nibble + 0 = 0
  <2>1. l.column \in Nat
    BY DEF Display
  <2>2. QED
    BY <2>1, ColumnReset
<1>3. l1 = [l EXCEPT !.a0 = 0]
  BY DEF Addressed
<1>4. l2 = [l1 EXCEPT !.cs = 1]
  BY DEF Selected
<1>5. Script(s1) /\ Sent(l, s1) = l1
  BY SentOne, ScriptOne, OnPin DEF SetAddress, Addressed
<1> HIDE DEF s1, l1
<1>6. Script(s2) /\ Sent(l, s2) = l2
  BY <1>5, ThenPin
<1> HIDE DEF s2, l2
<1>7. l2 = [l EXCEPT !.a0 = 0, !.cs = 1]
  BY <1>3, <1>4 DEF Display
<1>8. l2 \in Display /\ l2.command = "none" /\ TakesCommand(l2) /\ l2.column = l.column
  BY <1>7 DEF Display, TakesCommand
<1>9. Script(s3) /\ Sent(l, s3) = l3
  BY <1>6, <1>8, ThenCommand
<1>10. l3 = [l2 EXCEPT !.column = high]
  <2>1. l3 = [l2 EXCEPT !.column = 0 * Nibble + (l2.column % Nibble)]
    BY <1>8, OnCommand
  <2>2. 0 * Nibble + (l2.column % Nibble) = high
    BY <1>8
  <2>3. QED
    BY <2>1, <2>2, Zenon
<1> HIDE DEF s3, l3, high
<1>11. l3 \in Display /\ l3.command = "none" /\ TakesCommand(l3) /\ l3.column = high
  BY <1>2, <1>8, <1>10 DEF Display, TakesCommand
<1>12. Script(s4) /\ Sent(l, s4) = l4
  BY <1>9, <1>11, ThenCommand
<1>13. l4 = [l3 EXCEPT !.column = 0]
  <2>1. Command(l3, <<"column_low", 0>>)
          = [l3 EXCEPT !.column = (l3.column \div Nibble) * Nibble + 0]
    BY <1>11, OnCommand
  <2>2. QED
    BY <1>2, <1>11, <2>1
<1> HIDE DEF s4, l4
<1>14. l4 \in Display /\ l4.command = "none" /\ TakesCommand(l4) /\ l4.column = 0
  BY <1>11, <1>13 DEF Display, TakesCommand
<1>15. Script(s5) /\ Sent(l, s5) = l5
  BY <1>12, <1>14, ThenCommand
<1>16. l5 = [l4 EXCEPT !.page = p]
  BY <1>14, OnCommand
<1> HIDE DEF s5, l5
<1>17. /\ l5 \in Display /\ l5.command = "none" /\ l5.spi /\ l5.rst = 1 /\ l5.cs = 1
       /\ l5.column = 0 /\ l5.page = p
  BY <1>14, <1>16 DEF Display, TakesCommand
<1>18. Script(s6) /\ Sent(l, s6) = l6
  BY <1>15, ThenPin
<1>19. l6 = [l5 EXCEPT !.a0 = 1]
  BY DEF Addressed
<1> HIDE DEF s6, l6
<1>20. l6 \in Display /\ TakesPicture(l6) /\ l6.column = 0
  BY <1>17, <1>19 DEF Display, TakesPicture
<1>21. u8g_com_hw_spi_fn(l6, Msg("WRITE_SEQ", bytes)) = l7
  BY <1>20, WriteSeqStores, Zenon
<1>22. Script(s7) /\ Sent(l, s7) = l7
  BY <1>18, <1>21, ScriptThen, Zenon
<1>23. l7 \in Display
  BY <1>20, StoredInDisplay, Zenon
<1>24. l7 = [l6 EXCEPT !.column = WIDTH, !.ram = Written(l6.ram, l6.page, bytes, WIDTH)]
  BY DEF Stored
<1> HIDE DEF s7, l7
<1>25. Sent(l, s8) = l8
  BY <1>22, ThenPin
<1>26. l8 = [l7 EXCEPT !.cs = 0]
  BY DEF Selected
<1> HIDE DEF s8, l8
<1>27. l8 \in Display
  BY <1>23, <1>26 DEF Display
<1>28. l8 = PageDone(l, p, bytes)
  <2>1. l6 = [l EXCEPT !.a0 = 1, !.cs = 1, !.column = 0, !.page = p]
    BY <1>7, <1>10, <1>13, <1>16, <1>19 DEF Display
  <2>2. l6.ram = l.ram /\ l6.page = p
    BY <2>1 DEF Display
  <2>3. QED
    BY <1>24, <1>26, <2>1, <2>2 DEF Display, PageDone
<1>29. QED
  BY <1>1, <1>25, <1>27, <1>28

-----------------------------------------------------------------------------
(***************************************************************************)
(* The pages cleared                                                       *)
(***************************************************************************)

BlankPage == [cl \in 1 .. WIDTH |-> Blank]

\* The memory with the first n pages blank.
BlankTo(ram, n) == [p \in Page |-> IF p < n THEN [c \in Column |-> Blank] ELSE ram[p]]

\* The display with the first n pages cleared.
Cleared(l, n) ==
  IF n = 0 THEN l
  ELSE [l EXCEPT !.cs = 0, !.a0 = 1, !.page = n - 1, !.column = WIDTH,
                 !.ram = BlankTo(l.ram, n)]

\* A blank page more.
LEMMA BlankToNext ==
  ASSUME NEW ram \in [Page -> [Column -> Cells]], NEW n \in 1 .. Pages
  PROVE  /\ BlankTo(ram, n) \in [Page -> [Column -> Cells]]
         /\ Written(BlankTo(ram, n - 1), n - 1, BlankPage, WIDTH) = BlankTo(ram, n)
         /\ n = 1 => Written(ram, 0, BlankPage, WIDTH) = BlankTo(ram, 1)
<1> DEFINE empty == [c \in Column |-> Blank]
<1>1. empty \in [Column -> Cells]
  BY DEF Cells
<1>2. n - 1 \in Page /\ n \in Nat
  BY Dimensions
<1>3. \A r : [c \in Column |-> IF c < WIDTH THEN BlankPage[c + 1] ELSE r[c]] = empty
  BY Dimensions DEF BlankPage
<1>4. \A r, p : Written(r, p, BlankPage, WIDTH) = [r EXCEPT ![p] = empty]
  BY <1>3 DEF Written
<1> HIDE DEF empty
<1>5. \A k : BlankTo(ram, k) = [p \in Page |-> IF p < k THEN empty ELSE ram[p]]
  BY DEF BlankTo, empty
<1>6. BlankTo(ram, n) \in [Page -> [Column -> Cells]]
  BY <1>1, <1>5
<1>7. [BlankTo(ram, n - 1) EXCEPT ![n - 1] = empty] = BlankTo(ram, n)
  <2>1. \A p \in Page : (p < n) <=> (p < n - 1 \/ p = n - 1)
    BY <1>2, Dimensions
  <2>2. QED
    BY <1>2, <1>5, <2>1
<1>8. [ram EXCEPT ![0] = empty] = BlankTo(ram, 1)
  <2>1. \A p \in Page : (p < 1) <=> (p = 0)
    BY Dimensions
  <2>2. QED
    BY <1>5, <2>1
<1>9. QED
  BY <1>4, <1>6, <1>7, <1>8

\* One step of clearing the pages.
LEMMA ClearedNext ==
  ASSUME NEW l \in Display, l.spi, l.rst = 1, l.command = "none", NEW n \in 1 .. Pages,
         Cleared(l, n - 1) \in Display
  PROVE  /\ Cleared(l, n) \in Display
         /\ ClearPage(Cleared(l, n - 1), n - 1) = Cleared(l, n)
<1> DEFINE k == Cleared(l, n - 1)
<1>1. n - 1 \in Page /\ n \in Nat /\ n # 0
  BY Dimensions
<1>2. k \in Display /\ k.spi /\ k.rst = 1 /\ k.command = "none"
  BY DEF Cleared, Display
<1>3. l.ram \in [Page -> [Column -> Cells]]
  BY DEF Display
<1>4. BlankPage \in [1 .. WIDTH -> Cells]
  BY DEF BlankPage, Cells
<1>5. ClearPage(k, n - 1) = PageDone(k, n - 1, BlankPage)
  <2>1. Sent(k, WritePage(n - 1, BlankPage)) = PageDone(k, n - 1, BlankPage)
    BY <1>1, <1>2, <1>4, PageSent
  <2>2. QED
    BY <2>1 DEF ClearPage, BlankPage
<1>6. /\ BlankTo(l.ram, n) \in [Page -> [Column -> Cells]]
      /\ Written(k.ram, n - 1, BlankPage, WIDTH) = BlankTo(l.ram, n)
  <2>1. CASE n = 1
    <3>1. k = l
      BY <2>1 DEF Cleared
    <3>2. QED
      BY <1>3, <2>1, <3>1, BlankToNext
  <2>2. CASE n # 1
    <3>1. k.ram = BlankTo(l.ram, n - 1)
      BY <1>1, <2>2 DEF Cleared, Display
    <3>2. QED
      BY <1>3, <3>1, BlankToNext
  <2>3. QED
    BY <2>1, <2>2
<1>7. Cleared(l, n) \in Display
  BY <1>1, <1>6, Dimensions DEF Cleared, Display
<1>8. PageDone(k, n - 1, BlankPage) = Cleared(l, n)
  BY <1>1, <1>6 DEF Cleared, PageDone, Display
<1>9. QED
  BY <1>5, <1>7, <1>8

\* The last part of the initialisation clears the memory.
LEMMA ClearPagesClears ==
  ASSUME NEW l \in Display, l.spi, l.rst = 1, l.command = "none"
  PROVE  /\ ClearPages(l) = Cleared(l, Pages)
         /\ Cleared(l, Pages) \in Display
<1> DEFINE inputs == [i \in 1 .. Pages |-> i - 1]
           After(g) == g = [n \in 0 .. Len(inputs) |->
                              IF n = 0 THEN {l}
                              ELSE {ClearPage(x, inputs[n]) : x \in g[n - 1]}]
           sets == [n \in 0 .. Len(inputs) |-> {Cleared(l, n)}]
           after == CHOOSE g : After(g)
           InDisplay == {n \in Nat : n <= Pages => Cleared(l, n) \in Display}
<1>0. /\ Pages \in Nat /\ inputs \in Seq(Page) /\ Len(inputs) = Pages
      /\ \A n \in 1 .. Pages : inputs[n] = n - 1
  BY Dimensions
<1>1. ClearPages(l) = TheOne(after[Len(inputs)])
  BY DEF ClearPages, Through
<1> HIDE DEF inputs
<1>2. \A n \in 0 .. Pages : Cleared(l, n) \in Display
  <2>1. 0 \in InDisplay
    BY DEF Cleared
  <2>2. ASSUME NEW n \in Nat, n \in InDisplay PROVE n + 1 \in InDisplay
    <3> SUFFICES ASSUME n + 1 <= Pages PROVE Cleared(l, n + 1) \in Display
      OBVIOUS
    <3>1. n + 1 \in 1 .. Pages /\ (n + 1) - 1 = n /\ Cleared(l, n) \in Display
      BY <1>0, <2>2
    <3>2. QED
      BY <3>1, ClearedNext
  <2> HIDE DEF InDisplay
  <2>3. \A n \in Nat : n \in InDisplay
    BY <2>1, <2>2, Induction
  <2>4. QED
    BY <1>0, <2>3 DEF InDisplay
<1>3. After(sets)
  <2>1. ASSUME NEW n \in 0 .. Len(inputs)
        PROVE  {Cleared(l, n)} =
                 IF n = 0 THEN {l} ELSE {ClearPage(x, inputs[n]) : x \in sets[n - 1]}
    <3>1. CASE n = 0
      BY <3>1 DEF Cleared
    <3>2. CASE n # 0
      <4>1. n \in 1 .. Pages /\ n - 1 \in 0 .. Len(inputs) /\ n - 1 \in 0 .. Pages
        BY <1>0, <3>2
      <4>2. sets[n - 1] = {Cleared(l, n - 1)}
        BY <4>1
      <4>3. ClearPage(Cleared(l, n - 1), inputs[n]) = Cleared(l, n)
        BY <1>0, <1>2, <4>1, ClearedNext
      <4> HIDE DEF sets
      <4>4. QED
        BY <3>2, <4>2, <4>3
    <3>3. QED
      BY <3>1, <3>2
  <2>2. QED
    BY <2>1
<1>4. After(after)
  BY <1>3
<1> HIDE DEF after, sets
<1>5. after[0] = sets[0]
  BY <1>0, <1>3, <1>4
<1>6. ASSUME NEW n \in 1 .. Len(inputs), after[n - 1] = sets[n - 1]
      PROVE  after[n] = sets[n]
  <2>1. n \in 0 .. Len(inputs) /\ n # 0
    BY <1>0
  <2>2. after[n] = {ClearPage(x, inputs[n]) : x \in after[n - 1]}
    BY <1>4, <2>1
  <2>3. sets[n] = {ClearPage(x, inputs[n]) : x \in sets[n - 1]}
    BY <1>3, <2>1
  <2>4. QED
    BY <1>6, <2>2, <2>3
<1>7. after[Len(inputs)] = sets[Len(inputs)]
  BY <1>0, <1>5, <1>6, SameSteps
<1>8. sets[Len(inputs)] = {Cleared(l, Pages)}
  BY <1>0 DEF sets
<1>9. Cleared(l, Pages) \in Display
  <2>1. Pages \in 0 .. Pages
    BY <1>0
  <2>2. QED
    BY <1>2, <2>1
<1>10. TheOne({Cleared(l, Pages)}) = Cleared(l, Pages)
  BY OneOf
<1>11. QED
  BY <1>1, <1>7, <1>8, <1>9, <1>10

-----------------------------------------------------------------------------
(***************************************************************************)
(* The parts of the initialisation                                         *)
(***************************************************************************)

\* The first part: the ports and the SPI are set up, the controller is reset
\* and not selected.
LEMMA PartOne ==
  LET l == Sent(PowerOn, u8g_dev_init_seq[1])
  IN  l \in Display /\ l.spi /\ l.a0 = 0 /\ l.command = "none"
<1> DEFINE s1 == <<Msg("INIT", 0)>>
           s2 == s1 \o SetChipSelect(0)
           s3 == s2 \o SetAddress(0)
           s4 == s3 \o <<Msg("RESET", 0)>>
           l1 == [PowerOn EXCEPT !.spi = TRUE]
           l2 == Selected(l1, 0)
           l3 == Addressed(l2, 0)
           l4 == ResetLow(l3)
<1>1. u8g_dev_init_seq[1] = s4
  BY DEF u8g_dev_init_seq
<1>2. PowerOn \in Display
  BY Dimensions DEF PowerOn, Display, Cells, Volumes
<1>3. Script(s1) /\ Sent(PowerOn, s1) = l1
  <2>1. Sent(PowerOn, s1) = u8g_com_hw_spi_fn(PowerOn, Msg("INIT", 0))
    BY SentOne
  <2>2. u8g_com_hw_spi_fn(PowerOn, Msg("INIT", 0)) = l1
    BY OnPin
  <2>3. QED
    BY <2>1, <2>2, ScriptOne
<1> HIDE DEF s1
<1>4. l1 \in Display /\ l1.spi
  BY <1>2 DEF Display
<1> HIDE DEF l1
<1>5. Script(s2) /\ Sent(PowerOn, s2) = l2
  BY <1>3, ThenPin
<1>6. l2 \in Display /\ l2.spi
  BY <1>4 DEF Selected, Display
<1> HIDE DEF s2, l2
<1>7. Script(s3) /\ Sent(PowerOn, s3) = l3
  BY <1>5, ThenPin
<1>8. l3 \in Display /\ l3.spi /\ l3.a0 = 0
  BY <1>6 DEF Addressed, Display
<1> HIDE DEF s3, l3
<1>9. Sent(PowerOn, s4) = l4
  <2>1. Sent(PowerOn, s4) = u8g_com_hw_spi_fn(l3, Msg("RESET", 0))
    BY <1>7, ScriptThen
  <2>2. u8g_com_hw_spi_fn(l3, Msg("RESET", 0)) = l4
    BY OnPin
  <2>3. QED
    BY <2>1, <2>2
<1>10. l4 = [PowerOn EXCEPT !.spi = l3.spi, !.cs = l3.cs, !.a0 = l3.a0, !.ram = l3.ram]
  BY DEF ResetLow
<1> HIDE DEF l4
<1>11. /\ l3.spi \in BOOLEAN /\ l3.cs \in {0, 1} /\ l3.a0 \in {0, 1}
       /\ l3.ram \in [Page -> [Column -> Cells]]
  BY <1>8 DEF Display
<1>12. l4 \in Display
  BY <1>2, <1>10, <1>11 DEF Display
<1>13. l4.spi /\ l4.a0 = 0 /\ l4.command = "none"
  BY <1>8, <1>10 DEF PowerOn
<1>14. QED
  BY <1>1, <1>9, <1>12, <1>13

\* The second: the controller comes out of reset.
LEMMA PartTwo ==
  ASSUME NEW l \in Display
  PROVE  /\ Sent(l, u8g_dev_init_seq[2]) = [l EXCEPT !.rst = 1]
         /\ [l EXCEPT !.rst = 1] \in Display
<1>1. u8g_dev_init_seq[2] = <<Msg("RESET", 1)>>
  BY DEF u8g_dev_init_seq
<1>2. Sent(l, <<Msg("RESET", 1)>>) = [l EXCEPT !.rst = 1]
  <2>1. Sent(l, <<Msg("RESET", 1)>>) = u8g_com_hw_spi_fn(l, Msg("RESET", 1))
    BY SentOne
  <2>2. u8g_com_hw_spi_fn(l, Msg("RESET", 1)) = [l EXCEPT !.rst = 1]
    BY OnPin
  <2>3. QED
    BY <2>1, <2>2, Zenon
<1>3. [l EXCEPT !.rst = 1] \in Display
  BY DEF Display
<1>4. QED
  BY <1>1, <1>2, <1>3

\* The volume command and its value: the byte after the command is not taken
\* for a command.
LEMMA ThenVolume ==
  ASSUME NEW l, NEW s, Script(s), NEW k \in Display, TakesCommand(k),
         k.command = "none", Sent(l, s) = k, NEW v \in Nat
  PROVE  LET longer == s \o WriteByte(<<"volume">>) \o WriteByte(<<"value", v>>)
             set == [k EXCEPT !.volume = <<"value", v>>]
         IN  Script(longer) /\ Sent(l, longer) = set /\ set \in Display
<1> DEFINE t == s \o WriteByte(<<"volume">>)
           u == t \o WriteByte(<<"value", v>>)
           k1 == Command(k, <<"volume">>)
           k2 == Command(k1, <<"value", v>>)
<1>1. Script(t) /\ Sent(l, t) = k1
  BY ThenCommand
<1>2. k1 = [k EXCEPT !.command = "volume"]
  BY OnCommand
<1> HIDE DEF t, k1
<1>3. k1 \in Display /\ k1.command = "volume" /\ TakesCommand(k1)
  BY <1>2 DEF Display, TakesCommand
<1>4. Script(u) /\ Sent(l, u) = k2
  BY <1>1, <1>3, ThenCommand
<1>5. k2 = [k1 EXCEPT !.volume = <<"value", v>>, !.command = "none"]
  BY <1>3, OnValue
<1> HIDE DEF u, k2
<1>6. k2 = [k EXCEPT !.volume = <<"value", v>>]
  BY <1>2, <1>5 DEF Display
<1>7. <<"value", v>> \in Volumes
  BY DEF Volumes
<1>8. k2 \in Display
  BY <1>6, <1>7 DEF Display
<1>9. QED
  BY <1>4, <1>6, <1>8 DEF u, t

\* The third: the display is switched on, with a contrast.
LEMMA PartThree ==
  ASSUME NEW l \in Display, l.spi, l.rst = 1, l.a0 = 0, l.command = "none"
  PROVE  LET after == [l EXCEPT !.cs = 1, !.on = TRUE, !.all_points = FALSE,
                                !.volume = <<"value", 37>>]
         IN  Sent(l, u8g_dev_init_seq[3]) = after /\ after \in Display
<1> DEFINE s1 == SetChipSelect(1)
           s2 == s1 \o WriteByte(<<"display_on">>)
           s3 == s2 \o WriteByte(<<"setup">>)
           s4 == s3 \o WriteByte(<<"all_points", FALSE>>)
           s5 == s4 \o WriteByte(<<"volume">>) \o WriteByte(<<"value", 37>>)
           l1 == Selected(l, 1)
           l2 == Command(l1, <<"display_on">>)
           l3 == Command(l2, <<"setup">>)
           l4 == Command(l3, <<"all_points", FALSE>>)
           l5 == [l4 EXCEPT !.volume = <<"value", 37>>]
<1>1. u8g_dev_init_seq[3] = s5
  BY DEF u8g_dev_init_seq
<1>2. Script(s1) /\ Sent(l, s1) = l1
  BY SentOne, ScriptOne, OnPin DEF SetChipSelect, Selected
<1>3. l1 = [l EXCEPT !.cs = 1]
  BY DEF Selected
<1> HIDE DEF s1, l1
<1>4. l1 \in Display /\ l1.command = "none" /\ TakesCommand(l1)
  BY <1>3 DEF Display, TakesCommand
<1>5. Script(s2) /\ Sent(l, s2) = l2
  BY <1>2, <1>4, ThenCommand
<1>6. l2 = [l1 EXCEPT !.on = TRUE]
  BY <1>4, OnCommand
<1> HIDE DEF s2, l2
<1>7. l2 \in Display /\ l2.command = "none" /\ TakesCommand(l2)
  BY <1>4, <1>6 DEF Display, TakesCommand
<1>8. Script(s3) /\ Sent(l, s3) = l3
  BY <1>5, <1>7, ThenCommand
<1>9. l3 = l2
  BY <1>7, OnCommand
<1> HIDE DEF s3, l3
<1>10. Script(s4) /\ Sent(l, s4) = l4
  BY <1>7, <1>8, <1>9, ThenCommand
<1>11. l4 = [l2 EXCEPT !.all_points = FALSE]
  BY <1>7, <1>9, OnCommand
<1> HIDE DEF s4, l4
<1>12. l4 \in Display /\ l4.command = "none" /\ TakesCommand(l4)
  BY <1>7, <1>11 DEF Display, TakesCommand
<1>13. Sent(l, s5) = l5 /\ l5 \in Display
  BY <1>10, <1>12, ThenVolume
<1>14. l5 = [l EXCEPT !.cs = 1, !.on = TRUE, !.all_points = FALSE,
                      !.volume = <<"value", 37>>]
  BY <1>3, <1>6, <1>11 DEF Display
<1>15. QED
  BY <1>1, <1>13, <1>14

\* The fourth: all points are lit.
LEMMA PartFour ==
  ASSUME NEW l \in Display, l.command = "none", TakesCommand(l)
  PROVE  /\ Sent(l, u8g_dev_init_seq[4]) = [l EXCEPT !.all_points = TRUE]
         /\ [l EXCEPT !.all_points = TRUE] \in Display
<1>1. u8g_dev_init_seq[4] = <<Msg("WRITE_BYTE", <<"all_points", TRUE>>)>>
  BY DEF u8g_dev_init_seq, WriteByte
<1>2. Sent(l, <<Msg("WRITE_BYTE", <<"all_points", TRUE>>)>>)
        = Command(l, <<"all_points", TRUE>>)
  BY SentOne, OnByte
<1>3. Command(l, <<"all_points", TRUE>>) = [l EXCEPT !.all_points = TRUE]
  BY OnCommand
<1>4. [l EXCEPT !.all_points = TRUE] \in Display
  BY DEF Display
<1>5. QED
  BY <1>1, <1>2, <1>3, <1>4

\* The fifth: the display shows its memory again, and is let go.
LEMMA PartFive ==
  ASSUME NEW l \in Display, l.command = "none", TakesCommand(l)
  PROVE  LET after == [l EXCEPT !.all_points = FALSE, !.cs = 0]
         IN  Sent(l, u8g_dev_init_seq[5]) = after /\ after \in Display
<1> DEFINE s1 == WriteByte(<<"all_points", FALSE>>)
           s2 == s1 \o SetChipSelect(0)
           l1 == Command(l, <<"all_points", FALSE>>)
           l2 == Selected(l1, 0)
<1>1. u8g_dev_init_seq[5] = s2
  BY DEF u8g_dev_init_seq
<1>2. Script(s1) /\ Sent(l, s1) = l1
  BY SentOne, ScriptOne, OnByte DEF WriteByte
<1>3. l1 = [l EXCEPT !.all_points = FALSE]
  BY OnCommand
<1> HIDE DEF s1, l1
<1>4. Sent(l, s2) = l2
  BY <1>2, ThenPin
<1>5. l2 = [l EXCEPT !.all_points = FALSE, !.cs = 0]
  BY <1>3 DEF Selected, Display
<1>6. l2 \in Display
  BY <1>5 DEF Display
<1>7. QED
  BY <1>1, <1>4, <1>5, <1>6

\* A contrast is set whatever the controller was doing, and changes nothing
\* else the display shows.
LEMMA ContrastSent ==
  ASSUME NEW l \in Display, l.spi, l.rst = 1, l.command = "none", NEW value \in 0 .. 255
  PROVE  LET after == [l EXCEPT !.cs = 0, !.a0 = 0,
                                !.volume = <<"value", value \div 4>>]
         IN  Sent(l, SetContrast(value)) = after /\ after \in Display
<1> DEFINE s1 == SetChipSelect(1)
           s2 == s1 \o SetAddress(0)
           s3 == s2 \o WriteByte(<<"volume">>) \o WriteByte(<<"value", value \div 4>>)
           s4 == s3 \o SetChipSelect(0)
           l1 == Selected(l, 1)
           l2 == Addressed(l1, 0)
           l3 == [l2 EXCEPT !.volume = <<"value", value \div 4>>]
           l4 == Selected(l3, 0)
<1>1. SetContrast(value) = s4
  BY DEF SetContrast
<1>2. value \div 4 \in Nat
  OBVIOUS
<1>3. Script(s1) /\ Sent(l, s1) = l1
  BY SentOne, ScriptOne, OnPin DEF SetChipSelect, Selected
<1>4. l1 = [l EXCEPT !.cs = 1]
  BY DEF Selected
<1> HIDE DEF s1, l1
<1>5. Script(s2) /\ Sent(l, s2) = l2
  BY <1>3, ThenPin
<1>6. l2 = [l EXCEPT !.cs = 1, !.a0 = 0]
  BY <1>4 DEF Addressed, Display
<1> HIDE DEF s2, l2
<1>7. l2 \in Display /\ l2.command = "none" /\ TakesCommand(l2)
  BY <1>6 DEF Display, TakesCommand
<1>8. Script(s3) /\ Sent(l, s3) = l3 /\ l3 \in Display
  BY <1>2, <1>5, <1>7, ThenVolume
<1>9. l3 = [l EXCEPT !.cs = 1, !.a0 = 0, !.volume = <<"value", value \div 4>>]
  BY <1>6 DEF Display
<1> HIDE DEF s3, l3
<1>10. Sent(l, s4) = l4
  BY <1>8, ThenPin
<1>11. l4 = [l EXCEPT !.cs = 0, !.a0 = 0, !.volume = <<"value", value \div 4>>]
  BY <1>9 DEF Selected, Display
<1>12. l4 \in Display
  BY <1>8 DEF Selected, Display
<1>13. QED
  BY <1>1, <1>10, <1>11, <1>12

-----------------------------------------------------------------------------
(***************************************************************************)
(* The screen                                                              *)
(***************************************************************************)

\* Where the menu and the texts can be.
MenuAndTexts ==
  /\ root \in Roots /\ focus \in 1 .. Len(Entries[root])
  /\ texts \in Nat /\ packets \in Nat
  /\ at \in GuiAt
  /\ at = "draw" => pg \in Page
  /\ pg \in Nat

\* How far UI::init has brought the display.
SettingUp ==
  at = "init" =>
    /\ part \in 1 .. 5
    /\ part = 1 => lcd = PowerOn
    /\ part > 1 => lcd.spi /\ lcd.a0 = 0 /\ lcd.command = "none"
    /\ part > 2 => lcd.rst = 1
    /\ part > 3 => /\ lcd.cs = 1 /\ lcd.on
                   /\ lcd.volume = <<"value", 37>>
    /\ shown = Blank

\* A display that can be sent a page.
Ready == at # "init" => lcd.spi /\ lcd.rst = 1

\* SELECT alone leads to these three.
Cycle ==
  onlySelect => <<root, focus>> \in {<<"ui_gauges", 1>>, <<"_dash", 1>>, <<"_top", 3>>}

\* What was drawn last.
ShownIsPicture == shown = Blank \/ shown \in Pictures

\* The inductive invariant: to say what a script leaves, the state of the
\* display has to be known wherever the next one starts.
ScreenInv ==
  /\ lcd \in Display
  /\ MenuAndTexts
  /\ SettingUp
  /\ Ready
  /\ DisplaySetUp
  /\ Cycle
  /\ ShownIsPicture
  /\ PicturesDoNotMix

\* The initial states satisfy the invariant.
LEMMA ScreenInit == Init => ScreenInv
<1> SUFFICES ASSUME Init PROVE ScreenInv
  OBVIOUS
<1>1. lcd \in Display
  BY Dimensions DEF Init, PowerOn, Display, Cells, Volumes
<1>2. MenuAndTexts
  BY DEF Init, MenuAndTexts, Roots, Entries, GuiAt
<1>3. SettingUp
  BY DEF Init, SettingUp
<1>4. Ready /\ DisplaySetUp /\ PicturesDoNotMix
  BY DEF Init, Ready, DisplaySetUp, PicturesDoNotMix
<1>5. Cycle /\ ShownIsPicture
  BY DEF Init, Cycle, ShownIsPicture
<1>6. QED
  BY <1>1, <1>2, <1>3, <1>4, <1>5 DEF ScreenInv

\* The menu: each page leads somewhere, and these three in a circle.
LEMMA EntriesOf ==
  /\ \A r \in Roots : /\ Len(Entries[r]) \in Nat \ {0}
                      /\ \A n \in 1 .. Len(Entries[r]) : Entries[r][n] \in Roots
  /\ Entries["ui_gauges"][1] = "_dash" /\ Entries["_dash"][1] = "_top"
  /\ Entries["_top"][3] = "ui_gauges"
  /\ Len(Entries["ui_gauges"]) = 1 /\ Len(Entries["_dash"]) = 1
  /\ Len(Entries["_top"]) = 3
BY DEF Roots, Entries

\* A key leaves the focus on an element of the page; SELECT keeps to the cycle.
LEMMA HandleKeeps ==
  ASSUME MenuAndTexts, Cycle, NEW k, Handle(k)
  PROVE  root' \in Roots /\ focus' \in 1 .. Len(Entries[root']) /\ Cycle'
<1>1. CASE k = "SELECT"
  <2>1. /\ root' = Entries[root][focus]
        /\ focus' = 1 + (Advance(root) % Len(Entries[root']))
        /\ onlySelect' = onlySelect
    BY <1>1 DEF Handle
  <2>2. root' \in Roots
    BY <2>1, EntriesOf DEF MenuAndTexts
  <2>3. focus' \in 1 .. Len(Entries[root'])
    <3>1. Advance(root) \in Nat
      BY DEF Advance
    <3>2. Len(Entries[root']) \in Nat \ {0}
      BY <2>2, EntriesOf
    <3>3. Advance(root) % Len(Entries[root']) \in 0 .. (Len(Entries[root']) - 1)
      BY <3>1, <3>2
    <3>4. QED
      BY <2>1, <3>2, <3>3
  <2>4. Cycle'
    <3> SUFFICES ASSUME onlySelect
        PROVE  <<root', focus'>>
                 \in {<<"ui_gauges", 1>>, <<"_dash", 1>>, <<"_top", 3>>}
      BY <2>1 DEF Cycle
    <3>1. CASE root = "ui_gauges" /\ focus = 1
      <4>1. root' = "_dash" /\ Advance(root) = 0
        BY <2>1, <3>1, EntriesOf DEF Advance
      <4>2. focus' = 1 + (0 % 1)
        BY <2>1, <4>1, EntriesOf
      <4>3. QED
        BY <4>1, <4>2
    <3>2. CASE root = "_dash" /\ focus = 1
      <4>1. root' = "_top" /\ Advance(root) = 2
        BY <2>1, <3>2, EntriesOf DEF Advance
      <4>2. focus' = 1 + (2 % 3)
        BY <2>1, <4>1, EntriesOf
      <4>3. QED
        BY <4>1, <4>2
    <3>3. CASE root = "_top" /\ focus = 3
      <4>1. root' = "ui_gauges" /\ Advance(root) = 0
        BY <2>1, <3>3, EntriesOf DEF Advance
      <4>2. focus' = 1 + (0 % 1)
        BY <2>1, <4>1, EntriesOf
      <4>3. QED
        BY <4>1, <4>2
    <3>4. QED
      BY <3>1, <3>2, <3>3 DEF Cycle
  <2>5. QED
    BY <2>2, <2>3, <2>4
<1>2. CASE k # "SELECT"
  <2> DEFINE n == Len(Entries[root])
             moved == IF k = "NEXT" THEN focus + 1 ELSE focus - 1
  <2>1. root' = root /\ focus' = 1 + ((moved - 1) % n) /\ onlySelect' = FALSE
    BY <1>2 DEF Handle
  <2>2. n \in Nat \ {0} /\ moved \in Int
    BY EntriesOf DEF MenuAndTexts
  <2> HIDE DEF n, moved
  <2>3. (moved - 1) % n \in 0 .. (n - 1)
    BY <2>2
  <2>4. focus' \in 1 .. n
    BY <2>1, <2>2, <2>3
  <2>5. QED
    BY <2>1, <2>4 DEF MenuAndTexts, Cycle, n
<1>3. QED
  BY <1>1, <1>2

\* What is drawn is a picture, and its bytes fit the memory.
LEMMA PictureIsPicture ==
  ASSUME MenuAndTexts
  PROVE  /\ Picture \in Pictures
         /\ \A p \in Page : /\ Bytes(Picture, p) \in [1 .. WIDTH -> Cells]
                            /\ \A cl \in Column : cl + 1 \in 1 .. WIDTH
<1>1. focus \in Nat
  BY EntriesOf DEF MenuAndTexts
<1>2. Content(root) \in Nat
  BY DEF MenuAndTexts, Content
<1>3. Picture \in Pictures
  BY <1>1, <1>2 DEF MenuAndTexts, Picture, Pictures
<1>4. \A p \in Page, cl \in 1 .. WIDTH : <<"picture", Picture, p, cl>> \in Cells
  BY <1>3 DEF Cells
<1>5. QED
  BY <1>3, <1>4, Dimensions DEF Bytes

\* No picture is the blank one.
LEMMA PictureNotBlank == \A picture \in Pictures : picture # Blank
<1>1. \A picture \in Pictures : Len(picture) = 3
  BY DEF Pictures
<1>2. Len(Blank) = 1
  BY DEF Blank
<1>3. QED
  BY <1>1, <1>2

\* A part of the initialisation.
LEMMA SendPartKeeps == ScreenInv /\ SendPart => ScreenInv'
<1> SUFFICES ASSUME ScreenInv, SendPart PROVE ScreenInv'
  OBVIOUS
<1>1. /\ at = "init" /\ part \in 1 .. 4 /\ part' = part + 1 /\ part \in Nat
      /\ lcd' = Sent(lcd, u8g_dev_init_seq[part])
      /\ at' = at /\ pg' = pg /\ shown' = shown /\ root' = root /\ focus' = focus
      /\ onlySelect' = onlySelect /\ texts' = texts /\ packets' = packets
  <2>1. Len(u8g_dev_init_seq) = 5
    BY DEF u8g_dev_init_seq
  <2>2. QED
    BY <2>1 DEF SendPart, ScreenInv, SettingUp, menuVars, textVars
<1>2. lcd \in Display
  BY DEF ScreenInv
<1>3. /\ lcd' \in Display
      /\ lcd'.spi /\ lcd'.a0 = 0 /\ lcd'.command = "none"
      /\ part > 1 => lcd'.rst = 1
      /\ part > 2 => lcd'.cs = 1 /\ lcd'.on /\ lcd'.volume = <<"value", 37>>
  <2>1. CASE part = 1
    <3>1. lcd = PowerOn
      BY <1>1, <2>1 DEF ScreenInv, SettingUp
    <3>2. QED
      BY <1>1, <2>1, <3>1, PartOne
  <2>2. CASE part = 2
    <3>1. lcd.spi /\ lcd.a0 = 0 /\ lcd.command = "none"
      BY <1>1, <2>2 DEF ScreenInv, SettingUp
    <3>2. lcd' = [lcd EXCEPT !.rst = 1] /\ lcd' \in Display
      BY <1>1, <1>2, <2>2, PartTwo
    <3>3. QED
      BY <1>2, <2>2, <3>1, <3>2 DEF Display
  <2>3. CASE part = 3
    <3>1. lcd.spi /\ lcd.a0 = 0 /\ lcd.command = "none" /\ lcd.rst = 1
      BY <1>1, <2>3 DEF ScreenInv, SettingUp
    <3>2. /\ lcd' = [lcd EXCEPT !.cs = 1, !.on = TRUE, !.all_points = FALSE,
                               !.volume = <<"value", 37>>]
          /\ lcd' \in Display
      BY <1>1, <1>2, <2>3, <3>1, PartThree
    <3>3. QED
      BY <1>2, <2>3, <3>1, <3>2 DEF Display
  <2>4. CASE part = 4
    <3>1. /\ lcd.spi /\ lcd.a0 = 0 /\ lcd.command = "none" /\ lcd.rst = 1
          /\ lcd.cs = 1 /\ lcd.on /\ lcd.volume = <<"value", 37>>
      BY <1>1, <2>4 DEF ScreenInv, SettingUp
    <3>2. lcd' = [lcd EXCEPT !.all_points = TRUE] /\ lcd' \in Display
      BY <1>1, <1>2, <2>4, <3>1, PartFour DEF TakesCommand
    <3>3. QED
      BY <1>2, <2>4, <3>1, <3>2 DEF Display
  <2>5. QED
    BY <1>1, <2>1, <2>2, <2>3, <2>4
<1>4. MenuAndTexts' /\ Cycle' /\ ShownIsPicture'
  BY <1>1 DEF ScreenInv, MenuAndTexts, Cycle, ShownIsPicture
<1>5. SettingUp'
  BY <1>1, <1>3 DEF ScreenInv, SettingUp
<1>6. Ready' /\ DisplaySetUp' /\ PicturesDoNotMix'
  BY <1>1 DEF Ready, DisplaySetUp, PicturesDoNotMix
<1>7. QED
  BY <1>3, <1>4, <1>5, <1>6 DEF ScreenInv

\* The last part, and the memory cleared.
LEMMA InitEndsKeeps == ScreenInv /\ InitEnds => ScreenInv'
<1> SUFFICES ASSUME ScreenInv, InitEnds PROVE ScreenInv'
  OBVIOUS
<1>1. /\ at = "init" /\ part = 5 /\ at' = "tick"
      /\ lcd' = ClearPages(Sent(lcd, u8g_dev_init_seq[5]))
      /\ pg' = pg /\ shown' = shown /\ root' = root /\ focus' = focus
      /\ onlySelect' = onlySelect /\ texts' = texts /\ packets' = packets
  <2>1. Len(u8g_dev_init_seq) = 5
    BY DEF u8g_dev_init_seq
  <2>2. QED
    BY <2>1 DEF InitEnds, menuVars, textVars
<1>2. lcd \in Display
  BY DEF ScreenInv
<1>3. /\ lcd.spi /\ lcd.a0 = 0 /\ lcd.command = "none" /\ lcd.rst = 1
      /\ lcd.cs = 1 /\ lcd.on /\ lcd.volume = <<"value", 37>> /\ shown = Blank
  BY <1>1 DEF ScreenInv, SettingUp
<1> DEFINE l == [lcd EXCEPT !.all_points = FALSE, !.cs = 0]
<1>4. Sent(lcd, u8g_dev_init_seq[5]) = l /\ l \in Display
  BY <1>2, <1>3, PartFive DEF TakesCommand
<1>5. /\ l.spi /\ l.rst = 1 /\ l.command = "none" /\ l.on /\ ~l.all_points
      /\ l.volume = <<"value", 37>>
  BY <1>2, <1>3 DEF Display
<1> HIDE DEF l
<1>6. lcd' = Cleared(l, Pages) /\ lcd' \in Display
  BY <1>1, <1>4, <1>5, ClearPagesClears
<1>7. lcd' = [l EXCEPT !.cs = 0, !.a0 = 1, !.page = Pages - 1, !.column = WIDTH,
                       !.ram = BlankTo(l.ram, Pages)]
  BY <1>6, Dimensions DEF Cleared
<1>8. /\ lcd'.spi /\ lcd'.rst = 1 /\ lcd'.command = "none" /\ lcd'.on
      /\ ~lcd'.all_points /\ lcd'.volume = <<"value", 37>> /\ lcd'.cs = 0
      /\ lcd'.ram = BlankTo(l.ram, Pages)
  BY <1>4, <1>5, <1>7 DEF Display
<1>9. MenuAndTexts' /\ Cycle' /\ ShownIsPicture'
  BY <1>1 DEF ScreenInv, MenuAndTexts, Cycle, ShownIsPicture, GuiAt
<1>10. SettingUp' /\ Ready' /\ DisplaySetUp'
  BY <1>1, <1>8 DEF SettingUp, Ready, DisplaySetUp
<1>11. PicturesDoNotMix'
  <2>1. \A p \in Page, cl \in Column : lcd'.ram[p][cl] = Blank
    BY <1>8, Dimensions DEF BlankTo
  <2>2. QED
    BY <1>1, <1>3, <2>1 DEF PicturesDoNotMix
<1>12. QED
  BY <1>6, <1>9, <1>10, <1>11 DEF ScreenInv

\* A key may turn the page of the UI; the display still shows the old picture.
LEMMA FirstPageKeeps == ScreenInv /\ FirstPage => ScreenInv'
<1> SUFFICES ASSUME ScreenInv, FirstPage PROVE ScreenInv'
  OBVIOUS
<1>1. /\ at = "tick" /\ at' = "draw" /\ pg' = 0 /\ lcd' = lcd /\ shown' = shown
      /\ texts' = texts /\ packets' = packets
  BY DEF FirstPage, textVars
<1>2. root' \in Roots /\ focus' \in 1 .. Len(Entries[root']) /\ Cycle'
  <2>1. CASE UNCHANGED menuVars
    BY <2>1 DEF ScreenInv, MenuAndTexts, Cycle, menuVars
  <2>2. CASE \E k : Handle(k)
    BY <2>2, HandleKeeps DEF ScreenInv
  <2>3. QED
    BY <2>1, <2>2 DEF FirstPage
<1>3. MenuAndTexts'
  BY <1>1, <1>2, Dimensions DEF ScreenInv, MenuAndTexts, GuiAt
<1>4. SettingUp' /\ Ready' /\ DisplaySetUp' /\ ShownIsPicture'
  BY <1>1 DEF ScreenInv, SettingUp, Ready, DisplaySetUp, ShownIsPicture
<1>5. PicturesDoNotMix'
  <2>1. \A p \in Page : ~(p < 0)
    BY Dimensions
  <2>2. QED
    BY <1>1, <2>1 DEF ScreenInv, PicturesDoNotMix, Holds
<1>6. QED
  BY <1>1, <1>2, <1>3, <1>4, <1>5 DEF ScreenInv

\* The memory ram holds a picture in page p.
Drawn(ram, p, picture) == \A cl \in Column : ram[p][cl] = Bytes(picture, p)[cl + 1]

\* A page is drawn.
LEMMA NextPageKeeps == ScreenInv /\ NextPage => ScreenInv'
<1> SUFFICES ASSUME ScreenInv, NextPage PROVE ScreenInv'
  OBVIOUS
<1>1. /\ at = "draw" /\ pg \in Page /\ pg' = pg + 1
      /\ lcd' = Sent(lcd, WritePage(pg, Bytes(Picture, pg)))
      /\ root' = root /\ focus' = focus /\ onlySelect' = onlySelect
      /\ texts' = texts /\ packets' = packets /\ updated' = updated
      /\ IF pg + 1 = Pages THEN at' = "texts" /\ shown' = Picture
                           ELSE at' = "draw" /\ shown' = shown
  BY DEF NextPage, ScreenInv, MenuAndTexts, menuVars, textVars
<1>2. /\ lcd \in Display /\ lcd.spi /\ lcd.rst = 1
      /\ lcd.on /\ ~lcd.all_points /\ lcd.command = "none"
      /\ lcd.volume
           \in {<<"value", v>> : v \in {37} \union {c \div 4 : c \in Contrasts}}
  BY <1>1 DEF ScreenInv, Ready, DisplaySetUp
<1>3. Picture \in Pictures /\ Bytes(Picture, pg) \in [1 .. WIDTH -> Cells]
  BY <1>1, PictureIsPicture DEF ScreenInv
<1>4. lcd' = PageDone(lcd, pg, Bytes(Picture, pg)) /\ lcd' \in Display
  BY <1>1, <1>2, <1>3, PageSent
<1>5. /\ lcd'.spi /\ lcd'.rst = 1 /\ lcd'.on /\ ~lcd'.all_points
      /\ lcd'.command = "none" /\ lcd'.cs = 0 /\ lcd'.volume = lcd.volume
      /\ lcd'.ram = Written(lcd.ram, pg, Bytes(Picture, pg), WIDTH)
  BY <1>2, <1>4 DEF PageDone, Display
<1>6. MenuAndTexts'
  <2>1. pg + 1 # Pages => pg + 1 \in Page
    BY <1>1, Dimensions
  <2>2. pg + 1 \in Nat
    BY <1>1, Dimensions
  <2>3. QED
    BY <1>1, <2>1, <2>2 DEF ScreenInv, MenuAndTexts, GuiAt
<1>7. Cycle'
  BY <1>1 DEF ScreenInv, Cycle
<1>8. SettingUp' /\ Ready' /\ DisplaySetUp'
  BY <1>1, <1>2, <1>5 DEF SettingUp, Ready, DisplaySetUp
<1>9. ShownIsPicture'
  BY <1>1, <1>3 DEF ScreenInv, ShownIsPicture
<1>10. PicturesDoNotMix'
  <2> DEFINE Old(r, p) == IF shown = Blank THEN \A cl \in Column : r[p][cl] = Blank
                                           ELSE Drawn(r, p, shown)
  <2>1. Picture' = Picture
    BY <1>1 DEF Picture, Content
  <2>2. /\ \A p \in Page : p # pg => lcd'.ram[p] = lcd.ram[p]
        /\ \A cl \in Column : lcd'.ram[pg][cl] = Bytes(Picture, pg)[cl + 1]
    <3>1. lcd.ram \in [Page -> [Column -> Cells]]
      BY <1>2 DEF Display
    <3>2. QED
      BY <1>1, <1>5, <3>1, Dimensions DEF Written
  <2>3. \A p \in Page : /\ p < pg => Drawn(lcd.ram, p, Picture)
                        /\ p > pg => Old(lcd.ram, p)
    BY <1>1, Dimensions DEF ScreenInv, PicturesDoNotMix, Holds, Drawn
  <2>4. \A p \in Page : p < pg \/ p = pg => Drawn(lcd'.ram, p, Picture)
    <3>1. Drawn(lcd'.ram, pg, Picture)
      BY <2>2 DEF Drawn
    <3>2. ASSUME NEW p \in Page, p < pg PROVE Drawn(lcd'.ram, p, Picture)
      <4>1. p # pg
        BY <1>1, <3>2, Dimensions
      <4>2. QED
        BY <2>2, <2>3, <3>2, <4>1 DEF Drawn
    <3>3. QED
      BY <3>1, <3>2
  <2>5. ASSUME NEW p \in Page, p > pg PROVE Old(lcd'.ram, p)
    <3>1. p # pg
      BY <1>1, <2>5, Dimensions
    <3>2. QED
      BY <2>2, <2>3, <2>5, <3>1 DEF Drawn
  <2> HIDE DEF Old
  <2>6. CASE pg + 1 = Pages
    <3>1. \A p \in Page : p < pg \/ p = pg
      BY <1>1, <2>6, Dimensions
    <3>2. \A p \in Page : Drawn(lcd'.ram, p, Picture)
      BY <2>4, <3>1
    <3>3. shown' = Picture /\ shown' # Blank /\ at' = "texts"
      BY <1>1, <1>3, <2>1, <2>6, PictureNotBlank
    <3>4. QED
      BY <3>2, <3>3 DEF PicturesDoNotMix, Holds, Drawn
  <2>7. CASE pg + 1 # Pages
    <3>1. \A p \in Page : (p < pg + 1 => p < pg \/ p = pg) /\ (p >= pg + 1 => p > pg)
      BY <1>1, Dimensions
    <3>2. \A p \in Page : p < pg + 1 => Drawn(lcd'.ram, p, Picture')
      BY <2>1, <2>4, <3>1
    <3>3. \A p \in Page : p >= pg + 1 => Old(lcd'.ram, p)
      BY <2>5, <3>1
    <3>4. shown' = shown /\ at' = "draw" /\ pg' = pg + 1
      BY <1>1, <2>7
    <3>5. QED
      BY <3>2, <3>3, <3>4 DEF PicturesDoNotMix, Holds, Drawn, Old
  <2>8. QED
    BY <2>6, <2>7
<1>11. QED
  BY <1>4, <1>6, <1>7, <1>8, <1>9, <1>10 DEF ScreenInv

\* Out of the picture loop, what is not drawn yet is the picture shown.
LEMMA ShownStays ==
  ASSUME PicturesDoNotMix, at \notin {"init", "draw"}, at' \notin {"init", "draw"},
         lcd'.ram = lcd.ram, shown' = shown
  PROVE  PicturesDoNotMix'
<1>1. \A p \in Page : IF shown = Blank THEN \A cl \in Column : lcd.ram[p][cl] = Blank
                                       ELSE Drawn(lcd.ram, p, shown)
  BY DEF PicturesDoNotMix, Holds, Drawn
<1>2. QED
  BY <1>1 DEF PicturesDoNotMix, Holds, Drawn

\* The steps of the tick that leave the display alone.
LEMMA QuietKeeps == ScreenInv /\ (RenewTexts \/ Wake) => ScreenInv'
<1> SUFFICES ASSUME ScreenInv, RenewTexts \/ Wake PROVE ScreenInv'
  OBVIOUS
<1>1. /\ at \in {"texts", "asleep"} /\ at' \in {"asleep", "tick"}
      /\ lcd' = lcd /\ pg' = pg /\ shown' = shown
      /\ root' = root /\ focus' = focus /\ onlySelect' = onlySelect
      /\ packets' = packets /\ texts' \in {texts, packets}
  BY DEF RenewTexts, Wake, drawVars, menuVars, textVars
<1>2. lcd' \in Display /\ MenuAndTexts' /\ Cycle' /\ ShownIsPicture'
  BY <1>1 DEF ScreenInv, MenuAndTexts, Cycle, ShownIsPicture, GuiAt
<1>3. SettingUp' /\ Ready' /\ DisplaySetUp'
  BY <1>1 DEF ScreenInv, SettingUp, Ready, DisplaySetUp
<1>4. PicturesDoNotMix'
  BY <1>1, ShownStays DEF ScreenInv
<1>5. QED
  BY <1>2, <1>3, <1>4 DEF ScreenInv

\* A contrast changes nothing but the volume.
LEMMA ContrastKeeps == ScreenInv /\ Contrast => ScreenInv'
<1> SUFFICES ASSUME ScreenInv, NEW value \in Contrasts, at = "tick",
                    lcd' = Sent(lcd, SetContrast(value)),
                    UNCHANGED <<pg, shown, menuVars, textVars, at, packets>>
             PROVE  ScreenInv'
  BY DEF Contrast
<1>1. /\ pg' = pg /\ shown' = shown /\ at' = at
      /\ root' = root /\ focus' = focus /\ onlySelect' = onlySelect
      /\ packets' = packets /\ texts' = texts
  BY DEF menuVars, textVars
<1>2. /\ lcd \in Display /\ lcd.spi /\ lcd.rst = 1
      /\ lcd.on /\ ~lcd.all_points /\ lcd.command = "none"
  BY DEF ScreenInv, Ready, DisplaySetUp
<1>3. value \in 0 .. 255
  BY ScreenAssumption
<1>4. /\ lcd' = [lcd EXCEPT !.cs = 0, !.a0 = 0, !.volume = <<"value", value \div 4>>]
      /\ lcd' \in Display
  BY <1>2, <1>3, ContrastSent
<1>5. /\ lcd'.spi /\ lcd'.rst = 1 /\ lcd'.on /\ ~lcd'.all_points
      /\ lcd'.command = "none" /\ lcd'.cs = 0 /\ lcd'.ram = lcd.ram
      /\ lcd'.volume = <<"value", value \div 4>>
  BY <1>2, <1>4 DEF Display
<1>6. MenuAndTexts' /\ Cycle' /\ ShownIsPicture'
  BY <1>1 DEF ScreenInv, MenuAndTexts, Cycle, ShownIsPicture
<1>7. SettingUp' /\ Ready' /\ DisplaySetUp'
  BY <1>1, <1>5 DEF SettingUp, Ready, DisplaySetUp
<1>8. PicturesDoNotMix'
  BY <1>1, <1>5, ShownStays DEF ScreenInv
<1>9. QED
  BY <1>4, <1>6, <1>7, <1>8 DEF ScreenInv

\* A packet comes only where no picture is being drawn.
LEMMA PacketKeeps == ScreenInv /\ Packet => ScreenInv'
<1> SUFFICES ASSUME ScreenInv, Packet PROVE ScreenInv'
  OBVIOUS
<1>1. /\ at \in {"asleep", "init"} /\ at' = at /\ part' = part
      /\ lcd' = lcd /\ pg' = pg /\ shown' = shown
      /\ root' = root /\ focus' = focus /\ onlySelect' = onlySelect
      /\ texts' = texts /\ packets' = (packets + 1) % PacketMod
  BY DEF Packet, drawVars, menuVars
<1>2. packets' \in Nat
  BY <1>1, ScreenAssumption DEF ScreenInv, MenuAndTexts
<1>3. lcd' \in Display /\ MenuAndTexts' /\ Cycle' /\ ShownIsPicture'
  BY <1>1, <1>2 DEF ScreenInv, MenuAndTexts, Cycle, ShownIsPicture
<1>4. SettingUp' /\ Ready' /\ DisplaySetUp'
  BY <1>1 DEF ScreenInv, SettingUp, Ready, DisplaySetUp
<1>5. PicturesDoNotMix'
  <2>1. CASE at = "init"
    BY <1>1, <2>1 DEF PicturesDoNotMix
  <2>2. CASE at = "asleep"
    BY <1>1, <2>2, ShownStays DEF ScreenInv
  <2>3. QED
    BY <1>1, <2>1, <2>2
<1>6. QED
  BY <1>3, <1>4, <1>5 DEF ScreenInv

\* Each step keeps the invariant.
LEMMA ScreenNext == ScreenInv /\ [Next]_screenVars => ScreenInv'
<1> SUFFICES ASSUME ScreenInv, [Next]_screenVars PROVE ScreenInv'
  OBVIOUS
<1>1. CASE UNCHANGED screenVars
  <2>1. /\ at' = at /\ part' = part /\ lcd' = lcd /\ pg' = pg /\ shown' = shown
        /\ root' = root /\ focus' = focus /\ onlySelect' = onlySelect
        /\ texts' = texts /\ packets' = packets
    BY <1>1 DEF screenVars, drawVars, menuVars, textVars
  <2>2. lcd' \in Display /\ MenuAndTexts' /\ Cycle' /\ ShownIsPicture'
    BY <2>1 DEF ScreenInv, MenuAndTexts, Cycle, ShownIsPicture
  <2>3. SettingUp' /\ Ready' /\ DisplaySetUp'
    BY <2>1 DEF ScreenInv, SettingUp, Ready, DisplaySetUp
  <2>4. PicturesDoNotMix'
    BY <2>1 DEF ScreenInv, PicturesDoNotMix, Holds, Picture, Content
  <2>5. QED
    BY <2>2, <2>3, <2>4 DEF ScreenInv
<1>2. CASE UI
  BY <1>2, SendPartKeeps, InitEndsKeeps, FirstPageKeeps, NextPageKeeps, QuietKeeps
  DEF UI
<1>3. QED
  BY <1>1, <1>2, ContrastKeeps, PacketKeeps DEF Next

\* The invariant of the screen, for a display of any size.
THEOREM ScreenInvariance == Spec => []ScreenInv
<1>1. QED
  BY ScreenInit, ScreenNext, PTL DEF Spec

\* For every size of the display and every stream of keys and packets, the
\* pictures do not mix but at the line the picture loop has come to.
THEOREM PicturesKeptApart == Spec => []PicturesDoNotMix
<1>1. ScreenInv => PicturesDoNotMix
  BY DEF ScreenInv
<1>2. QED
  BY <1>1, ScreenInvariance, PTL

\* Out of UI::init the display is on, with a contrast somebody asked for.
THEOREM DisplayStaysSetUp == Spec => []DisplaySetUp
<1>1. ScreenInv => DisplaySetUp
  BY DEF ScreenInv
<1>2. QED
  BY <1>1, ScreenInvariance, PTL

\* SELECT alone goes round gauges, dashboard and menu.
THEOREM SelectGoesRound == Spec => []OneButtonCycle
<1>1. ScreenInv => OneButtonCycle
  BY DEF ScreenInv, Cycle, OneButtonCycle
<1>2. QED
  BY <1>1, ScreenInvariance, PTL
=============================================================================
