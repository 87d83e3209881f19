-------------------------------- MODULE Screen --------------------------------
(***************************************************************************)
(* The GUI process (src/main.cpp, src/ui.cpp): UI::init, then UI::tick and *)
(* OS::sleep(10) for ever.  tick takes a key, draws the picture page by    *)
(* page, and renews the texts if EBL::was_updated.                         *)
(*                                                                         *)
(* Comms works only while GUI sleeps: GUI has the higher priority and      *)
(* blocks nowhere else (SerialPort!GUIFirst).  What a packet says is its   *)
(* number here; Decoder has what its bytes do, Gauges what the texts say.  *)
(*                                                                         *)
(* m2tklib and u8glib are external.  Of m2tklib: m2_CheckKey puts a key    *)
(* that is pressed anew into a queue, m2_HandleKey takes one out; only     *)
(* elements that can be selected take the focus, and it wraps.             *)
(* Of u8glib: pages are drawn from first to last.                          *)
(***************************************************************************)
EXTENDS Lcd

CONSTANTS
  PacketMod,  \* bound: packets are numbered modulo this
  QueueSize,  \* keys m2tklib keeps
  Contrasts   \* values a contrast may be set to

ASSUME ScreenAssumption ==
  /\ PacketMod \in Nat \ {0, 1}
  /\ QueueSize \in Nat \ {0}
  /\ Contrasts \subseteq 0 .. 255

VARIABLES
  lcd,
  at,       \* where GUI is, see GuiAt
  part,     \* in UI::init: the part of u8g_dev_init_seq to send next
  pg,       \* in the picture loop: the page to draw next
  timer,    \* GUI sleeps and the tick is going to wake it
  root,     \* the m2tk root: the page of the UI
  focus,    \* the element of it that SELECT acts on
  keys,     \* queue of keys pressed
  packets,  \* EBL::good_packets, the number of the packet in the image
  updated,
  texts,    \* number of the packet the texts were made from
  shown,    \* history: the picture drawn before this one
  onlySelect  \* history: no other key has been handled

drawVars == <<lcd, pg, shown>>
menuVars == <<root, focus, onlySelect>>
textVars == <<updated, texts>>
screenVars == <<drawVars, menuVars, keys, textVars, at, part, timer, packets>>

GuiAt == {"init", "tick", "draw", "texts", "asleep"}

-----------------------------------------------------------------------------
(***************************************************************************)
(* The pages of the UI and their pictures                                  *)
(***************************************************************************)

Roots == {"ui_gauges", "_dash", "_top", "_settings", "_stats"}

\* The roots the elements that can be selected lead to, in their order.
Entries == [
  ui_gauges |-> <<"_dash">>,
  _dash     |-> <<"_top">>,
  _top      |-> <<"_settings", "_stats", "ui_gauges">>,
  _settings |-> <<"_top">>,
  _stats    |-> <<"_top">>]

\* Mutant: the focus ends one element too early.
Advance_OneShort(from) == IF from = "_dash" THEN 1 ELSE 0

\* The next_count of m2_SetRootExtended: from the dashboard, the focus goes
\* to the third element of the menu, DONE.
Advance(from) == IF from = "_dash" THEN 2 ELSE 0

\* What a page shows: the texts, the counters as they are, or neither.
Content(r) == CASE r \in {"ui_gauges", "_dash"} -> texts
                [] r = "_stats" -> packets
                [] OTHER -> 0

Picture == <<root, focus, Content(root)>>

Bytes(picture, p) == [cl \in 1 .. WIDTH |-> <<"picture", picture, p, cl>>]

\* The memory holds the picture in page p.
Holds(p, picture) ==
  \A cl \in Column : lcd.ram[p][cl] = Bytes(picture, p)[cl + 1]

-----------------------------------------------------------------------------
(***************************************************************************)
(* Keys                                                                    *)
(***************************************************************************)

\* m2_board_es(M2_ES_MSG_GET_KEY), with the set of buttons held down.
m2_board_es(down) ==
  CASE "GPIO11" \in down -> "SELECT"
    [] "GPIO11" \notin down /\ "GPIO10" \in down -> "PREV"
    [] down = {"GPIO12"} -> "NEXT"
    [] down = {} -> "NONE"

Readings == {m2_board_es(down) : down \in SUBSET {"GPIO10", "GPIO11", "GPIO12"}}

\* The queue of keys after m2_CheckKey: a reading may be one it had before.
m2_CheckKey ==
  {keys} \union
    {Append(keys, k) : k \in IF Len(keys) < QueueSize THEN Readings \ {"NONE"} ELSE {}}

\* m2_HandleKey() with key k.
Handle(k) ==
  LET n == Len(Entries[root])
      moved == IF k = "NEXT" THEN focus + 1 ELSE focus - 1
  IN IF k = "SELECT"
       THEN /\ root' = Entries[root][focus]
            /\ focus' = 1 + (Advance(root) % Len(Entries[root']))
            /\ UNCHANGED onlySelect
       ELSE /\ focus' = 1 + ((moved - 1) % n)
            /\ onlySelect' = FALSE
            /\ UNCHANGED root

-----------------------------------------------------------------------------
(***************************************************************************)
(* UI::init                                                                *)
(***************************************************************************)

\* Mutant: the delay is passed on in units of 32 ms.
sleep_Coarse(delay) == timer' = (delay \div 32 # 0)

\* OS::sleep(delay), as u8g_Delay and the loop of GUI call it: the tick ends
\* it, unless it is sleep(0).
sleep(delay) == timer' = (delay # 0)

Init ==
  /\ lcd = PowerOn
  /\ at = "init" /\ part = 1 /\ pg = 0 /\ timer = TRUE
  /\ root = "ui_gauges" /\ focus = 1
  /\ keys = <<>>
  /\ packets = 0 /\ updated = FALSE /\ texts = 0
  /\ shown = Blank
  /\ onlySelect = TRUE

\* A part of the sequence and the delay that ends it.
SendPart ==
  /\ at = "init" /\ timer
  /\ part < Len(u8g_dev_init_seq)
  /\ lcd' = Sent(lcd, u8g_dev_init_seq[part])
  /\ sleep(init_delays[part])
  /\ part' = part + 1
  /\ UNCHANGED <<at, pg, shown, menuVars, keys, textVars, packets>>

\* The last part, and the blank pages; m2_Init only sets the root.
InitEnds ==
  /\ at = "init" /\ timer
  /\ part = Len(u8g_dev_init_seq)
  /\ lcd' = ClearPages(Sent(lcd, u8g_dev_init_seq[part]))
  /\ at' = "tick"
  /\ UNCHANGED <<part, pg, timer, shown, menuVars, keys, textVars, packets>>

-----------------------------------------------------------------------------
(***************************************************************************)
(* UI::tick                                                                *)
(***************************************************************************)

\* m2_CheckKey, m2_HandleKey, u8g_FirstPage.
FirstPage ==
  /\ at = "tick"
  /\ \E queue \in m2_CheckKey :
       /\ keys' = IF queue = <<>> THEN queue ELSE Tail(queue)
       /\ IF queue = <<>> THEN UNCHANGED menuVars ELSE Handle(Head(queue))
  /\ at' = "draw"
  /\ pg' = 0
  /\ UNCHANGED <<lcd, shown, textVars, part, timer, packets>>

\* m2_Draw, m2_CheckKey, u8g_NextPage, which sends the page.
NextPage ==
  /\ at = "draw"
  /\ keys' \in m2_CheckKey
  /\ lcd' = Sent(lcd, WritePage(pg, Bytes(Picture, pg)))
  /\ pg' = pg + 1
  /\ IF pg' = Pages
       THEN at' = "texts" /\ shown' = Picture
       ELSE UNCHANGED <<at, shown>>
  /\ UNCHANGED <<menuVars, textVars, part, timer, packets>>

\* was_updated and the texts; then OS::sleep(10).
RenewTexts ==
  /\ at = "texts"
  /\ updated' = FALSE
  /\ texts' = IF updated THEN packets ELSE texts
  /\ at' = "asleep"
  /\ sleep(10)
  /\ UNCHANGED <<drawVars, menuVars, keys, part, packets>>

\* The tick ends the sleep.
Wake ==
  /\ at = "asleep" /\ timer
  /\ at' = "tick"
  /\ UNCHANGED <<drawVars, menuVars, keys, textVars, part, timer, packets>>

\* u8g_SetContrast, between two ticks; nothing in EBLmon calls it.
Contrast ==
  /\ at = "tick"
  /\ \E value \in Contrasts : lcd' = Sent(lcd, SetContrast(value))
  /\ UNCHANGED <<pg, shown, menuVars, keys, textVars, at, part, timer, packets>>

\* Comms completes a packet while GUI sleeps.
Packet ==
  /\ at = "asleep" \/ (at = "init" /\ part > 1)
  /\ packets' = (packets + 1) % PacketMod
  /\ updated' = TRUE
  /\ UNCHANGED <<drawVars, menuVars, keys, texts, at, part, timer>>

UI == SendPart \/ InitEnds \/ FirstPage \/ NextPage \/ RenewTexts \/ Wake

Next == UI \/ Contrast \/ Packet

\* GUI has the highest priority, and the tick is periodic.
Spec == Init /\ [][Next]_screenVars /\ WF_screenVars(UI)

-----------------------------------------------------------------------------
(***************************************************************************)
(* Properties                                                              *)
(***************************************************************************)

\* The pictures on the display do not mix but at the line the picture loop
\* has come to: the pages above it hold the new picture in whole, each byte in
\* its place, those below it the one before, although the picture is made
\* anew for each page, from texts, counters and a menu that others change.
PicturesDoNotMix ==
  \A p \in Page :
    /\ at = "draw" /\ p < pg => Holds(p, Picture)
    /\ at # "init" /\ (at = "draw" => p >= pg) =>
         IF shown = Blank THEN \A cl \in Column : lcd.ram[p][cl] = Blank
                          ELSE Holds(p, shown)

\* Out of UI::init the display is on and shows its memory, with a contrast
\* somebody asked for, and no command is left half sent or chip selected.
DisplaySetUp ==
  at # "init" =>
    /\ lcd.on /\ ~lcd.all_points
    /\ lcd.volume \in {<<"value", v>> : v \in {37} \union {c \div 4 : c \in Contrasts}}
    /\ lcd.command = "none" /\ lcd.cs = 0

\* SELECT alone goes round gauges, dashboard and menu: the menu is entered on
\* its last element, which leads back to the gauges.
OneButtonCycle ==
  onlySelect => root \in {"ui_gauges", "_dash", "_top"}

\* A packet comes to the screen: its texts are drawn in the end, unless
\* another packet comes or the user looks at a page without texts.
PacketIsShown ==
  \A n \in 0 .. (PacketMod - 1) :
    (updated /\ packets = n) ~>
      \/ packets # n
      \/ root \notin {"ui_gauges", "_dash"}
      \/ \E r \in {"ui_gauges", "_dash"} : \A p \in Page : Holds(p, <<r, 1, n>>)
=============================================================================
