----------------------------- MODULE SerialPort -----------------------------
(***************************************************************************)
(* The serial receiver of EBLmon: the USART interrupt handler and com_rx   *)
(* fill a ring of bytes, com_getc empties it for the Comms process, which  *)
(* blocks on an event flag while the ring is empty (src/board.cpp,         *)
(* src/board_fld_v2.cpp, src/main.cpp).  GUI and LED are the processes     *)
(* above and below Comms; of what they do only their sleeping matters      *)
(* here.                                                                   *)
(*                                                                         *)
(* com_getc holds TCritSect from its first line to its last, so it should  *)
(* be one step but for the wait.  Its first comparison of the two indices  *)
(* is a step of its own all the same: the CPSID that opens the section is  *)
(* an asm statement with no memory clobber, and a build may load the two   *)
(* plain members before it.  The MSR that closes the section has a         *)
(* clobber: no store moves past it.                                        *)
(*                                                                         *)
(* com_interrupts, which is only printed, is left out.                     *)
(***************************************************************************)
EXTENDS EventFlag, Sequences

CONSTANTS
  _rx_buf_size,  \* slots of the ring, 1024 in the code
  Byte           \* the bytes the ECU sends; 0 is one of them

ASSUME SerialAssumption ==
  /\ ProcessCount >= 2
  /\ MaxTimeout >= 1
  /\ _rx_buf_size \in Nat \ {0, 1}
  /\ 0 \in Byte

Comms == pr0 - 1
Slot == 0 .. (_rx_buf_size - 1)

VARIABLES
  _rx_buf,
  _rx_head,  \* the next byte to take, moved by com_getc
  _rx_tail,  \* the next free slot, moved by com_rx
  comAt,     \* where Comms is in com_getc, see GetcAt
  c,         \* the byte com_getc returned last
  received   \* history: the byte com_rx was last given

ringVars == <<_rx_buf, _rx_head, _rx_tail>>
serialVars == <<serviceVars, ringVars, comAt, c, received>>

\* decode: outside com_getc; empty, avail: the indices were compared, and
\* interrupts may still be open; waiting: inside _rx_data_avail.wait();
\* recheck: wait() has returned, with interrupts masked.
GetcAt == {"decode", "empty", "avail", "waiting", "recheck"}

SerialInit ==
  /\ FlagInit
  /\ _rx_buf = [i \in Slot |-> 0]
  /\ _rx_head = 0
  /\ _rx_tail = 0
  /\ comAt = "decode"
  /\ c = 0
  /\ received = 0

RingEmpty == _rx_tail = _rx_head
next_slot(i) == (i + 1) % _rx_buf_size
RingFull == next_slot(_rx_tail) = _rx_head

\* Interrupts are masked while com_getc goes from the wait to its next test.
Masked == comAt = "recheck"

-----------------------------------------------------------------------------
(***************************************************************************)
(* The interrupt handler                                                   *)
(***************************************************************************)

\* Mutant: the reader is not told of the byte.
com_rx_NoSignal(b) ==
  /\ received' = b
  /\ IF RingFull
       THEN UNCHANGED <<_rx_buf, _rx_tail>>
       ELSE /\ _rx_buf' = [_rx_buf EXCEPT ![_rx_tail] = b]
            /\ _rx_tail' = next_slot(_rx_tail)
  /\ UNCHANGED <<_rx_head, ReadyProcessMap, Timeout, flagVars>>

\* Mutant: what the comment in com_rx says, a full ring drops its oldest byte.
com_rx_DropsOldest(b) ==
  /\ received' = b
  /\ _rx_buf' = [_rx_buf EXCEPT ![_rx_tail] = b]
  /\ _rx_tail' = next_slot(_rx_tail)
  /\ _rx_head' = IF RingFull THEN next_slot(_rx_head) ELSE _rx_head
  /\ signal_isr

com_rx(b) ==
  /\ received' = b
  /\ IF RingFull
       THEN UNCHANGED <<_rx_buf, _rx_tail, ReadyProcessMap, Timeout, flagVars>>
       ELSE /\ _rx_buf' = [_rx_buf EXCEPT ![_rx_tail] = b]
            /\ _rx_tail' = next_slot(_rx_tail)
            /\ signal_isr
  /\ UNCHANGED _rx_head

\* The interrupt may be taken with no byte in the receiver (RXNE clear).
usart1_isr ==
  /\ ~Masked
  /\ \/ \E b \in Byte : com_rx(b)
     \/ UNCHANGED <<ringVars, received, ReadyProcessMap, Timeout, flagVars>>
  /\ TISRW
  /\ UNCHANGED <<comAt, c>>

-----------------------------------------------------------------------------
(***************************************************************************)
(* The Comms process                                                       *)
(***************************************************************************)

com_getc_check ==
  /\ Running(Comms)
  /\ comAt = "decode"
  /\ comAt' = IF RingEmpty THEN "empty" ELSE "avail"
  /\ UNCHANGED <<serviceVars, ringVars, c, received>>

\* Mutant: the flag is cleared before the wait.
com_getc_wait_Clears ==
  /\ Running(Comms)
  /\ comAt = "empty" \/ (comAt = "recheck" /\ RingEmpty)
  /\ comAt' = "waiting"
  /\ Value' = FALSE
  /\ Timeout' = [Timeout EXCEPT ![CurProcPriority] = 0]
  /\ suspend(ProcessMap)
  /\ WaitingFor' = WaitingFor \cup {CurProcPriority}
  /\ UNCHANGED <<CurProcPriority, ISR_NestCount, exc, switchedOut, ringVars, c,
                 received>>

\* wait() returns at once if the flag is up.
com_getc_wait ==
  /\ Running(Comms)
  /\ comAt = "empty" \/ (comAt = "recheck" /\ RingEmpty)
  /\ wait(0)
  /\ comAt' = IF Value THEN "recheck" ELSE "waiting"
  /\ UNCHANGED <<ringVars, c, received>>

com_getc_resume ==
  /\ WaitReturns(Comms)
  /\ comAt' = "recheck"
  /\ UNCHANGED <<ringVars, c, received>>

\* Mutant: the wait is in an if, not in a loop.
com_getc_take_NoLoop ==
  /\ Running(Comms)
  /\ comAt \in {"avail", "recheck"}
  /\ c' = _rx_buf[_rx_head]
  /\ _rx_head' = next_slot(_rx_head)
  /\ comAt' = "decode"
  /\ UNCHANGED <<serviceVars, _rx_buf, _rx_tail, received>>

com_getc_take ==
  /\ Running(Comms)
  /\ comAt = "avail" \/ (comAt = "recheck" /\ ~RingEmpty)
  /\ c' = _rx_buf[_rx_head]
  /\ _rx_head' = next_slot(_rx_head)
  /\ comAt' = "decode"
  /\ UNCHANGED <<serviceVars, _rx_buf, _rx_tail, received>>

com_getc == com_getc_check \/ com_getc_wait \/ com_getc_resume \/ com_getc_take

-----------------------------------------------------------------------------
(***************************************************************************)
(* The other processes and the kernel                                      *)
(***************************************************************************)

\* GUI and LED sleep for at least a tick, after any work of their own.
OthersSleep ==
  /\ Running(CurProcPriority)
  /\ CurProcPriority \notin {prIDLE, Comms}
  /\ \E t \in timeout_t \ {0} : sleep(t)
  /\ UNCHANGED <<flagVars, ringVars, comAt, c, received>>

OthersResume ==
  /\ \E p \in TPriority \ {Comms} : SchedReturns(p)
  /\ UNCHANGED <<flagVars, ringVars, comAt, c, received>>

TickEntry ==
  /\ ~Masked
  /\ SysTickEntry
  /\ UNCHANGED <<flagVars, ringVars, comAt, c, received>>

Tick == SysTick /\ UNCHANGED <<flagVars, ringVars, comAt, c, received>>

Switch == PendSV /\ UNCHANGED <<flagVars, ringVars, comAt, c, received>>

SerialNext ==
  \/ usart1_isr
  \/ com_getc
  \/ OthersSleep
  \/ OthersResume
  \/ TickEntry
  \/ Tick
  \/ Switch

SerialSpec == SerialInit /\ [][SerialNext]_serialVars

\* The processor has time to spare: a byte takes 170 us on the line and a
\* tick 1 ms, far more than the handlers and com_getc need, so a process that
\* has the processor goes on although it is interrupted again and again, and
\* GUI gets its drawing done and sleeps.
SerialFairSpec ==
  /\ SerialSpec
  /\ SF_serialVars(TickEntry)
  /\ WF_serialVars(Tick)
  /\ WF_serialVars(Switch)
  /\ SF_serialVars(com_getc)
  /\ SF_serialVars(OthersSleep)
  /\ SF_serialVars(OthersResume)

-----------------------------------------------------------------------------
(***************************************************************************)
(* Properties                                                              *)
(***************************************************************************)

\* No lost wakeup: Comms is never blocked while a byte waits in the ring.
\* What makes it so is that the flag remembers a byte that comes between the
\* test and the wait.
NoSleepWithData ==
  Comms \in ProcessMap \ ReadyProcessMap => RingEmpty

\* The bytes in the ring, oldest first.
Queued ==
  LET n == (_rx_tail - _rx_head) % _rx_buf_size
  IN [i \in 1 .. n |-> _rx_buf[(_rx_head + i - 1) % _rx_buf_size]]

\* The queue com_rx fills and com_getc empties, with room for one byte less
\* than the ring has slots.
Fifo == INSTANCE LossyFifo WITH
  Data     <- Byte,
  Capacity <- _rx_buf_size - 1,
  q        <- Queued,
  arrived  <- received,
  out      <- c

\* What goes in comes out once and in order, except a byte that arrives while
\* the ring is full: com_rx returns without it, and the bytes before it stay.
\* This is not what the comment above that return says ("rx buffer overflow,
\* drop oldest byte"): com_rx_DropsOldest, which follows the comment, violates
\* it.
ImplementsFifo == Fifo!Spec

\* A byte in the ring is taken in the end, whatever the other processes do.
ReaderProgress ==
  \A i \in Slot : (_rx_head = i /\ ~RingEmpty) ~> (_rx_head # i)

\* The inversion that Kernel allows does not reach GUI: whenever it is ready
\* and thread code runs, it is the one that runs.  It could be overtaken only
\* if somebody woke it between its request to be switched out and PendSV, and
\* only the tick wakes it.  UI::tick rests on this: it reads, with no lock,
\* what Comms writes.
GUIFirst == (InThread /\ pr0 \in ReadyProcessMap) => CurProcPriority = pr0
=============================================================================
