# EBLmon in TLA+

EBLmon is the firmware of a small in-car display.  An engine controller (ECU)
streams diagnostic packets over a serial line; a Cortex-M3 board receives them,
decodes them, and shows engine speed, temperatures, pressures and trouble codes
on a 128x64 screen.  It runs on scmRTOS, a preemptive real-time kernel in C++
that the repository carries in `scmRTOS/`.  This directory holds TLA+
specifications of the program and of the kernel it relies on, TLC
configurations that check them on small instances, and proofs for every value
of the constants.

Paths below are relative to the root of the repository.

Contents: 1 inventory, 2 modules and code, 3 abstract specifications, 4 runs
and bounds, 5 fairness, 6 proofs, 7 where code and comments disagree, 8 what is
only model-checked and what is not modelled, 9 plan.

## 1. Inventory

### Processes, interrupts and how they meet

| actor | priority | code | what it does |
|---|---|---|---|
| `USART1` interrupt | hardware 0, preempts everything | `src/board_fld_v2.cpp` `usart1_isr`, `src/board.cpp` `com_rx` | puts the received byte in the ring `_rx_buf`, signals `_rx_data_avail` |
| `PendSV` | lowest, taken before SysTick | `scmRTOS/CortexM3/OS_Target_asm.S`, `TKernel::context_switch_hook` | switches the process |
| `SysTick` | lowest, 1 ms | `OS::sys_tick_handler`, `TKernel::system_timer` | counts timeouts down, makes processes ready |
| `GUI` | pr0 = 3 | `src/main.cpp`, `src/ui.cpp`, `src/ebl.cpp` | `UI::init`, then `UI::tick` and `OS::sleep(10)` for ever; `tick` draws, asks `EBL::was_updated()` and renews the texts |
| `Comms` | pr1 = 2 | `src/main.cpp`, `Board::com_getc`, `EBL::decode` | takes bytes from the ring, feeds the decoder |
| `LED` | pr2 = 1 | `src/main.cpp` | blinks and prints statistics |
| idle | prIDLE = 0 | `scmRTOS/Common/OS_Kernel.cpp` | spins |

The ring is shared by an interrupt handler and a process, under `TCritSect`
(PRIMASK) with an event flag to block on.  The decoder's memory image
(`ebl_mem`, `ebl_adc`, `updated`) is shared by two processes with no lock at
all: GUI preempts Comms in the middle of a packet.

The board is set up before `OS::run`, so the USART may interrupt before the
first process runs, and the system tick runs before the stack is switched.
`CurProcPriority` is then already pr0 and every process is ready, so such an
interrupt asks for no switch; `Context` follows the way from `main` to the first
`exec()` and shows that none comes.

GUI has the highest priority and blocks nowhere but in `OS::sleep`, so Comms
runs only while GUI sleeps (`SerialPort`'s `GUIFirst`); GUI, though, may wake
while Comms is at any byte of a packet.  `Screen` and `Display` rest on these
two facts.

### Components

| component | state | operations | what makes it correct | hard part |
|---|---|---|---|---|
| kernel (`OS_Kernel.{h,cpp}`, `CortexM3/`) | current and scheduled priority, ready map, nest count, timeouts, PENDSVSET | `sleep`, `wake_up`, `force_wake_up`, `sched`, `sched_isr`, `system_timer`, `context_switch_hook`, `TISRW` | only ready processes execute, priority order, a sleep ends, a timeout belongs to one wait | interrupts between the request of a switch and the switch |
| service base (`OS_Services.{h,cpp}`) | a map of waiters per service | `suspend`, `is_timeouted`, `resume_all`, `resume_next_ready` | a waiter is on the map exactly while it has to be found there | a wakeup racing a timeout |
| event flag | `ProcessMap`, `Value` | `wait`, `signal`, `signal_isr`, `clear` | no lost wakeup, a timed wait returns | a signal racing a timeout |
| message | the same, and the message | `operator=`, `send`, `wait`, `out`, `send_isr`, `reset` | the last message gets to somebody | a sender and a receiver use two critical sections each; unused |
| mutex | `ProcessMap`, `ValueTag` | `lock`, `lock_softly`, `unlock`, `unlock_isr` | exclusion, an unlock leads somebody to the mutex | one waiter woken per unlock, who may be overtaken; unused |
| channels, with `ring_buffer` and `TCbuf` (`usrlib.{h,cpp}`) | two maps, a ring | `push`, `push_front`, `write`, `pop`, `pop_back`, `read`, `flush` | a bounded queue, nobody blocked in vain, timed calls return | waiters that need different amounts share a map; unused |
| serial receiver (`board.cpp`, `board_fld_v2.cpp`) | `_rx_buf`, `_rx_head`, `_rx_tail`, `_rx_data_avail` | `usart1_isr`, `com_rx`, `com_getc` | FIFO, bytes lost only when the ring is full, no sleeping reader with bytes waiting | the reader's check races the interrupt; full and empty look alike |
| packet decoder (`ebl.cpp`) | state, index, running sum, `ebl_mem`, `ebl_adc`, statistics | `decode`, `was_updated` | packet accepted only when its checksum matches, indices in bounds | stray header bytes, 16-bit trailer against a 32-bit sum, data stored before it is verified |
| gauges (`ebl.cpp` accessors, texts of `ui.cpp`) | none | `engine_speed`, `oil_pressure`, `water_temperature`, `afr`, `dtc_string`, ... | pressure in the sensor's range, text fits its buffer, each code once | ends of the sensor's range, a count-down through twenty tests |
| user interface (`ui.cpp`) | root, focus, texts | `init`, `tick`, the menus | shows a coherent, fresh packet; every page can be left again | a picture is drawn in eight passes; the image it is made from changes at any byte |
| display driver, buttons (`board_fld_v2.cpp`) | pins, the controller's memory and addresses | `u8g_com_hw_spi_fn`, `u8g_board_dev_fn`, `m2_board_es` | every byte of a picture at its place, a complete set-up | what a byte means depends on pins and bytes before it |
| start-up (`main.cpp`, `os_start`) | stack pointers, which context is in the processor | `main`, `OS::run`, `os_start` | each process has its own context | interrupts are open from `com_init` on |
| profiler (`Extensions/Profiler`) | counters | | | not built |

The line-by-line list of what is hard to test is in `PROJECT.json` ("hazards"),
each with the properties that would catch it.

## 2. Modules and code

```
Kernel -+- Services -+- EventFlag -+- Message          Decoder -- Display
        |            |             +- SerialPort
        |            +- Mutex                          Lcd -- Screen
        |            +- Channel (RingBuffer)
        +- Context                                     Gauges

KernelProofs -+- EventFlagProofs     DecoderProofs     ScreenProofs
              +- MutexProofs
              +- ChannelProofs       GaugesProofs
              +- ContextProofs
```

A line is EXTENDS, and each proof module also extends the modules it is about:
`EventFlagProofs` is about `EventFlag`, `Message` and `SerialPort`,
`DecoderProofs` about `Decoder` and `Display`, `ScreenProofs` about `Lcd` and
`Screen`.  Each module has the code's
names, one action per operation, handler or uninterruptible stretch.

**Atomicity.**  What a process does under `TCritSect`, and what the USART
handler does, is one step.  Interrupts are open in the loop of `sched()`: a
process there is in `inSched`, and comes out by `LeavesSched` once
`CurProcPriority = SchedProcPriority`.  `sys_tick_handler` is split at its
entry, before and after `system_timer`, because the USART preempts it there;
`pend_sv_handler` is split before its `CPSID`.

| module | code | state and actions |
|---|---|---|
| `Kernel` | `TKernel`, `TBaseProcess`, `TISRW`, SysTick, PendSV | The fields of `TKernel`, the timeouts, `inSched`, the `PENDSVSET` bit and the place of the handler (`exc`). `sleep`, `wake_up`, `force_wake_up`, `SchedReturns`; `SysTickEntry`, `ISR_Enter`, `system_timer`, `ISR_Exit`; `PendSVEntry`, `context_switch_hook`; `DeviceISR` is any USART-level handler. `switchedOut` is a history variable. |
| `Context` | `main`, `OS::run`, `os_start`, `pend_sv_handler`, the constructors of the processes | Extends `Kernel` by the stage of start-up, the context in the processor and the one each `StackPointer` leads to. `StartTick`, `EnterExec`, `SwitchContext`; the kernel's steps otherwise. |
| `Services` | `TService` | Operators on a map of waiters, used inside the actions of the services. |
| `EventFlag` | `TEventFlag` | `wait` up to the switch, `WaitReturns` from it, `signal`, `clear`, `signal_isr`. |
| `Message` | `TBaseMessage`, `message` | Extends `EventFlag`: `TBaseMessage` is line for line `TEventFlag`. `Msg` is whether somebody has read what the cell holds, `client[p]` which half of a sender or receiver `p` is in. `Assign` and `send`, `wait_message` or `WaitMessageReturns` and `out`, `reset`, `send_isr`. |
| `Mutex` | `TMutex` | `lock` up to the switch, `LockReturns` from it, `lock_softly`, `unlock`, `unlock_isr`. `holders` is a history variable, the processes between `lock` and `unlock`. `ForceWaiters` says whether anybody calls `force_wake_up` on a waiter. |
| `RingBuffer` | `usr::ring_buffer`, and `usr::TCbuf` with the same arithmetic | Operators on a record of the four fields. `write` and `read` say what comes of their loops; the theorems `WriteIsItsLoop` and `ReadIsItsLoop` say so of any ring, `MCChannel`'s `ItemByItem` of every ring of the instance. |
| `Channel` | `channel` and `TChannel` | `Produce` and `Consume` are the calls from their first test on; `ProducerGoesOn`, `ConsumerGoesOn` continue behind `suspend`; `flush`. `call[p]` is the call a process waits in, with its arguments. `kind`, fixed at the start, is which of the two classes it is. |
| `SerialPort` | `usart1_isr`, `com_rx`, `com_getc`, the loop of Comms | Extends `EventFlag`. `comAt` is the place of Comms in `com_getc`. GUI and LED only sleep. |
| `Decoder` | `EBL::decode`, `EBL::was_updated` | The static locals of `decode` and the globals, one action per case of the switch. `frame` is a history variable, the bytes since the header. |
| `Display` | the loop of Comms, the end of `UI::tick` | Extends `Decoder` by GUI, which asks `was_updated` and makes its texts at any byte boundary. `last` and `verified` are history variables: the image when the last frame was complete, and whether it was good. |
| `Lcd` | `board_fld_v2.cpp` from `u8g_dev_init_seq` to `u8g_board_dev_fn`, and the controller (external) | No variables: a record for the display, one operator per message, and the scripts of messages the driver sends. |
| `Screen` | `ui.cpp`, the loop of GUI, `u8g_Delay`, `m2_board_es`; m2tklib (external) | `at` is the place of GUI. `SendPart`, `InitEnds`; `FirstPage`, `NextPage`, `RenewTexts`, `Wake`; `Packet` is Comms while GUI sleeps, `Contrast` the driver's other message. A packet is a number, a picture is what it is made from. |
| `Gauges` | the other functions of `ebl.cpp`, the texts of `UI::tick` | The image; every step is another packet. |

The SerialPort model splits `com_getc` although it holds `TCritSect` throughout:
the `CPSID` is an asm statement with no memory clobber, so a build may load the
two indices before it.  The flag makes the code correct under either order.

Mutants: each checked property has at least one (`PROJECT.json`, "mutants"), an operator
next to the definition it replaces that has a plausible bug of that code.

## 3. Abstract specifications

| detailed | abstract | mapping |
|---|---|---|
| `EventFlag` | `EventFlagSpec`: a signal releases all who are blocked or is kept; a blocked process may give up | blocked: on the map and not ready; gave up: on the map and ready; released: in `wait`, off the map |
| `Mutex` | `MutexSpec`: at most one owner; who waits stays until it owns | `holders`, `WaitingFor` |
| `Channel` | `ChannelSpec`: a bounded queue with two ends, batches whole | the items of the ring from `First`, the last delivery |
| `SerialPort` | `LossyFifo`: what arrives while the queue is full is lost, the rest comes out once, in order | the bytes from `_rx_head` to `_rx_tail`; capacity is one less than the slots |
| `Decoder` | `PacketSpec`: whole frames; good when the bytes add up to the trailer | `frame`, the counters |

## 4. Runs and bounds

Times are for two workers.

| run | instance | states | question |
|---|---|---|---|
| `kernel` | 3 processes and idle, timeouts up to 2 | 5 295 | Do suspension, switching and timeouts stay consistent whatever processes and interrupts do, from `main` on; does each process get its own context back; does a tick end an inversion of priorities; does a sleep last the ticks it was given, and end; does the top priority run when it is ready? |
| `event_flag` | 3 processes, timeouts up to 1 | 119 184 | Is a signal ever lost or doubled when it races a timeout or a forced wake-up? Does the last message get to somebody? |
| `mutex` | 3 processes, timeouts up to 1 | 22 425 | Does exclusion hold, and does an unlock always lead somebody to the mutex? |
| `mutex_forced` | 2 processes, forced wake-ups in `lock` | violation | Does a waiter survive being woken by force? No. |
| `channel` | 2 processes, 2 slots, 2 items, writes and reads of up to 2, both classes | 514 554 | Is it a deque; is anybody left blocked in vain; does a timed pop return? |
| `channel_timeout` | the same | violation | Does a timed waiter keep its timeout? No. |
| `serial_port` | 3 processes, ring of 3, 2 byte values | 59 861 | Is the ring a lossy FIFO; does Comms ever sleep on a byte; does GUI run whenever it is ready? |
| `decoder` | radix 2, 2 bytes of memory, 2 ADC words, GUI | 530 995 | Are stores in bounds, is the image made of the frame in progress and the last one, is a packet good exactly when its sum is right, is a good packet shown as it is? |
| `decoder_endian` | 1 ADC word | violation | Are ADC words big-endian? No. |
| `gauges` | every byte, every 10-bit reading; trouble registers from 6 bytes each | 1 455 | Do the texts fit their buffers, do the trouble codes come in order, each once? |
| `gauges_oil` | the same | violation | Is the oil pressure right at the ends of its range? No. |
| `screen` | 2 pages of 3 columns, packets numbered modulo 3, a queue of 1 key | 10 969 | Does every byte of a picture get to its place, do pictures not mix, is the display set up, does one button do, does a packet come to the screen? |

Why the bounds are enough to meet the interesting cases:

- `ProcessCount` 3 is the program's own number.  It lets two processes wait
  while a third works, and an interrupted process be neither the highest nor
  the lowest.  `Channel` has 2, because its data multiplies the states: one
  process can still wake the other and take the item itself, which is the race
  the loop in `pop` is for.  Several waiters on one side are left to the
  proofs, which are for any number of processes.
- `MaxTimeout` 1 has the tick race every other step; 2 (in `kernel`) has a
  timeout survive a tick.  A longer one only repeats that.
- The ring of `SerialPort` has 3 slots: it is full with 2 bytes, each index
  wraps, and full and empty states occur at each position.
- The pool of `Channel` has 2 slots: a write or read of 2 takes all or nothing,
  both ends wrap.  Dead slots keep their old contents, so reading one shows.
- `Radix` 2 makes every byte a header byte: headers occur at every place of a
  frame and of its trailer.  A byte that is neither takes the same branches as
  the wrong one of the two.  `SumMod` is above the largest sum, as 2^32 is in
  the code (`DecoderAssumption`), while subtraction still wraps.  Two words and
  two bytes let one be new while the other is old.
- `Screen`: with 2 pages the picture loop is at its beginning, in the middle and
  at its end.  3 columns need both halves of the column address (`Nibble` 2).
  A packet may come twice between two ticks, and `PacketMod` 3 tells the two
  from the one on the screen.  A queue of one key lets a key that is pressed
  while another waits get lost; a longer one only delays keys.
- `CountMod` 2 bounds the statistics, which nothing depends on.

No state constraint and no symmetry is used.  Every run checks deadlock.

## 5. Fairness

| assumption | why the code justifies it |
|---|---|
| strong fairness of SysTick's entry | The timer runs freely and its request stays latched while PendSV or the USART keep it out.  Weak fairness would not do: a pending PendSV disables the entry again and again. |
| weak fairness of the steps of SysTick and PendSV | A handler that has started is only delayed by the USART, whose handler ends. |
| strong fairness of a process continuing behind `suspend` (`WaitMessageReturns(pr0)`, `LockReturns(pr0)`, `ConsumerGoesOn(pr0)`, `com_getc`) | The processor executes instructions between two interrupts: a byte takes 170 us on the line and a tick is 1 ms. |
| weak fairness of GUI (`Screen`), and of its look at the image (`Display`) | GUI has the highest priority and its loop blocks only in `OS::sleep`, which the tick ends (`SleepEnds`, `TopPriorityRuns`). A sleep of 0 ticks is not ended: `Screen` has its timer off then. |
| strong fairness of the steps of `main` (`Context`) | As for a process: instructions are executed between two interrupts. |
| strong fairness of the others' `sleep` (`SerialPort`) | GUI's drawing and LED's printing end, and both then sleep for at least a tick.  Without it Comms could starve under GUI for ever. |

Nothing is assumed of the USART: it may be silent, or interrupt without a byte.
Nothing makes a process call anything: it may run its own code for ever, except
in `SerialPort`, where the loop of `main.cpp` is the point.  For that reason
`TopPriorityRuns`, `TimedWaitReturns`, `TimedPopReturns` and `FreeMutexIsTaken`
are about the highest-priority process, which nobody can keep from running.

## 6. Proofs

`tlapm` checks every theorem below, with no assumption but the named ASSUMEs of
the modules: at least one process, a bound on timeouts (`KernelAssumption`);
for the receiver two processes, a timeout of at least a tick, a receive ring of
two slots or more and a byte 0 (`SerialAssumption`); a pool of 1 to 255 slots
and batches that fit it (`ChannelAssumption`); sizes of a packet and a sum type
that holds one (`DecoderAssumption`); bytes and readings of ten bits
(`GaugesAssumption`) and the widths of the padded texts of the status line, which
TLC counts (`TextsPadded`); a display of at least one page and one column
(`LcdAssumption`), a queue of at least one key, at least two numbers for packets
and contrasts of a byte (`ScreenAssumption`).

**`KernelProofs`** (any number of processes, any timeout): `TypeCorrect`,
`RunningIsReady`, `SwitchLoopEnds`, `PriorityInversion`, `TimeoutsNotStale`.
None of these is inductive.  The
strengthening `KInv` adds what is true in the middle of a switch: the target of
a pending switch is ready (`TargetReady`); with none pending the loaded process
is ready, and if it is in the loop of `sched()` it is the one asked for
(`LoadedReady`); a process leaves the ready map only by its own call
(`UnreadyInSched`); outside SysTick the highest ready process is loaded, or is
the target, or is the one switched out last (`HighestKnown`); and the idle
process, and the nest count, are as expected.  The argument goes action by
action: a call reduces to the lemma about `sched` (`SchedInductive`), a handler
to the lemma about waking a set of processes (`HandlerWakesInductive`).

`KInv` holds whatever is built on the kernel; `IInv`, which is `KInv` and
`NoStaleTimeout`, does not.  `resume_all` readies waiters and leaves their
timeouts to them, so under an event flag or a channel a ready process may have a
timeout.  `Overdue` is the set of these processes, and each service has a
conjunct that says who may be in it.

Two theorems are about steps; they are also checked by the run, and are what can
be proved here of its two liveness properties.  `SleepsTimed` (`SleepIsTimed`): a tick takes one off the
timeout of a sleeping process and makes it ready exactly at zero, and nothing
else touches the timeout of a process that stays asleep.  So a sleep ends after
as many ticks as it was given, if ticks come, and no step of anybody draws it
out.  `InversionEndsAtTick` (`TickEndsInversion`): each return of SysTick goes to
the highest ready process, or leaves the switch to it pending, so that an
inversion lasts until the next tick at most.  This one needs more than `KInv`: if
the USART has asked for a switch while SysTick was being entered, it is to a
process above the interrupted one (`TickPending`); otherwise SysTick could find
the interrupted process the highest, ask for nothing, and the old request would
still take the processor away from it.

These two, and `KernelSound` (`TypeOK`, `ReadyRuns`, `SpinEnds`,
`InversionOnlyBySelfWake`), hold under every service: `KernelUnderFlag` (also for
the message, whose steps are the flag's), `KernelUnderReceiver`,
`KernelUnderMutex` and `KernelUnderChannel`.  `KernelStep` says what a step may do
to the kernel, and `StepGuarantees` that such steps are enough; each service
shows that its steps are of this kind.

**`ContextProofs`**: `ContextSwitchIntact`, and `ContextImplementsKernel`: the
start-up and the assembly of the switch make only steps of `Kernel`, so its
theorems hold from `main` on.

**`EventFlagProofs`**, about the flag (any number of processes):
`BlockedAreListed`, `TagsNotStale`, `RunnersHaveNoTimeout` and the refinement
`FlagImplements`.
`FInv` adds to `KInv` that a waiter is in the loop of `sched()` and that an
overdue process was released by a signal and is still inside `wait`.

About the message: `MessageIsFlag`, every step of `Message` is a step of
`EventFlag`, so the flag's theorems hold for it too; and `MessageNotLost`, on
top of `FInv`.

About the receiver (a ring of any size, any bytes): `ReceiverUsesFlag`, again
that only steps of the flag are made; `WakeupsNotLost`, with `SInv` saying what
the flag is while the ring holds something and Comms is about to wait;
`GUIAlwaysFirst`, with `GInv` saying that GUI, when ready, is loaded or about to
be; and `FifoImplements`, from lemmas on the two indices of the ring
(`RingInv`).

**`MutexProofs`** (any number of processes): `MutexExclusion` holds without any
condition; its invariant is that the tag equals the set of holders
(`TagIsHolder`).  `WakeupNotLost`, `MapExact` and the refinement
`MutexImplements` hold if no waiter is woken by force (`NoForce`); the run
`mutex_forced` shows that they need it.  `MInv` adds to the kernel's `IInv` that
a waiter is in the loop of `sched()` and has no timeout, and that the map is
exactly the blocked waiters.  The point of the proof is `UnlockInductive`: a
process that is woken takes its tag with it, and while it is ready and inside
`lock`, the mutex being free strands nobody.

**`ChannelProofs`** (any number of processes on either side, any pool, any
batches): `NobodyInVain`, `MapsExact` and the refinement `ChannelImplements`.
Its first part is about `RingBuffer` alone: each operation, in terms of the
sequence `Items` (`WriteItems`, `PushFrontItems`, `ReadItems`, ...), provided
that `Last` is where the items end (`Ring`); and `WriteIsItsLoop`,
`ReadIsItsLoop`: the two operations that move several items do what their loops
over `push_item` and `pop_item` do.  `IndexOperatorLimit` is about `operator[]`
and `get_byte`, which nobody calls: their sum of two byte indices wraps, and they
find the right slot for every place exactly if there are 128 slots or fewer (TLC
evaluates this at six sizes, `IndexFits` in `MCChannel`).

`ChInv` adds to the two properties
that a caller is in the loop of `sched()`; that calls without a timeout have
none running (`UntimedRemain`), so that no tick readies a producer; that a
consumer of a `TChannel` on the map is asleep; and that an overdue process is a
consumer that was resumed.  A call either serves one side and wakes all of the
other (`ReturnKeeps`: whoever stays blocked is on the side that was not helped)
or waits (`WaitKeeps`).  That all are woken, and not one, is what the proof
needs: the waiters on a map want different amounts.

`TopPopTimed` is the safe half of `TimedPopReturns`: a `pop` or `pop_back` with a
timeout, made by the highest process, is blocked only while its timeout runs.
Timed calls in general do not have this property, as the run `channel_timeout`
shows.  The proof adds that the highest process, when ready, is loaded or about
to be (`TopLoaded`; a channel has no interrupt handler that could
bring about an inversion), and that if it was resumed and has not looked yet, the
pool still holds an item (`TopPop`).

**`DecoderProofs`** (packets of any size, bytes of any width):
`DecoderTypeCorrect`, `StoresInBounds`, `ImageMatchesFrame`.  The strengthening
`DInv` adds the length of the frame in each state (`FrameLengthExact`), which
ties `field_index` to the position in the packet; most of the work is in
`AdcInductive`, where a word changes half at a time.  `TwoFramesAtMost` is about
`Display`: what the frame in progress has not reached is as the last one left
it.  `DecoderImplements` is the refinement of `PacketSpec`, which adds up the
bytes of a whole frame where the code keeps a running sum that it corrects by
the trailer.  It rests on `SumOfFrame`, that the running sum is the sum of the
frame until the first trailer byte is taken out of it, and on a sum type that
holds a whole packet, so that only the correction wraps.  `DisplayImplements`
adds GUI.

**`ScreenProofs`** (a display of any number of pages and columns, any queue of
keys): `PicturesKeptApart`, `DisplayStaysSetUp`, `SelectGoesRound`.  The driver
sends scripts of messages, so the first part says what each script does to the
display: one message (`OnPin`, `OnCommand`, ...), one more message
(`SentThen`), a row of data (`WriteSeqStores`), a page (`PageSent`), all pages
cleared (`ClearPagesClears`), and the five parts of the set-up (`PartOne` to
`PartFive`).  `ScreenInv` adds to the three properties how far the set-up has
come in `UI::init` (`SettingUp`), that afterwards the controller listens and is
out of reset (`Ready`), and that what is shown is a picture or blank.  Most of
the work is in `NextPageKeeps`: the page goes to its place, whatever page and
column the controller was at.

**`GaugesProofs`** (any content of the image): `CodesCounted` and
`TextsInBuffers`.  `CodesCounted` follows the chain of twenty
tests in `dtc_string`: after `k` of them the index has come down by the codes set
among the first `k`, or the answer is the code it asked for (`ChainNext`).  `TextsInBuffers` has two parts: no number
and its unit are longer than the gauge's buffer (`NumbersInBuffers`), and the
status line, whichever code it names, is one of texts of the same width
(`StatusPadded`).  To the provers a string is not a sequence, so these widths are
the assumption `TextsPadded`.

Some definitions are recursive functions: the sum of a frame, a script sent
message by message, the chain of tests, the loops of a ring.  The library's
induction theorem takes an operator, which the provers cannot instantiate.  The
modules have it as a fact about sets (`Induction`): a set that holds 0, and with
each number the next, holds all naturals, since the least number missing would
contradict it.  That there is such a function at all is shown first where the
definition chooses one (`RunExists`, `ChainExists`).

TLC evaluates the same properties in the runs, and checked each of the inductive
invariants on an instance before it was proved.

## 7. Where the code and its comments disagree

Each of the first four has a run that ends in the violation; the fifth is shown
by a run that passes (`PROJECT.json`, "findings").

1. `channel_timeout`: a timed `pop`, `pop_back` or `read` of a channel sets its
   timeout once, before its loop.  If a push wakes it, the time runs out before
   it looks, and the item is gone (or a read finds too few), it suspends itself
   without a timeout (`scmRTOS/Common/OS_Services.h` 471, 505, 555; the comments
   say "until data received or timeout").
2. `mutex_forced`: `lock` never removes its tag after a wake-up that was not an
   `unlock` (`scmRTOS/Common/OS_Services.cpp:134`); a later `unlock` is spent on
   a process that does not wait.
3. `decoder_endian`: ADC words are assembled low byte first, `ebl_format.txt`
   says data are big-endian.
4. `gauges_oil`: the upper limit of `oil_pressure` is tested in a branch that
   cannot be reached, and the zero offset is not subtracted at or below it
   (`src/ebl.cpp:187`).
5. `serial_port`: `com_rx` returns when the ring is full, so the newest byte is
   dropped; the comment at `src/board.cpp:63` says "rx buffer overflow, drop
   oldest byte".  `ImplementsFifo` states what the code does, and holds; the
   mutant `com_rx_DropsOldest` does what the comment says, and violates it.

One more is only wording and has no run: the comment at
`scmRTOS/Common/OS_Services.h:80` says `is_timeouted` "returns false" after a
timeout; it returns true, and its callers rely on that.

Priority inversion in the kernel is not listed, as no text denies it: a process
that is woken between its request to be switched out and PendSV stays switched
out until the next reschedule.  `InversionOnlyBySelfWake` says that this is the
only case, `TickEndsInversion` and `TopPriorityRuns` that it does not last.

## 8. Limits

Only model-checked: all liveness, as the provers do not know ENABLED, on which
fairness rests.  Every other property of the passing runs is also proved.

Modelled from outside: the display controller, u8glib and m2tklib are not in the
repository.  What `Lcd` and `Screen` say of them is what the code expects of
them: a controller that counts its column up, a queue of keys, a focus on the
elements that can be selected.  Nothing in EBLmon calls `u8g_SetContrast`;
`Screen` has it because the driver offers it.

Not modelled, and why:

- The accuracy of the gauges.  `Gauges` has the integer each conversion comes to,
  not the floats on the way, so it cannot tell whether single precision costs a
  unit.  The code also takes 102 counts for the sensor's zero where its comment
  has 102.4: 311 counts are shown as 26 psi, while the comment's formula gives
  25.46.
- The layout of a page, fonts and what m2tklib draws: a picture is told from
  another by what it is made from.
- Clock, pin and port set-up, LED and buzzer: writes to device registers without
  state of their own.
- `SysTickCount`; `com_interrupts` and `rx_count`, which are only printed; what
  the LED process prints.
- The profiler, process restart, the other context-switch scheme and the other
  order of priorities: not compiled.
- The overrun error of the USART beyond an interrupt without a byte.
- `TChannel` and `channel` in forced wake-ups of a producer, or of a `TChannel`
  consumer: the code has the same gap there as `lock` has.

## 9. Plan

A sender for the line: frames, lost bytes, noise; how many packets
`decode` may lose before it is in step again, and what a payload must not
contain for that.
