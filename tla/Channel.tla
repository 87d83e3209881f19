------------------------------ MODULE Channel ------------------------------
(***************************************************************************)
(* One channel on the kernel (scmRTOS/Common/OS_Services.{h,cpp}), used by *)
(* processes that also sleep and wake each other.  It is either a channel  *)
(* of the template, or a TChannel, the older one for bytes, which has no   *)
(* push_front, pop_back and flush, and no timeouts.  A channel has no      *)
(* operation for interrupt handlers; those that wake other processes are   *)
(* in Kernel.                                                              *)
(*                                                                         *)
(* A call that has to wait keeps its arguments on the stack of its         *)
(* process: that is call[p].                                               *)
(***************************************************************************)
EXTENDS Services, Sequences

CONSTANTS
  Size,    \* slots of the pool
  Item,    \* what is transferred
  Batches  \* the arrays passed to write

\* The counts and indices are bytes.  A write or read of more than Size items
\* would wait for ever.
ASSUME ChannelAssumption ==
  /\ Size \in 1 .. 255
  /\ \A data \in Batches : data \in Seq(Item) /\ Len(data) \in 1 .. Size

VARIABLES
  kind,                 \* "channel" or "TChannel"
  ProducersProcessMap,
  ConsumersProcessMap,
  pool,
  call,                 \* for each process, the call it waits in
  got                   \* history: what the last pop or read returned

channelVars ==
  <<kind, ProducersProcessMap, ConsumersProcessMap, pool, call, got>>
serviceVars == <<kernelVars, channelVars>>

RB == INSTANCE RingBuffer WITH T <- Item

NoCall == [op |-> "none"]

Put == [op : {"push", "push_front"}, data : {<<x>> : x \in Item}]
         \cup [op : {"write"}, data : Batches]
Take == [op : {"pop", "pop_back"}, count : {1}, timeout : timeout_t]
          \cup [op : {"read"}, count : 1 .. Size, timeout : timeout_t]
Flush == [op |-> "flush"]

\* The calls each kind of channel offers.
Offered ==
  IF kind = "channel" THEN Put \cup Take \cup {Flush}
  ELSE {c \in Put \cup Take : /\ c.op \in {"push", "write", "pop", "read"}
                              /\ c \in Take => c.timeout = 0}

ChannelInit ==
  /\ KernelInit
  /\ kind \in {"channel", "TChannel"}
  /\ ProducersProcessMap = {}
  /\ ConsumersProcessMap = {}
  /\ pool \in RB!Empty
  /\ call = [p \in TPriority |-> NoCall]
  /\ got = << >>

WaitsIn(c) == call' = [call EXCEPT ![CurProcPriority] = c]
Returns == call' = [call EXCEPT ![CurProcPriority] = NoCall]

\* resume_all() as the last thing a call does; without anybody to wake the
\* call returns at once, out of the loop of sched() if it had been there.
Resumes(waiters_map) ==
  \/ resume_all(waiters_map)
  \/ /\ NobodyToResume(waiters_map)
     /\ inSched' = inSched \ {CurProcPriority}
     /\ UNCHANGED <<waiters_map, ReadyProcessMap, schedVars>>

-----------------------------------------------------------------------------
(***************************************************************************)
(* Producers: push, push_front and write                                   *)
(***************************************************************************)

RoomFor(c) == RB!get_free_size(pool) >= Len(c.data)

Stored(c) ==
  CASE c.op = "push"       -> RB!push_item(pool, c.data[1])
    [] c.op = "push_front" -> RB!push_item_front(pool, c.data[1])
    [] c.op = "write"      -> RB!write(pool, c.data)

\* The loop of a producer from its test on: at its call, and again each time
\* suspend() returns.
Produce(c) ==
  /\ \/ /\ RoomFor(c)
        /\ pool' = Stored(c)
        /\ Returns
        /\ Resumes(ConsumersProcessMap)
        /\ UNCHANGED ProducersProcessMap
     \/ /\ ~RoomFor(c)
        /\ suspend(ProducersProcessMap)
        /\ WaitsIn(c)
        /\ UNCHANGED <<pool, ConsumersProcessMap>>
  /\ UNCHANGED <<kind, got, CurProcPriority, ISR_NestCount, Timeout, exc,
                 switchedOut>>

-----------------------------------------------------------------------------
(***************************************************************************)
(* Consumers: pop, pop_back and read                                       *)
(***************************************************************************)

HasData(c) == RB!get_count(pool) >= c.count

Taken(c) ==
  IF c.op = "pop_back"
    THEN LET p == RB!pop_item_back(pool)
         IN pool' = p.rest /\ got' = <<p.item>>
    ELSE LET r == RB!read(pool, c.count)
         IN pool' = r.rest /\ got' = r.data

TakesData(c) ==
  /\ HasData(c)
  /\ Taken(c)
  /\ Returns
  /\ Resumes(ProducersProcessMap)
  /\ UNCHANGED ConsumersProcessMap

SuspendsFor(c) ==
  /\ ~HasData(c)
  /\ suspend(ConsumersProcessMap)
  /\ WaitsIn(c)
  /\ UNCHANGED <<pool, got, ProducersProcessMap>>

SetTimeout(t) == Timeout' = [Timeout EXCEPT ![CurProcPriority] = t]

\* Mutant: the waiter starts no timeout.
Consume_Untimed(c) ==
  /\ TakesData(c) \/ SuspendsFor(c)
  /\ UNCHANGED <<kind, CurProcPriority, ISR_NestCount, Timeout, exc, switchedOut>>

\* The call.  read sets the timeout before it looks, and takes it back.
Consume(c) ==
  /\ \/ /\ TakesData(c)
        /\ IF kind = "channel" /\ c.op = "read" THEN SetTimeout(0)
                                                ELSE UNCHANGED Timeout
     \/ /\ SuspendsFor(c)
        /\ IF kind = "channel" THEN SetTimeout(c.timeout) ELSE UNCHANGED Timeout
  /\ UNCHANGED <<kind, CurProcPriority, ISR_NestCount, exc, switchedOut>>

\* Mutant: the call fails with its tag still on the map.
TimesOut_LeavesTag(c) ==
  /\ kind = "channel"
  /\ is_timeouted(ConsumersProcessMap)
  /\ inSched' = inSched \ {CurProcPriority}
  /\ Returns
  /\ UNCHANGED <<pool, got, ProducersProcessMap, ConsumersProcessMap,
                 ReadyProcessMap, Timeout, schedVars>>

\* The return of suspend() in a timed call that nobody resumed: it fails.
TimesOut(c) ==
  /\ kind = "channel"
  /\ is_timeouted(ConsumersProcessMap)
  /\ ConsumersProcessMap' = ConsumersProcessMap \ {CurProcPriority}
  /\ inSched' = inSched \ {CurProcPriority}
  /\ Returns
  /\ UNCHANGED <<pool, got, ProducersProcessMap, ReadyProcessMap, Timeout, schedVars>>

\* The return of suspend() in any other case: take the data, or wait again.
\* The timeout of the call is not started again.
TriesAgain(c) ==
  /\ ~(kind = "channel" /\ is_timeouted(ConsumersProcessMap))
  /\ \/ /\ TakesData(c)
        /\ IF kind = "channel" THEN SetTimeout(0) ELSE UNCHANGED Timeout
     \/ /\ SuspendsFor(c)
        /\ UNCHANGED Timeout

\* Mutant: the ring is emptied and no producer is told.
flush_Silent ==
  /\ pool' = RB!flush(pool)
  /\ UNCHANGED <<kind, ProducersProcessMap, ConsumersProcessMap, call, got,
                 kernelVars>>

flush ==
  /\ pool' = RB!flush(pool)
  /\ Resumes(ProducersProcessMap)
  /\ UNCHANGED <<kind, ConsumersProcessMap, call, got, CurProcPriority,
                 ISR_NestCount, Timeout, exc, switchedOut>>

-----------------------------------------------------------------------------
(***************************************************************************)
(* Users of the channel                                                    *)
(***************************************************************************)

ChannelCall ==
  /\ Running(CurProcPriority)
  /\ CurProcPriority # prIDLE
  /\ \/ \E c \in Offered \cap Put : Produce(c)
     \/ \E c \in Offered \cap Take : Consume(c)
     \/ Flush \in Offered /\ flush

\* A process goes on in its call, from the return of the scheduler inside
\* suspend().
ProducerGoesOn(p) ==
  /\ LeavesSched(p)
  /\ call[p] \in Put
  /\ Produce(call[p])

ConsumerGoesOn(p) ==
  /\ LeavesSched(p)
  /\ call[p] \in Take
  /\ TimesOut(call[p]) \/ TriesAgain(call[p])
  /\ UNCHANGED <<kind, CurProcPriority, ISR_NestCount, exc, switchedOut>>

\* Calls outside the channel.  None readies a process that waits in the
\* channel, except a consumer of the template, whose call expects it.
ExpectsForce(p) == kind = "channel" /\ call[p] \in Take

OtherCall ==
  /\ ProcessCall
  /\ \A p \in ReadyProcessMap' \ ReadyProcessMap :
       call[p] = NoCall \/ ExpectsForce(p)
  /\ UNCHANGED channelVars

OtherReturns ==
  /\ \E p \in TPriority : call[p] = NoCall /\ SchedReturns(p)
  /\ UNCHANGED channelVars

KernelHandlers == (SysTickEntry \/ SysTick \/ PendSV) /\ UNCHANGED channelVars

ChannelNext ==
  \/ ChannelCall
  \/ \E p \in TPriority : ProducerGoesOn(p) \/ ConsumerGoesOn(p)
  \/ OtherCall
  \/ OtherReturns
  \/ KernelHandlers

ChSpec == ChannelInit /\ [][ChannelNext]_serviceVars

\* As for the event flag: handlers are fair, and a process in a call that has
\* the processor goes on between two interrupts.
ChFairSpec ==
  /\ ChSpec
  /\ SF_serviceVars(SysTickEntry /\ UNCHANGED channelVars)
  /\ WF_serviceVars(SysTick /\ UNCHANGED channelVars)
  /\ WF_serviceVars(PendSV /\ UNCHANGED channelVars)
  /\ SF_serviceVars(ConsumerGoesOn(pr0))

-----------------------------------------------------------------------------
(***************************************************************************)
(* Properties                                                              *)
(***************************************************************************)

Blocked(p) == call[p] # NoCall /\ p \notin ReadyProcessMap

\* No process is left blocked although its call could go on, whichever of the
\* other calls made it possible: a pop that frees one slot of the two a write
\* needs, a flush, or a consumer that was woken and took less than there was.
NobodyWaitsInVain ==
  \A p \in TPriority : Blocked(p) =>
    IF call[p] \in Put THEN ~RoomFor(call[p]) ELSE ~HasData(call[p])

\* A blocked process is on the map of its side, so that it can be found, and
\* nobody else is, but for a consumer whose time is up and who has not run
\* yet.  A tag that stayed would end a later sleep of its process.
MapsAreBlocked ==
  LET Waiting(Side) == {p \in TPriority : call[p] \in Side}
      Asleep(Side) == Waiting(Side) \ ReadyProcessMap
  IN /\ ProducersProcessMap = Asleep(Put)
     /\ Asleep(Take) \subseteq ConsumersProcessMap
     /\ ConsumersProcessMap \subseteq Waiting(Take)

\* The ring with its two indices, filled and emptied at both ends by whoever
\* gets there first, implements the abstract channel: nothing is lost,
\* duplicated or reordered, and a batch is not mixed with other items.
Deque == INSTANCE ChannelSpec WITH
  Bound <- Size,
  Batch <- {<<x>> : x \in Item} \cup Batches,
  q     <- RB!Items(pool)

ImplementsDeque == Deque!Spec

TimedPop == {c \in Take : c.op # "read" /\ c.timeout # 0}

\* A pop with a timeout returns to the highest-priority process: nobody else
\* can run between the push that wakes it and its second look.
TimedPopReturns ==
  (call[pr0] \in TimedPop) ~> (call[pr0] = NoCall)

\* So its timeout, which the call sets once, runs as long as it is blocked.
TimedPopHasTimeout ==
  call[pr0] \in TimedPop /\ pr0 \notin ReadyProcessMap => Timeout[pr0] # 0

\* What the comments in pop and read say: the process is suspended "until
\* data received or timeout".  So one that is blocked in a timed call has a
\* timeout running.
TimedWaiterHasTimeout ==
  \A p \in TPriority :
    (Blocked(p) /\ call[p] \in Take) => (call[p].timeout # 0 => Timeout[p] # 0)
=============================================================================
