------------------------------- MODULE Kernel -------------------------------
(***************************************************************************)
(* The scmRTOS kernel as EBLmon configures it: TKernel and TBaseProcess    *)
(* (scmRTOS/Common/OS_Kernel.{h,cpp}) on the Cortex-M3 port                *)
(* (scmRTOS/CortexM3), with the context switch made by the PendSV          *)
(* exception (scmRTOS_CONTEXT_SWITCH_SCHEME 1) and descending priorities   *)
(* (scmRTOS_PRIORITY_ORDER 1: prIDLE is 0, pr0 is the largest number).     *)
(*                                                                         *)
(* Atomicity.  Everything a process or a handler does under TCritSect      *)
(* (PRIMASK set) is one step.  The one place where the kernel opens the    *)
(* interrupts in the middle of a call is the loop of sched(): a process in *)
(* that loop is in inSched.  Exceptions have three levels in hardware: the *)
(* USART interrupt (priority 0, preempts everything, so its handler is one *)
(* step), then PendSV and SysTick, both at the lowest priority: neither    *)
(* preempts the other, and PendSV is taken first.                          *)
(*                                                                         *)
(* SysTickCount is left out: nothing in the program reads it.              *)
(***************************************************************************)
EXTENDS Integers

CONSTANTS
  ProcessCount,  \* scmRTOS_PROCESS_COUNT, without the idle process
  MaxTimeout     \* bound: the longest timeout a caller passes (timeout_t)

ASSUME KernelAssumption ==
  /\ ProcessCount \in Nat \ {0}
  /\ MaxTimeout \in Nat

prIDLE == 0
pr0 == ProcessCount
TPriority == prIDLE .. pr0
timeout_t == 0 .. MaxTimeout

VARIABLES
  CurProcPriority,    \* the process whose context is loaded
  SchedProcPriority,  \* the process the next PendSV will load
  ReadyProcessMap,    \* set of ready processes (a bit map in the code)
  ISR_NestCount,
  Timeout,            \* [TPriority -> timeout_t]
  inSched,            \* processes inside the do-while loop of sched()
  pendSV,             \* the PENDSVSET bit of the ICSR register
  exc,                \* where the SysTick or PendSV handler is, or "thread"
  switchedOut         \* history: the process the last real switch took out

schedVars == <<SchedProcPriority, pendSV>>
kernelVars == <<CurProcPriority, SchedProcPriority, ReadyProcessMap,
                ISR_NestCount, Timeout, inSched, pendSV, exc, switchedOut>>

\* tick_enter: SysTick taken, ISR_Enter not yet run; tick_body: before
\* system_timer; tick_exit: before ISR_Exit; switch_enter: PendSV taken, its
\* CPSID not yet run.
Handler == {"thread", "tick_enter", "tick_body", "tick_exit", "switch_enter"}

TypeOK ==
  /\ CurProcPriority \in TPriority
  /\ SchedProcPriority \in TPriority
  /\ ReadyProcessMap \in SUBSET TPriority
  /\ ISR_NestCount \in {0, 1}
  /\ Timeout \in [TPriority -> timeout_t]
  /\ inSched \in SUBSET TPriority
  /\ pendSV \in BOOLEAN
  /\ exc \in Handler
  /\ switchedOut \in TPriority

-----------------------------------------------------------------------------
(***************************************************************************)
(* Scheduling                                                              *)
(***************************************************************************)

highest_priority(pm) == CHOOSE pr \in pm : \A q \in pm : q <= pr

\* The state os_start leaves: pr0 runs, every process is ready.  The
\* constructor does not set SchedProcPriority; Kernel is a static object, so
\* it is 0, prIDLE.
KernelInit ==
  /\ CurProcPriority = pr0
  /\ SchedProcPriority = prIDLE
  /\ ReadyProcessMap = TPriority
  /\ ISR_NestCount = 0
  /\ Timeout = [p \in TPriority |-> 0]
  /\ inSched = {}
  /\ pendSV = FALSE
  /\ exc = "thread"
  /\ switchedOut = prIDLE

\* The processor executes thread code: no handler is active and no switch is
\* pending (a pending PendSV is taken before the next thread instruction).
InThread == exc = "thread" /\ ~pendSV

\* The running process executes its own code, outside sched().
Running(p) == InThread /\ CurProcPriority = p /\ p \notin inSched

\* The running process is in the loop of sched() and finds the switch done.
LeavesSched(p) ==
  /\ InThread
  /\ CurProcPriority = p
  /\ p \in inSched
  /\ CurProcPriority = SchedProcPriority

\* Mutant: the switch is never requested.
sched_NoRaise ==
  LET NextPrty == highest_priority(ReadyProcessMap')
      parked == IF NextPrty # CurProcPriority THEN {CurProcPriority} ELSE {}
  IN /\ inSched' = (inSched \ {CurProcPriority}) \cup parked
     /\ SchedProcPriority' = IF parked # {} THEN NextPrty ELSE SchedProcPriority
     /\ UNCHANGED pendSV

\* sched(), called by the running process after its update of the ready map.
sched ==
  LET NextPrty == highest_priority(ReadyProcessMap') IN
  IF NextPrty # CurProcPriority
    THEN /\ SchedProcPriority' = NextPrty
         /\ pendSV' = TRUE
         /\ inSched' = inSched \cup {CurProcPriority}
    ELSE /\ UNCHANGED schedVars
         /\ inSched' = inSched \ {CurProcPriority}

\* Mutant: scheduler() with its test of ISR_NestCount negated, so that a call
\* from a process never switches.
scheduler_Negated ==
  IF ISR_NestCount = 0 THEN UNCHANGED <<schedVars, inSched>> ELSE sched

scheduler ==
  IF ISR_NestCount # 0 THEN UNCHANGED <<schedVars, inSched>> ELSE sched

\* Mutant: the handler never asks for a switch.
sched_isr_Never == UNCHANGED schedVars

\* sched_isr(), run at the exit of the outermost interrupt handler.
sched_isr ==
  LET NextPrty == highest_priority(ReadyProcessMap') IN
  IF NextPrty # CurProcPriority
    THEN /\ SchedProcPriority' = NextPrty
         /\ pendSV' = TRUE
    ELSE UNCHANGED schedVars

\* A whole USART handler under TISRW: ISR_Enter and ISR_Exit cancel out in
\* ISR_NestCount, and only an outermost handler reschedules.  The conjuncts
\* that give ReadyProcessMap' and Timeout' are the handler's body.
TISRW ==
  /\ IF ISR_NestCount = 0 THEN sched_isr ELSE UNCHANGED schedVars
  /\ UNCHANGED <<CurProcPriority, ISR_NestCount, inSched, exc, switchedOut>>

-----------------------------------------------------------------------------
(***************************************************************************)
(* Calls a process makes                                                   *)
(***************************************************************************)

\* sleep(timeout): OS::sleep(0) suspends until someone calls force_wake_up.
sleep(timeout) ==
  /\ Timeout' = [Timeout EXCEPT ![CurProcPriority] = timeout]
  /\ ReadyProcessMap' = ReadyProcessMap \ {CurProcPriority}
  /\ scheduler
  /\ UNCHANGED <<CurProcPriority, ISR_NestCount, exc, switchedOut>>

\* The updates of wake_up and of force_wake_up, by a process or a handler.
\* wake_up does nothing to a process that has no timeout running.
set_awake(p) ==
  /\ Timeout' = [Timeout EXCEPT ![p] = 0]
  /\ ReadyProcessMap' = ReadyProcessMap \cup {p}

wake_up(p) ==
  IF Timeout[p] # 0
    THEN /\ set_awake(p)
         /\ scheduler
         /\ UNCHANGED <<CurProcPriority, ISR_NestCount, exc, switchedOut>>
    ELSE UNCHANGED kernelVars

\* Mutant: force_wake_up leaves the timeout running.
force_wake_up_KeepsTimeout(p) ==
  /\ ReadyProcessMap' = ReadyProcessMap \cup {p}
  /\ scheduler
  /\ UNCHANGED <<CurProcPriority, ISR_NestCount, Timeout, exc, switchedOut>>

force_wake_up(p) ==
  /\ set_awake(p)
  /\ scheduler
  /\ UNCHANGED <<CurProcPriority, ISR_NestCount, exc, switchedOut>>

\* sched() returns to a caller that has nothing left to do (sleep, wake_up,
\* force_wake_up, signal).
SchedReturns(p) ==
  /\ LeavesSched(p)
  /\ inSched' = inSched \ {p}
  /\ UNCHANGED <<CurProcPriority, SchedProcPriority, ReadyProcessMap,
                 ISR_NestCount, Timeout, pendSV, exc, switchedOut>>

-----------------------------------------------------------------------------
(***************************************************************************)
(* The SysTick and PendSV handlers.  sys_tick_handler is split where the   *)
(* USART can preempt it: before ISR_Enter, before and after system_timer.  *)
(***************************************************************************)

SysTickEntry ==
  /\ InThread
  /\ exc' = "tick_enter"
  /\ UNCHANGED <<CurProcPriority, SchedProcPriority, ReadyProcessMap,
                 ISR_NestCount, Timeout, inSched, pendSV, switchedOut>>

ISR_Enter ==
  /\ exc = "tick_enter"
  /\ ISR_NestCount' = ISR_NestCount + 1
  /\ exc' = "tick_body"
  /\ UNCHANGED <<CurProcPriority, SchedProcPriority, ReadyProcessMap,
                 Timeout, inSched, pendSV, switchedOut>>

\* Mutant: the loop runs over the table from BaseIndex 0 and misses pr0.
system_timer_MissesTop ==
  LET timed == {p \in prIDLE .. (pr0 - 1) : Timeout[p] > 0} IN
  /\ exc = "tick_body"
  /\ Timeout' = [p \in TPriority |-> IF p \in timed THEN Timeout[p] - 1
                                                    ELSE Timeout[p]]
  /\ ReadyProcessMap' = ReadyProcessMap \cup {p \in timed : Timeout'[p] = 0}
  /\ exc' = "tick_exit"
  /\ UNCHANGED <<CurProcPriority, SchedProcPriority, ISR_NestCount, inSched,
                 pendSV, switchedOut>>

\* Mutant: the timeout is compared with zero before it is decremented.
system_timer_PostDecrement ==
  LET timed == {p \in (prIDLE + 1) .. pr0 : Timeout[p] > 0} IN
  /\ exc = "tick_body"
  /\ Timeout' = [p \in TPriority |-> IF p \in timed THEN Timeout[p] - 1
                                                    ELSE Timeout[p]]
  /\ ReadyProcessMap' = ReadyProcessMap \cup {p \in timed : Timeout[p] = 0}
  /\ exc' = "tick_exit"
  /\ UNCHANGED <<CurProcPriority, SchedProcPriority, ISR_NestCount, inSched,
                 pendSV, switchedOut>>

\* system_timer(): every process but the idle one whose timeout runs is
\* counted down, and is made ready when it reaches zero.
system_timer ==
  LET timed == {p \in (prIDLE + 1) .. pr0 : Timeout[p] > 0} IN
  /\ exc = "tick_body"
  /\ Timeout' = [p \in TPriority |-> IF p \in timed THEN Timeout[p] - 1
                                                    ELSE Timeout[p]]
  /\ ReadyProcessMap' = ReadyProcessMap \cup {p \in timed : Timeout'[p] = 0}
  /\ exc' = "tick_exit"
  /\ UNCHANGED <<CurProcPriority, SchedProcPriority, ISR_NestCount, inSched,
                 pendSV, switchedOut>>

\* Mutant: the handler leaves ISR_NestCount as it is, and so never switches.
ISR_Exit_NoDecrement ==
  /\ exc = "tick_exit"
  /\ exc' = "thread"
  /\ UNCHANGED <<CurProcPriority, SchedProcPriority, ReadyProcessMap,
                 ISR_NestCount, Timeout, inSched, pendSV, switchedOut>>

\* The rest of sys_tick_handler: the exit of TISRW and the exception return.
ISR_Exit ==
  /\ exc = "tick_exit"
  /\ ISR_NestCount' = ISR_NestCount - 1
  /\ UNCHANGED ReadyProcessMap
  /\ IF ISR_NestCount' # 0 THEN UNCHANGED schedVars ELSE sched_isr
  /\ exc' = "thread"
  /\ UNCHANGED <<CurProcPriority, Timeout, inSched, switchedOut>>

\* Taking the exception clears PENDSVSET; until CPSID the USART can preempt.
PendSVEntry ==
  /\ exc = "thread"
  /\ pendSV
  /\ pendSV' = FALSE
  /\ exc' = "switch_enter"
  /\ UNCHANGED <<CurProcPriority, SchedProcPriority, ReadyProcessMap,
                 ISR_NestCount, Timeout, inSched, switchedOut>>

\* pend_sv_handler from CPSID to its return: context_switch_hook.
context_switch_hook ==
  /\ exc = "switch_enter"
  /\ CurProcPriority' = SchedProcPriority
  /\ switchedOut' = IF SchedProcPriority # CurProcPriority
                      THEN CurProcPriority ELSE switchedOut
  /\ exc' = "thread"
  /\ UNCHANGED <<SchedProcPriority, ReadyProcessMap, ISR_NestCount, Timeout,
                 inSched, pendSV>>

SysTick == ISR_Enter \/ system_timer \/ ISR_Exit
PendSV == PendSVEntry \/ context_switch_hook

-----------------------------------------------------------------------------
(***************************************************************************)
(* The kernel alone: processes and an interrupt handler that make any call *)
(* the kernel allows.  The idle process calls nothing.                     *)
(***************************************************************************)

ProcessCall ==
  /\ Running(CurProcPriority)
  /\ CurProcPriority # prIDLE
  /\ \/ \E t \in timeout_t : sleep(t)
     \/ \E p \in TPriority : wake_up(p)
     \/ \E p \in TPriority : force_wake_up(p)

\* scheduler() returns at once inside a handler, so the call only updates
\* the timeout and the ready map; TISRW reschedules.
DeviceISR ==
  /\ \E p \in TPriority : set_awake(p)
  /\ TISRW

Next ==
  \/ ProcessCall
  \/ \E p \in TPriority : SchedReturns(p)
  \/ SysTickEntry
  \/ SysTick
  \/ PendSV
  \/ DeviceISR

Spec == KernelInit /\ [][Next]_kernelVars

\* SysTick is periodic and its request is latched while PendSV or the USART
\* keeps it out, hence strong fairness of its entry; a handler that has
\* started, a pending PendSV and the loop of sched() go on.
KernelFairness ==
  /\ SF_kernelVars(SysTickEntry)
  /\ WF_kernelVars(SysTick)
  /\ WF_kernelVars(PendSV)

FairSpec == Spec /\ KernelFairness

-----------------------------------------------------------------------------
(***************************************************************************)
(* Properties                                                              *)
(***************************************************************************)

\* No thread instruction is executed on behalf of a process that has
\* suspended itself: sched() does not let its caller go on until it is ready
\* again.
ReadyRuns == InThread => CurProcPriority \in ReadyProcessMap

\* The loop of sched() ("until context switch done") is not an endless spin:
\* whenever its owner executes and no switch is on its way, the loop's
\* condition CurProcPriority # SchedProcPriority is false.
SpinEnds ==
  (InThread /\ CurProcPriority \in inSched) =>
    CurProcPriority = SchedProcPriority

\* A process can be ready and outrank the running one in a single case: it
\* was woken after it had asked to be switched out and before PendSV did it,
\* sched_isr then compared with a CurProcPriority that was still its own, and
\* the stale request went through.  It is then the process that was switched
\* out last, and the highest of the ready ones.
InversionOnlyBySelfWake ==
  InThread => highest_priority(ReadyProcessMap) \in {CurProcPriority, switchedOut}

\* The inversion does not outlive a tick: when SysTick returns, the highest
\* ready process is the one that goes on or the one PendSV loads next.
GoesToHighest ==
  LET h == highest_priority(ReadyProcessMap)
  IN IF pendSV THEN SchedProcPriority = h ELSE CurProcPriority = h

TickEndsInversion ==
  [][exc = "tick_exit" /\ exc' = "thread" => GoesToHighest']_kernelVars

\* A timeout never outlives the sleep it was set for.  If it did, a later
\* tick would make the process ready in the middle of an unrelated wait.
NoStaleTimeout ==
  \A p \in TPriority : Timeout[p] # 0 => p \notin ReadyProcessMap

\* A timed sleep or wait is neither cut short nor drawn out: a tick takes one
\* off its timeout and ends it when nothing is left, and nothing but a tick
\* touches the timeout of a process that stays asleep.
SleepRunsDown(p) ==
  IF exc = "tick_body" /\ exc' = "tick_exit"
    THEN /\ Timeout'[p] = Timeout[p] - 1
         /\ p \in ReadyProcessMap' <=> Timeout'[p] = 0
    ELSE p \in ReadyProcessMap' \/ Timeout'[p] = Timeout[p]

SleepIsTimed ==
  [][\A p \in TPriority \ ReadyProcessMap :
       Timeout[p] # 0 => SleepRunsDown(p)]_kernelVars

\* Every timed sleep ends.
SleepEnds ==
  \A p \in TPriority : (Timeout[p] # 0) ~> (p \in ReadyProcessMap)

\* The inversion is transient: the highest-priority process gets the
\* processor whenever it is ready (at the latest through the next tick).
TopPriorityRuns == (pr0 \in ReadyProcessMap) ~> (CurProcPriority = pr0)
=============================================================================
