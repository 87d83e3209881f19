------------------------------ MODULE EventFlag ------------------------------
(***************************************************************************)
(* One TEventFlag on the kernel (scmRTOS/Common/OS_Services.{h,cpp}), used *)
(* by processes and by an interrupt handler that also make the other       *)
(* kernel calls.  Message builds a message on it, SerialPort the serial    *)
(* receiver; the properties are checked there.                             *)
(***************************************************************************)
EXTENDS Services

VARIABLES
  ProcessMap,  \* processes on the flag's map of waiters
  Value,       \* TRUE is efOn
  WaitingFor   \* processes inside suspend(), by the debug field of that name

flagVars == <<ProcessMap, Value, WaitingFor>>
serviceVars == <<kernelVars, flagVars>>

FlagInit ==
  /\ KernelInit
  /\ ProcessMap = {}
  /\ Value = FALSE
  /\ WaitingFor = {}

-----------------------------------------------------------------------------
(***************************************************************************)
(* The flag's operations                                                   *)
(***************************************************************************)

\* wait(timeout), up to its return or to the switch inside suspend().
wait(timeout) ==
  \/ /\ Value
     /\ Value' = FALSE
     /\ UNCHANGED <<ProcessMap, WaitingFor, kernelVars>>
  \/ /\ ~Value
     /\ Timeout' = [Timeout EXCEPT ![CurProcPriority] = timeout]
     /\ suspend(ProcessMap)
     /\ WaitingFor' = WaitingFor \cup {CurProcPriority}
     /\ UNCHANGED <<Value, CurProcPriority, ISR_NestCount, exc, switchedOut>>

\* Mutant: a signalled waiter goes on without clearing its timeout.
WaitReturns_KeepsTimeout(p) ==
  /\ LeavesSched(p)
  /\ p \in WaitingFor
  /\ inSched' = inSched \ {p}
  /\ WaitingFor' = WaitingFor \ {p}
  /\ ProcessMap' = ProcessMap \ {p}
  /\ UNCHANGED <<Value, CurProcPriority, SchedProcPriority, ReadyProcessMap,
                 ISR_NestCount, Timeout, pendSV, exc, switchedOut>>

\* Mutant: a waiter whose time ran out leaves its tag on the flag's map.
WaitReturns_LeavesTag(p) ==
  /\ LeavesSched(p)
  /\ p \in WaitingFor
  /\ inSched' = inSched \ {p}
  /\ WaitingFor' = WaitingFor \ {p}
  /\ Timeout' = IF is_timeouted(ProcessMap) THEN Timeout ELSE [Timeout EXCEPT ![p] = 0]
  /\ UNCHANGED <<ProcessMap, Value, CurProcPriority, SchedProcPriority,
                 ReadyProcessMap, ISR_NestCount, pendSV, exc, switchedOut>>

\* The rest of wait(), from the return of the scheduler inside suspend().
WaitReturns(p) ==
  /\ LeavesSched(p)
  /\ p \in WaitingFor
  /\ inSched' = inSched \ {p}
  /\ WaitingFor' = WaitingFor \ {p}
  /\ IF is_timeouted(ProcessMap)
       THEN /\ ProcessMap' = ProcessMap \ {p}
            /\ UNCHANGED Timeout
       ELSE /\ Timeout' = [Timeout EXCEPT ![p] = 0]
            /\ UNCHANGED ProcessMap
  /\ UNCHANGED <<Value, CurProcPriority, SchedProcPriority, ReadyProcessMap,
                 ISR_NestCount, pendSV, exc, switchedOut>>

\* signal(), from a process.
signal ==
  \/ /\ resume_all(ProcessMap)
     /\ UNCHANGED <<Value, WaitingFor, CurProcPriority, ISR_NestCount, Timeout,
                    exc, switchedOut>>
  \/ /\ NobodyToResume(ProcessMap)
     /\ Value' = TRUE
     /\ UNCHANGED <<ProcessMap, WaitingFor, kernelVars>>

clear ==
  /\ Value' = FALSE
  /\ UNCHANGED <<ProcessMap, WaitingFor, kernelVars>>

\* Mutant: the flag is raised although a waiter was woken.
signal_isr_AlwaysOn ==
  /\ \/ resume_all_isr(ProcessMap)
     \/ /\ NobodyToResume(ProcessMap)
        /\ UNCHANGED <<ReadyProcessMap, ProcessMap>>
  /\ Value' = TRUE
  /\ UNCHANGED <<Timeout, WaitingFor>>

\* signal_isr(), the body of an interrupt handler.
signal_isr ==
  /\ \/ /\ resume_all_isr(ProcessMap)
        /\ UNCHANGED Value
     \/ /\ NobodyToResume(ProcessMap)
        /\ Value' = TRUE
        /\ UNCHANGED <<ReadyProcessMap, ProcessMap>>
  /\ UNCHANGED <<Timeout, WaitingFor>>

-----------------------------------------------------------------------------
(***************************************************************************)
(* Users of the flag                                                       *)
(***************************************************************************)

FlagCall ==
  /\ Running(CurProcPriority)
  /\ CurProcPriority # prIDLE
  /\ \/ \E t \in timeout_t : wait(t)
     \/ signal
     \/ clear

\* Calls outside the flag; wake_up is force_wake_up on a process whose
\* timeout runs.
OtherCall == ProcessCall /\ UNCHANGED flagVars

OtherReturns ==
  /\ \E p \in TPriority \ WaitingFor : SchedReturns(p)
  /\ UNCHANGED flagVars

SignalISR == signal_isr /\ TISRW

OtherISR == DeviceISR /\ UNCHANGED flagVars

KernelHandlers == (SysTickEntry \/ SysTick \/ PendSV) /\ UNCHANGED flagVars

FlagNext ==
  \/ FlagCall
  \/ \E p \in TPriority : WaitReturns(p)
  \/ OtherCall
  \/ OtherReturns
  \/ SignalISR
  \/ OtherISR
  \/ KernelHandlers

FlagSpec == FlagInit /\ [][FlagNext]_serviceVars

-----------------------------------------------------------------------------
(***************************************************************************)
(* Properties                                                              *)
(***************************************************************************)

\* Whoever is blocked inside wait is on the map, where a signal finds it.
BlockedIsListed == WaitingFor \ ReadyProcessMap \subseteq ProcessMap

\* A tag on the map belongs to a process that is inside wait.  A tag left
\* behind would make a later signal wake a process that does not wait, and
\* be lost on it.
NoStaleTag == ProcessMap \subseteq WaitingFor

\* A timeout does not outlive the call it was set for: a process that runs
\* its own code has none, so a tick cannot end a later, untimed wait.
RunnerHasNoTimeout == \A p \in TPriority : Running(p) => Timeout[p] = 0

\* A timed wait of the highest-priority process returns, signal or not.
TimedWaitReturns ==
  (pr0 \in WaitingFor /\ Timeout[pr0] # 0) ~> (pr0 \notin WaitingFor)

\* The flag and the kernel's maps implement the abstract flag.
Flag == INSTANCE EventFlagSpec WITH
  Process  <- TPriority \ {prIDLE},
  signaled <- Value,
  blocked  <- ProcessMap \ ReadyProcessMap,
  released <- WaitingFor \ ProcessMap,
  gaveUp   <- ProcessMap \cap ReadyProcessMap

ImplementsFlag == Flag!Spec
=============================================================================
