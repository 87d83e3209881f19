-------------------------------- MODULE Mutex --------------------------------
(***************************************************************************)
(* One TMutex on the kernel (scmRTOS/Common/OS_Services.{h,cpp}), used by  *)
(* processes that lock and unlock it, and by an interrupt handler that may *)
(* unlock it, too.  TMutexLocker is a lock and an unlock.                  *)
(*                                                                         *)
(* A process that locks a mutex twice waits for itself: the model's        *)
(* processes do not.                                                       *)
(***************************************************************************)
EXTENDS Services

CONSTANT ForceWaiters  \* may somebody force_wake_up a process inside lock()?

ASSUME MutexAssumption == ForceWaiters \in BOOLEAN

VARIABLES
  ProcessMap,  \* processes on the mutex's map of waiters
  ValueTag,    \* the tag of the process that has it, {} if it is free
  WaitingFor,  \* processes inside suspend(), by the debug field of that name
  holders      \* history: processes that returned from lock, not yet unlocked

mutexVars == <<ProcessMap, ValueTag, WaitingFor, holders>>
serviceVars == <<kernelVars, mutexVars>>

MutexInit ==
  /\ KernelInit
  /\ ProcessMap = {}
  /\ ValueTag = {}
  /\ WaitingFor = {}
  /\ holders = {}

-----------------------------------------------------------------------------
(***************************************************************************)
(* The mutex's operations                                                  *)
(***************************************************************************)

\* The loop of lock() ends: the mutex is free, and p takes it.
Takes(p) ==
  /\ ValueTag = {}
  /\ ValueTag' = {p}
  /\ holders' = holders \cup {p}
  /\ WaitingFor' = WaitingFor \ {p}
  /\ inSched' = inSched \ {p}
  /\ UNCHANGED <<ProcessMap, CurProcPriority, SchedProcPriority, ReadyProcessMap,
                 ISR_NestCount, Timeout, pendSV, exc, switchedOut>>

\* Mutant: "if" for "while".
Waits_Once(p) ==
  /\ ValueTag # {}
  /\ IF p \in WaitingFor
       THEN /\ holders' = holders \cup {p}
            /\ WaitingFor' = WaitingFor \ {p}
            /\ inSched' = inSched \ {p}
            /\ UNCHANGED <<ProcessMap, ReadyProcessMap, schedVars>>
       ELSE /\ suspend(ProcessMap)
            /\ WaitingFor' = WaitingFor \cup {p}
            /\ UNCHANGED holders
  /\ UNCHANGED <<ValueTag, CurProcPriority, ISR_NestCount, Timeout, exc, switchedOut>>

\* The loop of lock() goes round, up to the switch inside suspend().
Waits(p) ==
  /\ ValueTag # {}
  /\ suspend(ProcessMap)
  /\ WaitingFor' = WaitingFor \cup {p}
  /\ UNCHANGED <<ValueTag, holders, CurProcPriority, ISR_NestCount, Timeout, exc,
                 switchedOut>>

lock == Takes(CurProcPriority) \/ Waits(CurProcPriority)

\* lock() from the return of the scheduler inside suspend().
LockReturns(p) ==
  /\ LeavesSched(p)
  /\ p \in WaitingFor
  /\ Takes(p) \/ Waits(p)

\* The result FALSE of lock_softly() changes nothing; TRUE is a lock.
lock_softly ==
  \/ Takes(CurProcPriority)
  \/ ValueTag # {} /\ UNCHANGED serviceVars

\* Mutant: a call by a process that does not own the mutex frees it.
unlock_ByAnyone ==
  /\ ValueTag' = {}
  /\ holders' = holders \ {CurProcPriority}
  /\ \/ resume_next_ready(ProcessMap)
     \/ /\ NobodyToResume(ProcessMap)
        /\ UNCHANGED <<ProcessMap, ReadyProcessMap, inSched, schedVars>>
  /\ UNCHANGED <<WaitingFor, CurProcPriority, ISR_NestCount, Timeout, exc, switchedOut>>

\* unlock(): only the owner's call does anything.
unlock ==
  \/ ValueTag # {CurProcPriority} /\ UNCHANGED serviceVars
  \/ /\ ValueTag = {CurProcPriority}
     /\ ValueTag' = {}
     /\ holders' = holders \ {CurProcPriority}
     /\ \/ resume_next_ready(ProcessMap)
        \/ /\ NobodyToResume(ProcessMap)
           /\ UNCHANGED <<ProcessMap, ReadyProcessMap, inSched, schedVars>>
     /\ UNCHANGED <<WaitingFor, CurProcPriority, ISR_NestCount, Timeout, exc,
                    switchedOut>>

\* Mutant: the handler frees the mutex and wakes nobody.
unlock_isr_Silent ==
  /\ ValueTag' = {}
  /\ holders' = {}
  /\ UNCHANGED <<ProcessMap, ReadyProcessMap, Timeout, WaitingFor>>

\* unlock_isr() takes the mutex from whoever has it: it is for handlers that
\* know the owner is done.
unlock_isr ==
  /\ ValueTag' = {}
  /\ holders' = {}
  /\ \/ resume_next_ready_isr(ProcessMap)
     \/ NobodyToResume(ProcessMap) /\ UNCHANGED <<ProcessMap, ReadyProcessMap>>
  /\ UNCHANGED <<Timeout, WaitingFor>>

-----------------------------------------------------------------------------
(***************************************************************************)
(* Users of the mutex                                                      *)
(***************************************************************************)

MutexCall ==
  /\ Running(CurProcPriority)
  /\ CurProcPriority # prIDLE
  /\ \/ CurProcPriority \notin holders /\ (lock \/ lock_softly)
     \/ unlock

\* No call outside the mutex readies a process inside lock(), unless
\* ForceWaiters says so.
LeavesWaiters ==
  ForceWaiters \/ ReadyProcessMap' \cap WaitingFor \subseteq ReadyProcessMap

OtherCall == ProcessCall /\ LeavesWaiters /\ UNCHANGED mutexVars

OtherReturns ==
  /\ \E p \in TPriority \ WaitingFor : SchedReturns(p)
  /\ UNCHANGED mutexVars

UnlockISR == unlock_isr /\ TISRW

OtherISR == DeviceISR /\ LeavesWaiters /\ UNCHANGED mutexVars

KernelHandlers == (SysTickEntry \/ SysTick \/ PendSV) /\ UNCHANGED mutexVars

MutexNext ==
  \/ MutexCall
  \/ \E p \in TPriority : LockReturns(p)
  \/ OtherCall
  \/ OtherReturns
  \/ UnlockISR
  \/ OtherISR
  \/ KernelHandlers

TMutexSpec == MutexInit /\ [][MutexNext]_serviceVars

\* As for the event flag: handlers are fair, and a process in lock() that has
\* the processor goes on between two interrupts.
TMutexFairSpec ==
  /\ TMutexSpec
  /\ SF_serviceVars(SysTickEntry /\ UNCHANGED mutexVars)
  /\ WF_serviceVars(SysTick /\ UNCHANGED mutexVars)
  /\ WF_serviceVars(PendSV /\ UNCHANGED mutexVars)
  /\ SF_serviceVars(LockReturns(pr0))

-----------------------------------------------------------------------------
(***************************************************************************)
(* Properties                                                              *)
(***************************************************************************)

\* A process between lock and unlock has its tag in the mutex, so there is
\* never a second one.
Exclusion == \A p \in holders : ValueTag = {p}

\* Only one process is woken for each unlock, and it may find the mutex taken
\* again.  All the same nobody is left blocked on a free mutex: somebody who
\* waited is then on the way to it, and will wake the next.
NoLostWakeup ==
  (ValueTag = {} /\ WaitingFor # {}) => WaitingFor \cap ReadyProcessMap # {}

\* The map is exactly the processes that are blocked in lock(), however often
\* they were woken in vain.
MapIsBlocked == ProcessMap = WaitingFor \ ReadyProcessMap

\* A mutex that is free while the highest-priority process waits does not stay
\* free.  (That process may still lose the race: if the mutex was freed while it
\* was on its way out of the processor, the process below it runs first.)
FreeMutexIsTaken ==
  (pr0 \in WaitingFor /\ ValueTag = {}) ~> (ValueTag # {})

\* The tag, the map and the ready map implement the abstract mutex.
M == INSTANCE MutexSpec WITH
  Process <- TPriority \ {prIDLE},
  owner   <- holders,
  waiting <- WaitingFor

ImplementsMutex == M!Spec
=============================================================================
