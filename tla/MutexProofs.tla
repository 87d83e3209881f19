----------------------------- MODULE MutexProofs -----------------------------
(***************************************************************************)
(* Proofs about Mutex, for any number of processes.  Exclusion needs       *)
(* nothing but the tag.  That nobody is left blocked on a free mutex, and  *)
(* that the code implements MutexSpec, need the kernel's invariant, too,   *)
(* and that nobody wakes a waiter by force (MutexForced.cfg has a run in   *)
(* which somebody does).                                                   *)
(***************************************************************************)
EXTENDS Mutex, KernelProofs

\* A waiter is in the loop of sched(), at the latest to leave it.
WaitersInSched == WaitingFor \subseteq inSched \ {prIDLE}

\* lock() has no timeout, so no tick ends it.
WaitersUntimed == \A p \in WaitingFor : Timeout[p] = 0

MInv ==
  /\ IInv
  /\ WaitersInSched
  /\ WaitersUntimed
  /\ MapIsBlocked
  /\ NoLostWakeup

-----------------------------------------------------------------------------
(***************************************************************************)
(* Exclusion                                                               *)
(***************************************************************************)

\* The tag says who is past lock(), and names one process at most.
TagIsHolder == holders = ValueTag /\ Exclusion

\* Every step keeps the tag equal to the set of holders.
LEMMA TagInductive == TagIsHolder /\ [MutexNext]_serviceVars => TagIsHolder'
<1> SUFFICES ASSUME TagIsHolder, [MutexNext]_serviceVars PROVE TagIsHolder'
  OBVIOUS
<1> USE DEF TagIsHolder, Exclusion
<1>1. ASSUME UNCHANGED <<ValueTag, holders>> PROVE TagIsHolder'
  BY <1>1
<1>2. ASSUME NEW p, Takes(p) PROVE TagIsHolder'
  BY <1>2 DEF Takes
<1>3. ASSUME NEW p, Waits(p) PROVE TagIsHolder'
  BY <1>3 DEF Waits
<1>4. CASE unlock
  <2>1. CASE UNCHANGED serviceVars
    BY <2>1 DEF serviceVars, mutexVars
  <2>2. CASE /\ ValueTag = {CurProcPriority}
             /\ ValueTag' = {}
             /\ holders' = holders \ {CurProcPriority}
    BY <2>2
  <2>3. QED
    BY <1>4, <2>1, <2>2 DEF unlock
<1>5. CASE UnlockISR
  BY <1>5 DEF UnlockISR, unlock_isr
<1>6. CASE MutexCall
  BY <1>1, <1>2, <1>3, <1>4, <1>6
  DEF MutexCall, lock, lock_softly, serviceVars, mutexVars
<1>7. CASE \E p \in TPriority : LockReturns(p)
  BY <1>2, <1>3, <1>7 DEF LockReturns
<1>8. CASE OtherCall \/ OtherReturns \/ OtherISR \/ KernelHandlers
  BY <1>1, <1>8 DEF OtherCall, OtherReturns, OtherISR, KernelHandlers, mutexVars
<1>9. CASE UNCHANGED serviceVars
  BY <1>1, <1>9 DEF serviceVars, mutexVars
<1>10. QED
  BY <1>5, <1>6, <1>7, <1>8, <1>9 DEF MutexNext

\* The tag is the holder in every state.
LEMMA TagInvariance == TMutexSpec => []TagIsHolder
<1>1. MutexInit => TagIsHolder
  BY DEF MutexInit, TagIsHolder, Exclusion
<1>2. QED
  BY <1>1, TagInductive, PTL DEF TMutexSpec

\* Whoever wakes whom, a second process never gets past lock().
THEOREM MutexExclusion == TMutexSpec => []Exclusion
<1>1. TagIsHolder => Exclusion
  BY DEF TagIsHolder
<1>2. QED
  BY <1>1, TagInvariance, PTL

-----------------------------------------------------------------------------

\* The process that executes has no timeout running.
LEMMA RunnerUntimed ==
  ASSUME IInv, InThread
  PROVE  Timeout[CurProcPriority] = 0
BY RunnerReady DEF IInv, NoStaleTimeout

\* A call outside sched() is not made by a waiter.
LEMMA CallerNotWaiting ==
  ASSUME MInv, Running(CurProcPriority)
  PROVE  CurProcPriority \notin WaitingFor
BY DEF MInv, WaitersInSched, Running

-----------------------------------------------------------------------------
(***************************************************************************)
(* The steps of lock                                                       *)
(***************************************************************************)

\* The invariant holds at the start.
LEMMA MutexInitInductive == MutexInit => MInv
<1> SUFFICES ASSUME MutexInit PROVE MInv
  OBVIOUS
<1>1. IInv
  BY InitInductive DEF MutexInit
<1>2. QED
  BY <1>1 DEF MutexInit, MInv, WaitersInSched, WaitersUntimed, MapIsBlocked,
     NoLostWakeup

\* Taking the mutex leaves the kernel as it was, but for the loop of sched().
LEMMA TakesInductive ==
  ASSUME MInv, Takes(CurProcPriority), InThread,
         CurProcPriority \in inSched => LeavesSched(CurProcPriority)
  PROVE  MInv'
<1>1. IInv'
  <2>1. CASE CurProcPriority \in inSched
    <3>1. SchedReturns(CurProcPriority)
      BY <2>1 DEF Takes, SchedReturns
    <3>2. QED
      BY <3>1, NextInductive, RunnerReady DEF MInv, IInv, Next
  <2>2. CASE CurProcPriority \notin inSched
    <3>1. UNCHANGED kernelVars
      BY <2>2 DEF Takes, kernelVars
    <3>2. QED
      BY <3>1 DEF MInv, kernelVars, IInv, KInv, TypeOK, NestCountExact, IdleReady,
         TargetReady, LoadedReady, UnreadyInSched, HighestKnown, SwitchPending,
         NoStaleTimeout
  <2>3. QED
    BY <2>1, <2>2
<1>2. WaitersInSched' /\ WaitersUntimed' /\ NoLostWakeup'
  BY DEF MInv, Takes, WaitersInSched, WaitersUntimed, NoLostWakeup
<1>3. MapIsBlocked'
  BY RunnerReady DEF MInv, IInv, Takes, MapIsBlocked
<1>4. QED
  BY <1>1, <1>2, <1>3 DEF MInv

\* A lock that has to wait keeps the invariant.
LEMMA WaitsInductive ==
  ASSUME MInv, Waits(CurProcPriority), InThread, CurProcPriority # prIDLE
  PROVE  MInv'
<1>1. /\ ReadyProcessMap' = ReadyProcessMap \ {CurProcPriority}
      /\ ProcessMap' = ProcessMap \cup {CurProcPriority}
      /\ WaitingFor' = WaitingFor \cup {CurProcPriority}
      /\ scheduler
      /\ ValueTag # {}
      /\ UNCHANGED <<ValueTag, CurProcPriority, ISR_NestCount, Timeout, exc,
                     switchedOut>>
  BY DEF Waits, suspend
<1>2. /\ ReadyProcessMap' \in SUBSET TPriority
      /\ prIDLE \in ReadyProcessMap'
      /\ Timeout' \in [TPriority -> timeout_t]
      /\ NoStaleTimeout'
  BY <1>1 DEF MInv, IInv, KInv, TypeOK, IdleReady, NoStaleTimeout
<1>3. IInv'
  BY <1>1, <1>2, SchedInductive DEF MInv, IInv
<1>4. inSched' = inSched \cup {CurProcPriority}
  BY <1>1, <1>2, SchedParks DEF MInv, IInv
<1>5. WaitersInSched'
  BY <1>1, <1>4 DEF MInv, WaitersInSched
<1>6. WaitersUntimed'
  BY <1>1, RunnerUntimed DEF MInv, WaitersUntimed
<1>7. MapIsBlocked' /\ NoLostWakeup'
  BY <1>1 DEF MInv, MapIsBlocked, NoLostWakeup
<1>8. QED
  BY <1>3, <1>5, <1>6, <1>7 DEF MInv

-----------------------------------------------------------------------------
(***************************************************************************)
(* The steps of unlock                                                     *)
(***************************************************************************)

\* What either kind of unlock makes of the maps.
Unblocks ==
  \/ \E next \in ProcessMap \ ReadyProcessMap :
       /\ ReadyProcessMap' = ReadyProcessMap \cup {next}
       /\ ProcessMap' = ProcessMap \ {next}
  \/ /\ ProcessMap \subseteq ReadyProcessMap
     /\ UNCHANGED <<ReadyProcessMap, ProcessMap>>

\* The map holds blocked processes only, so the one that is woken waits.
LEMMA NextIsBlocked ==
  ASSUME MInv,
         \/ resume_next_ready_isr(ProcessMap)
         \/ NobodyToResume(ProcessMap) /\ UNCHANGED <<ReadyProcessMap, ProcessMap>>
  PROVE  Unblocks
<1> DEFINE Ready == ProcessMap \ ReadyProcessMap
<1>1. CASE resume_next_ready_isr(ProcessMap)
  <2>1. Ready # {}
    BY <1>1 DEF resume_next_ready_isr
  <2>2. Ready \in SUBSET TPriority
    BY DEF MInv, MapIsBlocked, WaitersInSched, IInv, KInv, TypeOK
  <2>3. highest_priority(Ready) \in Ready
    BY <2>1, <2>2, HighestPriority
  <2>4. QED
    BY <1>1, <2>3 DEF resume_next_ready_isr, Unblocks
<1>2. QED
  BY <1>1 DEF NobodyToResume, Unblocks

\* Waking one waiter of the map keeps the invariant.
LEMMA UnblocksKeeps ==
  ASSUME MInv, Unblocks, IInv', WaitersInSched', UNCHANGED <<Timeout, WaitingFor>>
  PROVE  MInv'
<1>1. WaitersUntimed'
  BY DEF MInv, WaitersUntimed
<1>2. MapIsBlocked' /\ NoLostWakeup'
  <2>1. CASE \E next \in ProcessMap \ ReadyProcessMap :
               /\ ReadyProcessMap' = ReadyProcessMap \cup {next}
               /\ ProcessMap' = ProcessMap \ {next}
    <3>1. PICK next \in ProcessMap \ ReadyProcessMap :
            /\ ReadyProcessMap' = ReadyProcessMap \cup {next}
            /\ ProcessMap' = ProcessMap \ {next}
      BY <2>1
    <3>2. next \in WaitingFor' \cap ReadyProcessMap'
      BY <3>1 DEF MInv, MapIsBlocked
    <3>3. QED
      BY <3>1, <3>2 DEF MInv, MapIsBlocked, NoLostWakeup
  <2>2. CASE /\ ProcessMap \subseteq ReadyProcessMap
             /\ UNCHANGED <<ReadyProcessMap, ProcessMap>>
    BY <2>2 DEF MInv, MapIsBlocked, NoLostWakeup
  <2>3. QED
    BY <2>1, <2>2 DEF Unblocks
<1>3. QED
  BY <1>1, <1>2 DEF MInv

\* A process on the map has no timeout, so waking it leaves no stale one.
LEMMA UnblocksNoStale ==
  ASSUME MInv, Unblocks, UNCHANGED Timeout
  PROVE  /\ ReadyProcessMap' \in SUBSET TPriority
         /\ ReadyProcessMap \subseteq ReadyProcessMap'
         /\ Timeout' \in [TPriority -> timeout_t]
         /\ NoStaleTimeout'
BY DEF MInv, IInv, KInv, TypeOK, Unblocks, NoStaleTimeout, MapIsBlocked,
       WaitersInSched, WaitersUntimed

\* unlock keeps the invariant.
LEMMA UnlockInductive ==
  ASSUME MInv, Running(CurProcPriority), CurProcPriority # prIDLE, unlock
  PROVE  MInv'
<1>1. CASE UNCHANGED serviceVars
  BY <1>1 DEF serviceVars, kernelVars, mutexVars, MInv, IInv, KInv, TypeOK,
     NestCountExact, IdleReady, TargetReady, LoadedReady, UnreadyInSched,
     HighestKnown, SwitchPending, NoStaleTimeout, WaitersInSched, WaitersUntimed,
     MapIsBlocked, NoLostWakeup
<1>2. ASSUME resume_next_ready(ProcessMap),
             UNCHANGED <<WaitingFor, CurProcPriority, ISR_NestCount, Timeout, exc,
                         switchedOut>>
      PROVE  MInv'
  <2>1. scheduler /\ Unblocks
    BY <1>2, NextIsBlocked DEF resume_next_ready
  <2>2. IInv'
    BY <1>2, <2>1, UnblocksNoStale, SchedInductive
    DEF MInv, IInv, KInv, IdleReady, Running
  <2>3. WaitersInSched'
    BY <1>2, <2>1, SchedKeepsOthers, CallerNotWaiting DEF MInv, WaitersInSched
  <2>4. QED
    BY <1>2, <2>1, <2>2, <2>3, UnblocksKeeps
<1>3. ASSUME NobodyToResume(ProcessMap),
             UNCHANGED <<ProcessMap, ReadyProcessMap, inSched, schedVars, WaitingFor,
                         CurProcPriority, ISR_NestCount, Timeout, exc, switchedOut>>
      PROVE  MInv'
  <2>1. Unblocks
    BY <1>3, NextIsBlocked
  <2>2. IInv' /\ WaitersInSched'
    BY <1>3 DEF schedVars, MInv, IInv, KInv, TypeOK, NestCountExact, IdleReady,
       TargetReady, LoadedReady, UnreadyInSched, HighestKnown, SwitchPending,
       NoStaleTimeout, WaitersInSched
  <2>3. QED
    BY <1>3, <2>1, <2>2, UnblocksKeeps
<1>4. QED
  BY <1>1, <1>2, <1>3 DEF unlock

\* unlock_isr keeps the invariant.
LEMMA UnlockISRInductive ==
  ASSUME MInv, UnlockISR
  PROVE  MInv'
<1>1. Unblocks /\ TISRW /\ UNCHANGED <<Timeout, WaitingFor>>
  BY NextIsBlocked DEF UnlockISR, unlock_isr
<1>2. IInv'
  BY <1>1, UnblocksNoStale, HandlerWakesInductive DEF MInv, IInv
<1>3. WaitersInSched'
  BY <1>1 DEF MInv, WaitersInSched, TISRW
<1>4. QED
  BY <1>1, <1>2, <1>3, UnblocksKeeps

-----------------------------------------------------------------------------
(***************************************************************************)
(* Steps outside the mutex                                                 *)
(***************************************************************************)

\* They keep the invariant if they leave the waiters as they were.
LEMMA OtherKeeps ==
  ASSUME MInv, IInv', UNCHANGED mutexVars,
         WaitingFor \subseteq inSched',
         WaitingFor \cap ReadyProcessMap' = WaitingFor \cap ReadyProcessMap,
         \A p \in WaitingFor : Timeout'[p] = 0
  PROVE  MInv'
BY DEF MInv, mutexVars, WaitersInSched, WaitersUntimed, MapIsBlocked, NoLostWakeup

\* What else a process calls keeps the invariant.
LEMMA OtherCallInductive ==
  ASSUME ForceWaiters = FALSE, MInv, OtherCall
  PROVE  MInv'
<1>1. /\ ProcessCall
      /\ Running(CurProcPriority)
      /\ WaitingFor \cap ReadyProcessMap' \subseteq ReadyProcessMap
      /\ UNCHANGED mutexVars
  BY DEF OtherCall, ProcessCall, LeavesWaiters
<1>2. IInv' /\ CurProcPriority \notin WaitingFor
  BY <1>1, NextInductive, CallerNotWaiting DEF MInv, Next
<1>3. WaitingFor \subseteq inSched /\ WaitingFor \subseteq TPriority
      /\ \A p \in WaitingFor : Timeout[p] = 0
      /\ Timeout \in [TPriority -> timeout_t]
  BY DEF MInv, WaitersInSched, WaitersUntimed, IInv, KInv, TypeOK
<1>4. ASSUME NEW t \in timeout_t, sleep(t) PROVE MInv'
  <2>1. WaitingFor \subseteq inSched'
    BY <1>2, <1>3, <1>4, SchedKeepsOthers DEF sleep
  <2>2. \A p \in WaitingFor : Timeout'[p] = 0
    BY <1>2, <1>3, <1>4 DEF sleep
  <2>3. WaitingFor \cap ReadyProcessMap' = WaitingFor \cap ReadyProcessMap
    BY <1>2, <1>4 DEF sleep
  <2>4. QED
    BY <1>1, <1>2, <2>1, <2>2, <2>3, OtherKeeps
<1>5. ASSUME NEW p \in TPriority, set_awake(p), scheduler PROVE MInv'
  <2>1. WaitingFor \subseteq inSched'
    BY <1>2, <1>3, <1>5, SchedKeepsOthers
  <2>2. \A q \in WaitingFor : Timeout'[q] = 0
    BY <1>3, <1>5 DEF set_awake
  <2>3. WaitingFor \cap ReadyProcessMap' = WaitingFor \cap ReadyProcessMap
    BY <1>1, <1>5 DEF set_awake
  <2>4. QED
    BY <1>1, <1>2, <2>1, <2>2, <2>3, OtherKeeps
<1>6. CASE UNCHANGED kernelVars
  BY <1>1, <1>2, <1>3, <1>6, OtherKeeps DEF kernelVars
<1>7. QED
  BY <1>1, <1>4, <1>5, <1>6 DEF ProcessCall, wake_up, force_wake_up

\* A process that leaves another sched() keeps the invariant.
LEMMA OtherReturnsInductive ==
  ASSUME MInv, OtherReturns
  PROVE  MInv'
<1>1. PICK p \in TPriority \ WaitingFor : SchedReturns(p)
  BY DEF OtherReturns
<1>2. IInv'
  BY <1>1, NextInductive DEF MInv, Next
<1>3. UNCHANGED mutexVars /\ WaitingFor \subseteq inSched'
      /\ UNCHANGED <<ReadyProcessMap, Timeout>>
  BY <1>1 DEF OtherReturns, SchedReturns, MInv, WaitersInSched
<1>4. QED
  BY <1>2, <1>3, OtherKeeps DEF MInv, WaitersUntimed

\* Any other interrupt keeps the invariant.
LEMMA OtherISRInductive ==
  ASSUME ForceWaiters = FALSE, MInv, OtherISR
  PROVE  MInv'
<1>1. PICK p \in TPriority : set_awake(p)
  BY DEF OtherISR, DeviceISR
<1>2. IInv' /\ UNCHANGED <<inSched, mutexVars>>
  BY NextInductive DEF MInv, OtherISR, DeviceISR, TISRW, Next
<1>3. WaitingFor \cap ReadyProcessMap' = WaitingFor \cap ReadyProcessMap
  BY <1>1 DEF OtherISR, LeavesWaiters, set_awake
<1>4. \A q \in WaitingFor : Timeout'[q] = 0
  BY <1>1 DEF set_awake, MInv, WaitersUntimed, WaitersInSched, IInv, KInv, TypeOK
<1>5. QED
  BY <1>2, <1>3, <1>4, OtherKeeps DEF MInv, WaitersInSched

\* No tick wakes a waiter: none of them has a timeout.
LEMMA KernelHandlersInductive ==
  ASSUME MInv, KernelHandlers
  PROVE  MInv'
<1>1. IInv' /\ UNCHANGED mutexVars
  BY NextInductive DEF MInv, KernelHandlers, Next
<1>2. UNCHANGED inSched
  BY DEF KernelHandlers, SysTickEntry, SysTick, PendSV, ISR_Enter, system_timer,
     ISR_Exit, PendSVEntry, context_switch_hook
<1>3. CASE system_timer
  <2>1. \A p \in WaitingFor : p \in TPriority /\ Timeout[p] = 0
    BY DEF MInv, WaitersUntimed, WaitersInSched, IInv, KInv, TypeOK
  <2>2. \A p \in WaitingFor : p \notin {q \in (prIDLE + 1) .. pr0 : Timeout[q] > 0}
    BY <2>1
  <2>3. WaitingFor \cap ReadyProcessMap' = WaitingFor \cap ReadyProcessMap
    BY <1>3, <2>2 DEF system_timer
  <2>4. \A p \in WaitingFor : Timeout'[p] = 0
    BY <1>3, <2>1, <2>2 DEF system_timer
  <2>5. QED
    BY <1>1, <1>2, <2>3, <2>4, OtherKeeps DEF MInv, WaitersInSched
<1>4. CASE UNCHANGED <<ReadyProcessMap, Timeout>>
  BY <1>1, <1>2, <1>4, OtherKeeps DEF MInv, WaitersInSched, WaitersUntimed
<1>5. QED
  BY <1>3, <1>4 DEF KernelHandlers, SysTickEntry, SysTick, PendSV, ISR_Enter,
     ISR_Exit, PendSVEntry, context_switch_hook

-----------------------------------------------------------------------------
(***************************************************************************)
(* The theorems                                                            *)
(***************************************************************************)

\* Nothing outside the mutex wakes the waiters.
NoForce == ForceWaiters = FALSE

\* Every step keeps the invariant.
LEMMA MutexNextInductive ==
  NoForce /\ MInv /\ [MutexNext]_serviceVars => MInv'
<1> SUFFICES ASSUME NoForce, MInv, [MutexNext]_serviceVars PROVE MInv'
  OBVIOUS
<1>1. CASE UNCHANGED serviceVars
  BY <1>1 DEF serviceVars, kernelVars, mutexVars, MInv, IInv, KInv, TypeOK,
     NestCountExact, IdleReady, TargetReady, LoadedReady, UnreadyInSched,
     HighestKnown, SwitchPending, NoStaleTimeout, WaitersInSched, WaitersUntimed,
     MapIsBlocked, NoLostWakeup
<1>2. CASE MutexCall
  <2>1. /\ Running(CurProcPriority)
        /\ InThread
        /\ CurProcPriority \notin inSched
        /\ CurProcPriority # prIDLE
    BY <1>2 DEF MutexCall, Running
  <2>2. QED
    BY <1>1, <1>2, <2>1, TakesInductive, WaitsInductive, UnlockInductive
    DEF MutexCall, lock, lock_softly
<1>3. CASE \E p \in TPriority : LockReturns(p)
  <2>1. /\ LeavesSched(CurProcPriority)
        /\ InThread
        /\ CurProcPriority \in WaitingFor
        /\ Takes(CurProcPriority) \/ Waits(CurProcPriority)
    BY <1>3 DEF LockReturns, LeavesSched
  <2>2. CurProcPriority # prIDLE
    BY <2>1 DEF MInv, WaitersInSched
  <2>3. QED
    BY <2>1, <2>2, TakesInductive, WaitsInductive
<1>4. CASE OtherCall
  BY <1>4, OtherCallInductive DEF NoForce
<1>5. CASE OtherReturns
  BY <1>5, OtherReturnsInductive
<1>6. CASE UnlockISR
  BY <1>6, UnlockISRInductive
<1>7. CASE OtherISR
  BY <1>7, OtherISRInductive DEF NoForce
<1>8. CASE KernelHandlers
  BY <1>8, KernelHandlersInductive
<1>9. QED
  BY <1>1, <1>2, <1>3, <1>4, <1>5, <1>6, <1>7, <1>8 DEF MutexNext

\* The invariant holds in every state.
LEMMA MutexInvariance == NoForce => (TMutexSpec => []MInv)
<1> SUFFICES ASSUME NoForce PROVE TMutexSpec => []MInv
  OBVIOUS
<1>1. MInv /\ [MutexNext]_serviceVars => MInv'
  BY MutexNextInductive
<1>2. QED
  BY <1>1, MutexInitInductive, PTL DEF TMutexSpec

\* A free mutex with waiters has one of them on its way, whatever order the
\* unlocks, the ticks and the handlers come in.
THEOREM WakeupNotLost == NoForce => (TMutexSpec => []NoLostWakeup)
<1> SUFFICES ASSUME NoForce PROVE TMutexSpec => []NoLostWakeup
  OBVIOUS
<1>1. MInv => NoLostWakeup
  BY DEF MInv
<1>2. QED
  BY <1>1, MutexInvariance, PTL

\* The map of waiters is exactly the set of the blocked ones.
THEOREM MapExact == NoForce => (TMutexSpec => []MapIsBlocked)
<1> SUFFICES ASSUME NoForce PROVE TMutexSpec => []MapIsBlocked
  OBVIOUS
<1>1. MInv => MapIsBlocked
  BY DEF MInv
<1>2. QED
  BY <1>1, MutexInvariance, PTL

\* What the mutex does to the kernel is what a call or a handler may do.
LEMMA MutexStepIsKernelStep ==
  ASSUME MInv, [MutexNext]_serviceVars
  PROVE  KernelStep
<1>1. CASE MutexCall
  <2>1. InThread
    BY <1>1 DEF MutexCall, Running
  <2>2. QED
    BY <1>1, <2>1
    DEF MutexCall, lock, lock_softly, Takes, Waits, unlock, serviceVars, kernelVars,
        KernelStep
<1>2. CASE \E p \in TPriority : LockReturns(p)
  BY <1>2 DEF LockReturns, LeavesSched, Takes, Waits, KernelStep
<1>3. CASE UnlockISR
  BY <1>3, NextIsBlocked, UnblocksNoStale DEF UnlockISR, unlock_isr, KernelStep
<1>4. CASE OtherCall \/ OtherReturns \/ OtherISR \/ KernelHandlers
  BY <1>4, ProcessCallIsStep, DeviceISRIsStep
  DEF OtherCall, OtherReturns, OtherISR, KernelHandlers, MInv, IInv, KernelStep
<1>5. CASE UNCHANGED serviceVars
  BY <1>5 DEF serviceVars, KernelStep
<1>6. QED
  BY <1>1, <1>2, <1>3, <1>4, <1>5 DEF MutexNext

\* The kernel keeps its guarantees under the mutex.
THEOREM KernelUnderMutex ==
  NoForce => (TMutexSpec => []KernelSound /\ SleepIsTimed /\ TickEndsInversion)
<1> SUFFICES ASSUME NoForce
             PROVE  TMutexSpec => []KernelSound /\ SleepIsTimed /\ TickEndsInversion
  OBVIOUS
<1>1. MInv => KInv
  BY DEF MInv, IInv
<1>2. MInv /\ TickPending /\ [MutexNext]_serviceVars =>
        TickPending' /\ [TimedStep]_kernelVars /\ [TickStep]_kernelVars
  BY <1>1, MutexStepIsKernelStep, StepGuarantees
<1>3. (MInv => KernelSound) /\ (MutexInit => TickPending)
  BY <1>1, StepGuarantees DEF MutexInit
<1>4. TMutexSpec => []MInv
  BY MutexInvariance
<1>5. TMutexSpec => []TickPending
  BY <1>2, <1>3, <1>4, PTL DEF TMutexSpec
<1>6. QED
  BY <1>2, <1>3, <1>4, <1>5, PTL
  DEF TMutexSpec, SleepIsTimed, TickEndsInversion, TimedStep, TickStep

\* A step of the mutex is a step of the abstract one, or changes nothing in it.
LEMMA MutexStepRefines ==
  MInv /\ TagIsHolder /\ [MutexNext]_serviceVars => [M!Next]_(M!mutexVars)
<1> SUFFICES ASSUME MInv, TagIsHolder, [MutexNext]_serviceVars
             PROVE  M!Next \/ UNCHANGED <<holders, WaitingFor>>
  BY DEF M!mutexVars
<1>1. ASSUME Takes(CurProcPriority), InThread, CurProcPriority # prIDLE
      PROVE  M!Next
  <2>1. CurProcPriority \in TPriority \ {prIDLE}
    BY <1>1, RunnerReady DEF MInv, IInv
  <2>2. M!Acquire(CurProcPriority)
    BY <1>1 DEF Takes, TagIsHolder, M!Acquire
  <2>3. QED
    BY <2>1, <2>2 DEF M!Next
<1>2. ASSUME Waits(CurProcPriority), Running(CurProcPriority),
             CurProcPriority # prIDLE, CurProcPriority \notin holders
      PROVE  M!Next
  <2>1. CurProcPriority \in TPriority \ {prIDLE}
    BY <1>2, RunnerReady DEF MInv, IInv, Running
  <2>2. M!Await(CurProcPriority)
    BY <1>2, CallerNotWaiting DEF Waits, TagIsHolder, M!Await
  <2>3. QED
    BY <2>1, <2>2 DEF M!Next
<1>3. CASE unlock
  <2>1. CASE UNCHANGED serviceVars
    BY <2>1 DEF serviceVars, mutexVars
  <2>2. CASE /\ ValueTag = {CurProcPriority}
             /\ holders' = holders \ {CurProcPriority}
             /\ UNCHANGED WaitingFor
    BY <2>2 DEF TagIsHolder, M!Release, M!Next
  <2>3. QED
    BY <1>3, <2>1, <2>2 DEF unlock
<1>4. CASE UnlockISR
  BY <1>4 DEF UnlockISR, unlock_isr, M!Release, M!Next
<1>5. CASE MutexCall
  <2>1. /\ Running(CurProcPriority)
        /\ InThread
        /\ CurProcPriority # prIDLE
    BY <1>5 DEF MutexCall, Running
  <2>2. QED
    BY <1>1, <1>2, <1>3, <1>5, <2>1
    DEF MutexCall, lock, lock_softly, serviceVars, mutexVars
<1>6. CASE \E p \in TPriority : LockReturns(p)
  <2>1. /\ InThread
        /\ CurProcPriority \in WaitingFor
        /\ Takes(CurProcPriority) \/ Waits(CurProcPriority)
    BY <1>6 DEF LockReturns, LeavesSched
  <2>2. CurProcPriority # prIDLE
    BY <2>1 DEF MInv, WaitersInSched
  <2>3. CASE Waits(CurProcPriority)
    BY <2>1, <2>3 DEF Waits
  <2>4. QED
    BY <1>1, <2>1, <2>2, <2>3
<1>7. CASE OtherCall \/ OtherReturns \/ OtherISR \/ KernelHandlers
  BY <1>7 DEF OtherCall, OtherReturns, OtherISR, KernelHandlers, mutexVars
<1>8. CASE UNCHANGED serviceVars
  BY <1>8 DEF serviceVars, mutexVars
<1>9. QED
  BY <1>4, <1>5, <1>6, <1>7, <1>8 DEF MutexNext

\* The tag, the map of waiters and the ready map of the kernel implement the
\* abstract mutex: an owner got it while it was free, and a process that has
\* called lock() leaves it with the mutex.
THEOREM MutexImplements == NoForce => (TMutexSpec => ImplementsMutex)
<1> SUFFICES ASSUME NoForce PROVE TMutexSpec => M!Spec
  BY DEF ImplementsMutex
<1>1. MutexInit => M!Init
  BY DEF MutexInit, M!Init
<1>2. QED
  BY <1>1, MutexInvariance, TagInvariance, MutexStepRefines, PTL
  DEF TMutexSpec, M!Spec
=============================================================================
