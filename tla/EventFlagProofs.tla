--------------------------- MODULE EventFlagProofs ---------------------------
(***************************************************************************)
(* Proofs about EventFlag, for any number of processes and any timeouts,   *)
(* and about its two users: Message, and SerialPort with a ring of any     *)
(* size.                                                                   *)
(*                                                                         *)
(* A signal makes the waiters ready and leaves their timeouts to them, so  *)
(* the kernel's NoStaleTimeout does not hold here: a tick may still end    *)
(* the timeout of a process that was signalled.  What holds is that only   *)
(* such a process has one, and that it is still inside wait().             *)
(***************************************************************************)
EXTENDS SerialPort, Message, KernelProofs

\* A waiter is in the loop of sched(), at the latest to leave it.
WaitersInSched == WaitingFor \subseteq inSched \ {prIDLE}

\* A ready process with a timeout was released by a signal.
OverdueReleased == Overdue \subseteq WaitingFor \ ProcessMap

FInv ==
  /\ KInv
  /\ WaitersInSched
  /\ BlockedIsListed
  /\ NoStaleTag
  /\ OverdueReleased

-----------------------------------------------------------------------------

\* The invariant holds at the start.
LEMMA FlagInitInductive == FlagInit => FInv
<1> SUFFICES ASSUME FlagInit PROVE FInv
  OBVIOUS
<1>1. KInv /\ Overdue = {}
  BY InitInductive, NoneOverdue DEF FlagInit, IInv, KInv
<1>2. QED
  BY <1>1 DEF FlagInit, FInv, WaitersInSched, BlockedIsListed, NoStaleTag,
     OverdueReleased

\* A process that calls the flag is not inside wait().
LEMMA CallerNotWaiting ==
  ASSUME FInv, Running(CurProcPriority)
  PROVE  /\ CurProcPriority \notin WaitingFor
         /\ CurProcPriority \notin ProcessMap
         /\ CurProcPriority \in ReadyProcessMap
         /\ CurProcPriority \in TPriority
         /\ InThread
BY RunnerReady DEF FInv, WaitersInSched, NoStaleTag, Running

\* Steps that leave the flag alone keep the invariant if they keep the kernel's
\* and nobody but a process outside wait() is suspended.
LEMMA OtherKeeps ==
  ASSUME FInv, KInv', UNCHANGED flagVars,
         WaitingFor \subseteq inSched',
         WaitingFor \cap ReadyProcessMap \subseteq ReadyProcessMap',
         Overdue' \subseteq Overdue
  PROVE  FInv'
BY DEF FInv, flagVars, WaitersInSched, BlockedIsListed, NoStaleTag, OverdueReleased

\* A step that changes Value only.
LEMMA ValueKeeps ==
  ASSUME FInv, UNCHANGED <<ProcessMap, WaitingFor, kernelVars>>
  PROVE  FInv'
BY DEF FInv, WaitersInSched, BlockedIsListed, NoStaleTag, OverdueReleased, Overdue,
       kernelVars, KInv, TypeOK, NestCountExact, IdleReady, TargetReady, LoadedReady,
       UnreadyInSched, HighestKnown, SwitchPending

-----------------------------------------------------------------------------
(***************************************************************************)
(* The flag's operations                                                   *)
(***************************************************************************)

\* wait, up to the switch, keeps the invariant.
LEMMA WaitInductive ==
  ASSUME FInv, Running(CurProcPriority), CurProcPriority # prIDLE,
         NEW t \in timeout_t, wait(t)
  PROVE  FInv'
<1>1. CASE UNCHANGED <<ProcessMap, WaitingFor, kernelVars>>
  BY <1>1, ValueKeeps
<1>2. CASE /\ Timeout' = [Timeout EXCEPT ![CurProcPriority] = t]
           /\ suspend(ProcessMap)
           /\ WaitingFor' = WaitingFor \cup {CurProcPriority}
           /\ UNCHANGED <<CurProcPriority, ISR_NestCount, exc, switchedOut>>
  <2>1. /\ ReadyProcessMap' = ReadyProcessMap \ {CurProcPriority}
        /\ ProcessMap' = ProcessMap \cup {CurProcPriority}
        /\ scheduler
    BY <1>2 DEF suspend
  <2>2. /\ CurProcPriority \notin WaitingFor
        /\ CurProcPriority \in TPriority
        /\ InThread
    BY CallerNotWaiting
  <2>3. /\ ReadyProcessMap' \in SUBSET TPriority
        /\ prIDLE \in ReadyProcessMap'
        /\ Timeout' \in [TPriority -> timeout_t]
    BY <1>2, <2>1 DEF FInv, KInv, TypeOK, IdleReady
  <2>4. KInv'
    BY <1>2, <2>1, <2>2, <2>3, SchedInductive DEF FInv
  <2>5. inSched' = inSched \cup {CurProcPriority}
    BY <2>1, <2>2, <2>3, SchedParks DEF FInv
  <2>6. WaitersInSched'
    BY <1>2, <2>5 DEF FInv, WaitersInSched
  <2>7. BlockedIsListed' /\ NoStaleTag'
    BY <1>2, <2>1 DEF FInv, BlockedIsListed, NoStaleTag
  <2>8. Overdue' \subseteq Overdue \ {CurProcPriority}
    BY <1>2, <2>1, <2>2 DEF Overdue, FInv, KInv, TypeOK
  <2>9. OverdueReleased'
    BY <1>2, <2>1, <2>8 DEF FInv, OverdueReleased
  <2>10. QED
    BY <2>4, <2>6, <2>7, <2>9 DEF FInv
<1>3. QED
  BY <1>1, <1>2 DEF wait

\* The process that returns clears its tag or its timeout, whichever its wake-up
\* has left.
LEMMA WaitReturnsInductive ==
  ASSUME FInv, NEW p \in TPriority, WaitReturns(p)
  PROVE  FInv'
<1>1. /\ LeavesSched(p) /\ CurProcPriority = p /\ InThread
      /\ p \in WaitingFor
      /\ inSched' = inSched \ {p}
      /\ WaitingFor' = WaitingFor \ {p}
      /\ UNCHANGED <<CurProcPriority, SchedProcPriority, ReadyProcessMap,
                     ISR_NestCount, pendSV, exc, switchedOut>>
  BY DEF WaitReturns, LeavesSched
<1>2. p \in ReadyProcessMap
  BY <1>1, RunnerReady DEF FInv
<1>3. \/ p \in ProcessMap /\ ProcessMap' = ProcessMap \ {p} /\ UNCHANGED Timeout
      \/ /\ p \notin ProcessMap /\ UNCHANGED ProcessMap
         /\ Timeout' = [Timeout EXCEPT ![p] = 0]
  BY <1>1 DEF WaitReturns, is_timeouted
<1>4. Timeout \in [TPriority -> timeout_t] /\ 0 \in timeout_t
  BY KernelAssumption DEF FInv, KInv, TypeOK, timeout_t
<1>5. KInv'
  BY <1>1, <1>3, <1>4, LeavesSchedInductive DEF FInv
<1>6. WaitersInSched' /\ BlockedIsListed' /\ NoStaleTag'
  BY <1>1, <1>2, <1>3 DEF FInv, WaitersInSched, BlockedIsListed, NoStaleTag
<1>7. Overdue' \subseteq Overdue /\ p \notin Overdue'
  <2>1. ReadyProcessMap \subseteq TPriority /\ OverdueReleased
    BY DEF FInv, KInv, TypeOK
  <2>2. QED
    BY <1>1, <1>3, <1>4, <2>1 DEF OverdueReleased, Overdue
<1>8. OverdueReleased'
  BY <1>1, <1>3, <1>7 DEF FInv, OverdueReleased
<1>9. QED
  BY <1>5, <1>6, <1>8 DEF FInv

\* What both signals do to the maps when there is somebody to wake.
LEMMA ReleaseKeeps ==
  ASSUME FInv, resume_all_isr(ProcessMap), KInv', WaitersInSched',
         UNCHANGED <<Timeout, WaitingFor>>
  PROVE  FInv'
<1>1. /\ ReadyProcessMap' = ReadyProcessMap \cup ProcessMap
      /\ ProcessMap' = ProcessMap \cap ReadyProcessMap
  BY DEF resume_all_isr, Timeouted
<1>2. BlockedIsListed' /\ NoStaleTag'
  BY <1>1 DEF FInv, BlockedIsListed, NoStaleTag
<1>3. Overdue' \subseteq Overdue \cup (ProcessMap \ ReadyProcessMap)
  BY <1>1 DEF Overdue
<1>4. OverdueReleased'
  BY <1>1, <1>3 DEF FInv, NoStaleTag, OverdueReleased
<1>5. QED
  BY <1>2, <1>4 DEF FInv

\* Only processes are on the map, so the ready map stays one.
LEMMA ReleaseTyped ==
  ASSUME FInv, resume_all_isr(ProcessMap), UNCHANGED Timeout
  PROVE  /\ ReadyProcessMap' \in SUBSET TPriority
         /\ ReadyProcessMap \subseteq ReadyProcessMap'
         /\ Timeout' \in [TPriority -> timeout_t]
BY DEF resume_all_isr, FInv, NoStaleTag, WaitersInSched, KInv, TypeOK

\* signal keeps the invariant.
LEMMA SignalInductive ==
  ASSUME FInv, Running(CurProcPriority), CurProcPriority # prIDLE, signal
  PROVE  FInv'
<1>1. CASE UNCHANGED <<ProcessMap, WaitingFor, kernelVars>>
  BY <1>1, ValueKeeps
<1>2. CASE /\ resume_all(ProcessMap)
           /\ UNCHANGED <<WaitingFor, CurProcPriority, ISR_NestCount, Timeout, exc,
                          switchedOut>>
  <2>1. resume_all_isr(ProcessMap) /\ scheduler
    BY <1>2 DEF resume_all
  <2>2. KInv'
    BY <1>2, <2>1, ReleaseTyped, SchedInductive DEF FInv, KInv, IdleReady, Running
  <2>3. WaitersInSched'
    BY <1>2, <2>1, SchedKeepsOthers, CallerNotWaiting DEF FInv, WaitersInSched
  <2>4. QED
    BY <1>2, <2>1, <2>2, <2>3, ReleaseKeeps
<1>3. QED
  BY <1>1, <1>2 DEF signal

\* signal_isr keeps the invariant.
LEMMA SignalISRInductive == FInv /\ SignalISR => FInv'
<1> SUFFICES ASSUME FInv, SignalISR PROVE FInv'
  OBVIOUS
<1>1. TISRW /\ UNCHANGED <<Timeout, WaitingFor, inSched>>
  BY DEF SignalISR, signal_isr, TISRW
<1>2. WaitersInSched'
  BY <1>1 DEF FInv, WaitersInSched
<1>3. CASE resume_all_isr(ProcessMap)
  <2>1. KInv'
    BY <1>1, <1>3, ReleaseTyped, HandlerWakesInductive DEF FInv
  <2>2. QED
    BY <1>1, <1>2, <1>3, <2>1, ReleaseKeeps
<1>4. CASE UNCHANGED <<ReadyProcessMap, ProcessMap>>
  <2>1. KInv'
    BY <1>1, <1>4, HandlerWakesInductive DEF FInv, KInv, TypeOK
  <2>2. QED
    BY <1>1, <1>2, <1>4, <2>1
    DEF FInv, BlockedIsListed, NoStaleTag, OverdueReleased, Overdue
<1>5. QED
  BY <1>3, <1>4 DEF SignalISR, signal_isr

-----------------------------------------------------------------------------
(***************************************************************************)
(* Steps outside the flag                                                  *)
(***************************************************************************)

\* They leave the ready waiters ready, and all of them in sched().
LEMMA OthersKeepWaiters ==
  ASSUME FInv, OtherCall \/ OtherReturns \/ OtherISR \/ KernelHandlers
  PROVE  /\ KInv' /\ UNCHANGED flagVars
         /\ WaitingFor \subseteq inSched'
         /\ WaitingFor \cap ReadyProcessMap \subseteq ReadyProcessMap'
         /\ Overdue' \subseteq Overdue
<1>1. KInv /\ WaitingFor \subseteq inSched
  BY DEF FInv, WaitersInSched
<1>2. CASE OtherCall
  <2>1. ProcessCall /\ UNCHANGED flagVars /\ CurProcPriority \notin WaitingFor
    BY <1>2, CallerNotWaiting DEF OtherCall, ProcessCall
  <2>2. KInv' /\ Overdue' \subseteq Overdue
    BY <1>1, <2>1, ProcessCallInductive
  <2>3. \/ scheduler /\ ReadyProcessMap \ {CurProcPriority} \subseteq ReadyProcessMap'
        \/ UNCHANGED <<inSched, ReadyProcessMap>>
    BY <2>1 DEF ProcessCall, sleep, wake_up, force_wake_up, set_awake, kernelVars
  <2>4. QED
    BY <1>1, <2>1, <2>2, <2>3, SchedKeepsOthers
<1>3. CASE OtherReturns
  <2>1. PICK p \in TPriority \ WaitingFor : SchedReturns(p)
    BY <1>3 DEF OtherReturns
  <2>2. QED
    BY <1>1, <1>3, <2>1, SchedReturnsInductive DEF OtherReturns, SchedReturns
<1>4. CASE OtherISR
  <2>1. ReadyProcessMap \subseteq ReadyProcessMap' /\ UNCHANGED inSched
    BY <1>4 DEF OtherISR, DeviceISR, set_awake, TISRW
  <2>2. QED
    BY <1>1, <1>4, <2>1, DeviceISRInductive DEF OtherISR
<1>5. CASE KernelHandlers
  <2>1. ReadyProcessMap \subseteq ReadyProcessMap' /\ UNCHANGED inSched
    BY <1>5 DEF KernelHandlers, SysTickEntry, SysTick, PendSV, ISR_Enter,
       system_timer, ISR_Exit, PendSVEntry, context_switch_hook
  <2>2. QED
    BY <1>1, <1>5, <2>1, HandlersInductive, HandlersOverdue DEF KernelHandlers
<1>6. QED
  BY <1>2, <1>3, <1>4, <1>5

-----------------------------------------------------------------------------
(***************************************************************************)
(* The theorems                                                            *)
(***************************************************************************)

\* Every step keeps the invariant.
LEMMA FlagNextInductive == FInv /\ [FlagNext]_serviceVars => FInv'
<1> SUFFICES ASSUME FInv, [FlagNext]_serviceVars PROVE FInv'
  OBVIOUS
<1>1. CASE UNCHANGED serviceVars
  BY <1>1, ValueKeeps DEF serviceVars, flagVars
<1>2. CASE FlagCall
  <2>1. Running(CurProcPriority) /\ CurProcPriority # prIDLE
    BY <1>2 DEF FlagCall
  <2>2. CASE clear
    BY <2>2, ValueKeeps DEF clear
  <2>3. QED
    BY <1>2, <2>1, <2>2, WaitInductive, SignalInductive DEF FlagCall
<1>3. CASE \E p \in TPriority : WaitReturns(p)
  BY <1>3, WaitReturnsInductive
<1>4. CASE SignalISR
  BY <1>4, SignalISRInductive
<1>5. CASE OtherCall \/ OtherReturns \/ OtherISR \/ KernelHandlers
  BY <1>5, OthersKeepWaiters, OtherKeeps
<1>6. QED
  BY <1>1, <1>2, <1>3, <1>4, <1>5 DEF FlagNext

\* The invariant holds in every state.
LEMMA FlagInvariance == FlagSpec => []FInv
BY FlagInitInductive, FlagNextInductive, PTL DEF FlagSpec

\* Whoever is blocked in wait() is on the map, where a signal finds it.
THEOREM BlockedAreListed == FlagSpec => []BlockedIsListed
<1>1. FInv => BlockedIsListed
  BY DEF FInv
<1>2. QED
  BY <1>1, FlagInvariance, PTL

\* No tag of a process that has left wait() stays behind to swallow a signal.
THEOREM TagsNotStale == FlagSpec => []NoStaleTag
<1>1. FInv => NoStaleTag
  BY DEF FInv
<1>2. QED
  BY <1>1, FlagInvariance, PTL

\* No timeout survives the wait() it was set for.
THEOREM RunnersHaveNoTimeout == FlagSpec => []RunnerHasNoTimeout
<1>1. FInv => RunnerHasNoTimeout
  <2> SUFFICES ASSUME FInv, NEW p \in TPriority, Running(p) PROVE Timeout[p] = 0
    BY DEF RunnerHasNoTimeout
  <2>1. p = CurProcPriority
    BY DEF Running
  <2>2. p \in ReadyProcessMap /\ p \notin WaitingFor
    BY <2>1, CallerNotWaiting
  <2>3. QED
    BY <2>2 DEF FInv, OverdueReleased, Overdue
<1>2. QED
  BY <1>1, FlagInvariance, PTL

\* What the flag does to the kernel is what a call or a handler may do.
LEMMA FlagStepIsKernelStep ==
  ASSUME FInv, [FlagNext]_serviceVars
  PROVE  KernelStep
<1>1. CASE FlagCall
  <2>1. InThread
    BY <1>1 DEF FlagCall, Running
  <2>2. QED
    BY <1>1, <2>1 DEF FlagCall, wait, signal, clear, kernelVars, KernelStep
<1>2. CASE \E p \in TPriority : WaitReturns(p)
  BY <1>2 DEF WaitReturns, LeavesSched, KernelStep
<1>3. CASE SignalISR
  <2>1. /\ ReadyProcessMap \subseteq ReadyProcessMap'
        /\ ReadyProcessMap' \in SUBSET TPriority
    <3>1. ReadyProcessMap' \in {ReadyProcessMap, ReadyProcessMap \cup ProcessMap}
      BY <1>3 DEF SignalISR, signal_isr, resume_all_isr
    <3>2. ProcessMap \subseteq TPriority /\ ReadyProcessMap \subseteq TPriority
      BY DEF FInv, NoStaleTag, WaitersInSched, KInv, TypeOK
    <3>3. QED
      BY <3>1, <3>2
  <2>2. QED
    BY <1>3, <2>1 DEF SignalISR, signal_isr, KernelStep
<1>4. CASE OtherCall \/ OtherReturns \/ OtherISR \/ KernelHandlers
  BY <1>4, ProcessCallIsStep, DeviceISRIsStep
  DEF OtherCall, OtherReturns, OtherISR, KernelHandlers, FInv, KernelStep
<1>5. CASE UNCHANGED serviceVars
  BY <1>5 DEF serviceVars, KernelStep
<1>6. QED
  BY <1>1, <1>2, <1>3, <1>4, <1>5 DEF FlagNext

\* The kernel keeps its guarantees under the flag, whose signals leave timeouts
\* behind: the right process runs, at the latest from the next tick on, and
\* nobody's sleep or wait is cut short or drawn out.
THEOREM KernelUnderFlag ==
  FlagSpec => []KernelSound /\ SleepIsTimed /\ TickEndsInversion
<1>1. FInv => KInv
  BY DEF FInv
<1>2. FInv /\ TickPending /\ [FlagNext]_serviceVars =>
        TickPending' /\ [TimedStep]_kernelVars /\ [TickStep]_kernelVars
  BY <1>1, FlagStepIsKernelStep, StepGuarantees
<1>3. (FInv => KernelSound) /\ (FlagInit => TickPending)
  BY <1>1, StepGuarantees DEF FlagInit
<1>4. FlagSpec => []TickPending
  BY <1>2, <1>3, FlagInvariance, PTL DEF FlagSpec
<1>5. QED
  BY <1>2, <1>3, <1>4, FlagInvariance, PTL
  DEF FlagSpec, SleepIsTimed, TickEndsInversion, TimedStep, TickStep

-----------------------------------------------------------------------------

\* A step of the code is a step of the abstract flag, or changes nothing in it.
LEMMA FlagStepRefines ==
  FInv /\ [FlagNext]_serviceVars => [Flag!Next]_(Flag!flagVars)
<1> SUFFICES ASSUME FInv, [FlagNext]_serviceVars
             PROVE  Flag!Next \/ UNCHANGED <<Value, ProcessMap, ReadyProcessMap,
                                             WaitingFor>>
  BY DEF Flag!flagVars
<1> DEFINE me == CurProcPriority
<1>1. NoStaleTag
  BY DEF FInv
<1>2. CASE UNCHANGED serviceVars
  BY <1>2 DEF serviceVars, flagVars, kernelVars
<1>3. ASSUME Running(me), me # prIDLE, NEW t \in timeout_t, wait(t) PROVE Flag!Next
  <2>1. CASE /\ Value /\ Value' = FALSE
             /\ UNCHANGED <<ProcessMap, WaitingFor, kernelVars>>
    <3>1. Flag!Take
      BY <2>1 DEF kernelVars, Flag!Take
    <3>2. QED
      BY <3>1 DEF Flag!Next
  <2>2. CASE /\ ~Value /\ suspend(ProcessMap)
             /\ WaitingFor' = WaitingFor \cup {me}
             /\ UNCHANGED Value
    <3>1. /\ ReadyProcessMap' = ReadyProcessMap \ {me}
          /\ ProcessMap' = ProcessMap \cup {me}
      BY <2>2 DEF suspend
    <3>2. me \notin WaitingFor /\ me \notin ProcessMap /\ me \in TPriority \ {prIDLE}
      BY <1>3, CallerNotWaiting
    <3>3. Flag!Block(me)
      BY <2>2, <3>1, <3>2 DEF Flag!Block, Flag!inside
    <3>4. QED
      BY <3>2, <3>3 DEF Flag!Next
  <2>3. QED
    BY <1>3, <2>1, <2>2 DEF wait
<1>4. ASSUME resume_all_isr(ProcessMap), UNCHANGED <<Value, WaitingFor>>
      PROVE  Flag!Next
  <2>1. /\ ReadyProcessMap' = ReadyProcessMap \cup ProcessMap
        /\ ProcessMap' = ProcessMap \cap ReadyProcessMap
        /\ ProcessMap \ ReadyProcessMap # {}
    BY <1>4 DEF resume_all_isr, Timeouted
  <2>2. Flag!Signal
    BY <1>1, <1>4, <2>1 DEF NoStaleTag, Flag!Signal
  <2>3. QED
    BY <2>2 DEF Flag!Next
<1>5. ASSUME NobodyToResume(ProcessMap), Value' = TRUE,
             UNCHANGED <<ProcessMap, WaitingFor, ReadyProcessMap>>
      PROVE  Flag!Next
  <2>1. Flag!Signal
    BY <1>5 DEF NobodyToResume, Flag!Signal
  <2>2. QED
    BY <2>1 DEF Flag!Next
<1>6. CASE FlagCall
  <2>1. CASE clear
    <3>1. Flag!Clear
      BY <2>1 DEF clear, kernelVars, Flag!Clear
    <3>2. QED
      BY <3>1 DEF Flag!Next
  <2>2. CASE signal
    BY <1>4, <1>5, <2>2 DEF signal, resume_all, kernelVars
  <2>3. QED
    BY <1>3, <1>6, <2>1, <2>2 DEF FlagCall
<1>7. CASE \E p \in TPriority : WaitReturns(p)
  <2>1. PICK p \in TPriority : WaitReturns(p)
    BY <1>7
  <2>2. p \in ReadyProcessMap /\ p \in WaitingFor /\ CurProcPriority = p
    BY <2>1, RunnerReady DEF FInv, WaitReturns, LeavesSched
  <2>3. p \in TPriority \ {prIDLE}
    BY <2>2 DEF FInv, WaitersInSched
  <2>4. Flag!Return(p)
    BY <1>1, <2>1, <2>2 DEF WaitReturns, is_timeouted, NoStaleTag, Flag!Return
  <2>5. QED
    BY <2>3, <2>4 DEF Flag!Next
<1>8. CASE SignalISR
  BY <1>4, <1>5, <1>8 DEF SignalISR, signal_isr
<1>9. CASE OtherCall \/ OtherReturns \/ OtherISR \/ KernelHandlers
  <2> DEFINE P == (ProcessMap \ ReadyProcessMap) \cap ReadyProcessMap'
  <2>1. UNCHANGED flagVars
        /\ WaitingFor \cap ReadyProcessMap \subseteq ReadyProcessMap'
    BY <1>9, OthersKeepWaiters
  <2>2. ProcessMap \cap ReadyProcessMap \subseteq ReadyProcessMap'
    BY <1>1, <2>1 DEF NoStaleTag
  <2>3. /\ P \in SUBSET (ProcessMap \ ReadyProcessMap)
        /\ (ProcessMap \ ReadyProcessMap)' = (ProcessMap \ ReadyProcessMap) \ P
        /\ (ProcessMap \cap ReadyProcessMap)' = (ProcessMap \cap ReadyProcessMap) \cup P
        /\ UNCHANGED <<Value, WaitingFor \ ProcessMap>>
    BY <2>1, <2>2 DEF flagVars
  <2>4. Flag!GiveUp
    BY <2>3 DEF Flag!GiveUp
  <2>5. QED
    BY <2>4 DEF Flag!Next
<1>10. QED
  BY <1>2, <1>6, <1>7, <1>8, <1>9 DEF FlagNext

\* The flag's map, the debug field and the kernel's ready map implement the
\* abstract flag: a signal releases everybody who is blocked at that moment,
\* and is kept if there is nobody, however ticks and handlers interleave.
THEOREM FlagImplements == FlagSpec => ImplementsFlag
<1> SUFFICES FlagSpec => Flag!Spec
  BY DEF ImplementsFlag
<1>1. FlagInit => Flag!Init
  BY DEF FlagInit, Flag!Init
<1>2. QED
  BY <1>1, FlagInvariance, FlagStepRefines, PTL DEF FlagSpec, Flag!Spec

-----------------------------------------------------------------------------
(***************************************************************************)
(* Message.  The cell and the flag change in two critical sections, between*)
(* which anybody may come in: client says which processes are there.       *)
(***************************************************************************)

\* A process inside wait() is between no two halves of another operation.
WaitersOwn == \A p \in WaitingFor : client[p] = "own"

LInv ==
  /\ client \in [TPriority -> ClientAt]
  /\ WaitersOwn
  /\ LastMessageNotLost

\* What makes LastMessageNotLost true of an unread message.
Remembered ==
  \/ NonEmpty
  \/ \E p \in TPriority : client[p] # "own"
  \/ WaitingFor \ ProcessMap # {}

-----------------------------------------------------------------------------

\* The message's processes use the flag as the flag's own users do.
LEMMA MessageStepIsFlagStep == [MessageNext]_messageVars => [FlagNext]_serviceVars
<1> SUFFICES ASSUME [MessageNext]_messageVars PROVE [FlagNext]_serviceVars
  OBVIOUS
<1>1. CASE UNCHANGED messageVars
  BY <1>1 DEF messageVars
<1>2. CASE MessageCall
  <2>1. PICK p \in TPriority \ {prIDLE} :
          \/ Assign(p) \/ send(p) \/ out(p) \/ reset(p)
          \/ \E t \in timeout_t : wait_message(p, t)
    BY <1>2 DEF MessageCall
  <2>2. CASE Assign(p) \/ out(p)
    BY <2>2 DEF Assign, out
  <2>3. CASE send(p) \/ reset(p) \/ \E t \in timeout_t : wait_message(p, t)
    <3>1. Running(CurProcPriority) /\ CurProcPriority # prIDLE
      BY <2>1, <2>3 DEF send, reset, wait_message, At, Running
    <3>2. FlagCall
      BY <2>3, <3>1 DEF send, reset, wait_message, FlagCall
    <3>3. QED
      BY <3>2 DEF FlagNext
  <2>4. QED
    BY <2>1, <2>2, <2>3
<1>3. CASE \E p \in TPriority : WaitMessageReturns(p)
  BY <1>3 DEF WaitMessageReturns, FlagNext
<1>4. CASE send_isr
  BY <1>4 DEF send_isr, FlagNext
<1>5. CASE OtherSteps
  BY <1>5 DEF OtherSteps, FlagNext
<1>6. QED
  BY <1>1, <1>2, <1>3, <1>4, <1>5 DEF MessageNext

\* The message inherits what is proved of the flag.
LEMMA MessageInvariance == MessageSpec => []FInv
<1>1. MessageInit => FlagInit
  BY DEF MessageInit
<1>2. MessageSpec => FlagSpec
  BY <1>1, MessageStepIsFlagStep, PTL DEF MessageSpec, FlagSpec
<1>3. QED
  BY <1>2, FlagInvariance, PTL

-----------------------------------------------------------------------------
(***************************************************************************)
(* The last message                                                        *)
(***************************************************************************)

\* A signal is kept in the flag or has released somebody.
LEMMA SignalRemembered ==
  ASSUME NoStaleTag,
         \/ resume_all_isr(ProcessMap) /\ UNCHANGED WaitingFor
         \/ Value' = TRUE
  PROVE  Remembered'
<1>1. CASE resume_all_isr(ProcessMap) /\ UNCHANGED WaitingFor
  <2>1. PICK q \in ProcessMap \ ReadyProcessMap : TRUE
    BY <1>1 DEF resume_all_isr
  <2>2. q \in WaitingFor' \ ProcessMap'
    BY <1>1, <2>1 DEF resume_all_isr, Timeouted, NoStaleTag
  <2>3. QED
    BY <2>2 DEF Remembered
<1>2. QED
  BY <1>1 DEF Remembered, NonEmpty

\* One step of a message's user, by the state it finds and the one it leaves.
LEMMA UserInductive ==
  ASSUME FInv, LInv, NEW p \in TPriority \ {prIDLE},
         \/ Assign(p) \/ send(p) \/ out(p) \/ reset(p)
         \/ \E t \in timeout_t : wait_message(p, t)
  PROVE  LInv'
<1> USE DEF ClientAt
<1>1. client \in [TPriority -> ClientAt] /\ WaitersOwn /\ NoStaleTag
  BY DEF LInv, FInv
<1>2. p = CurProcPriority /\ p \notin WaitingFor /\ p \in TPriority
  BY CallerNotWaiting DEF Assign, send, out, reset, wait_message, At, Running
<1>3. client' \in [TPriority -> ClientAt]
  BY <1>1 DEF Assign, send, out, reset, wait_message, GoesTo
<1>4. ASSUME UNCHANGED WaitingFor PROVE WaitersOwn'
  <2>1. \A q \in TPriority \ {p} : client'[q] = client[q]
    BY <1>1 DEF Assign, send, out, reset, wait_message, GoesTo
  <2>2. WaitingFor \subseteq TPriority \ {p}
    BY <1>2 DEF FInv, WaitersInSched, KInv, TypeOK
  <2>3. QED
    BY <1>1, <1>4, <2>1, <2>2 DEF WaitersOwn
<1>5. CASE Assign(p)
  <2>1. client'[p] = "assigned"
    BY <1>1, <1>5 DEF Assign, GoesTo
  <2>2. UNCHANGED WaitingFor
    BY <1>5 DEF Assign, serviceVars, flagVars
  <2>3. QED
    BY <1>2, <1>3, <1>4, <2>1, <2>2 DEF LInv, LastMessageNotLost
<1>6. CASE send(p)
  <2>1. UNCHANGED WaitingFor
    BY <1>6 DEF send, signal
  <2>2. Remembered'
    BY <1>1, <1>6, SignalRemembered DEF send, signal, resume_all
  <2>3. QED
    BY <1>3, <1>4, <2>1, <2>2 DEF LInv, LastMessageNotLost, Remembered
<1>7. CASE out(p) \/ reset(p)
  <2>1. Msg' # "unread"
    BY <1>7 DEF out, reset
  <2>2. UNCHANGED WaitingFor
    BY <1>7 DEF out, reset, clear, serviceVars, flagVars
  <2>3. QED
    BY <1>3, <1>4, <2>1, <2>2 DEF LInv, LastMessageNotLost
<1>8. CASE \E t \in timeout_t : wait_message(p, t)
  <2>1. PICK t \in timeout_t : wait_message(p, t)
    BY <1>8
  <2>2. CASE Value
    <3>1. client'[p] = "told" /\ UNCHANGED WaitingFor
      BY <1>1, <2>1, <2>2 DEF wait_message, wait, GoesTo, NonEmpty
    <3>2. QED
      BY <1>2, <1>3, <1>4, <3>1 DEF LInv, LastMessageNotLost
  <2>3. CASE ~Value
    <3>1. /\ WaitingFor' = WaitingFor \cup {p}
          /\ ProcessMap' = ProcessMap \cup {p}
          /\ UNCHANGED <<Value, Msg, client>>
      BY <1>1, <1>2, <2>1, <2>3
      DEF wait_message, wait, suspend, GoesTo, NonEmpty, At
    <3>2. client[p] = "own"
      BY <2>1 DEF wait_message, At
    <3>3. WaitingFor \ ProcessMap \subseteq WaitingFor' \ ProcessMap'
      BY <1>2, <3>1
    <3>4. QED
      BY <1>1, <3>1, <3>2, <3>3 DEF LInv, LastMessageNotLost, NonEmpty, WaitersOwn
  <2>4. QED
    BY <2>2, <2>3
<1>9. QED
  BY <1>5, <1>6, <1>7, <1>8

\* A waiter comes back with the news, or without having been meant by it.
LEMMA ReturnInductive ==
  ASSUME FInv, LInv, NEW p \in TPriority, WaitMessageReturns(p)
  PROVE  LInv'
<1>1. /\ client \in [TPriority -> ClientAt] /\ WaitersOwn
      /\ p \in WaitingFor /\ client[p] = "own" /\ p = CurProcPriority
      /\ WaitingFor' = WaitingFor \ {p}
      /\ UNCHANGED <<Value, Msg>>
  BY DEF LInv, WaitMessageReturns, WaitReturns, WaitersOwn, LeavesSched
<1>2. WaitersOwn' /\ client' \in [TPriority -> ClientAt]
  BY <1>1 DEF WaitMessageReturns, GoesTo, WaitersOwn, ClientAt, FInv, KInv, TypeOK,
     WaitersInSched
<1>3. CASE p \in ProcessMap
  <2>1. ProcessMap' = ProcessMap \ {p} /\ client' = client
    BY <1>1, <1>3 DEF WaitMessageReturns, WaitReturns, is_timeouted, GoesTo
  <2>2. WaitingFor' \ ProcessMap' = WaitingFor \ ProcessMap
    BY <1>1, <1>3, <2>1
  <2>3. QED
    BY <1>1, <1>2, <2>1, <2>2 DEF LInv, LastMessageNotLost, NonEmpty
<1>4. CASE p \notin ProcessMap
  <2>1. client'[p] = "told"
    BY <1>1, <1>4 DEF WaitMessageReturns, is_timeouted, GoesTo
  <2>2. QED
    BY <1>2, <2>1 DEF LInv, LastMessageNotLost
<1>5. QED
  BY <1>3, <1>4

\* Every step of a message keeps its invariant, given that of the flag.
LEMMA MessageNextInductive ==
  FInv /\ LInv /\ [MessageNext]_messageVars => LInv'
<1> SUFFICES ASSUME FInv, LInv, [MessageNext]_messageVars PROVE LInv'
  OBVIOUS
<1>1. ASSUME UNCHANGED <<flagVars, Msg, client>> PROVE LInv'
  BY <1>1 DEF flagVars, LInv, WaitersOwn, LastMessageNotLost, NonEmpty
<1>2. CASE MessageCall
  BY <1>2, UserInductive DEF MessageCall
<1>3. CASE \E p \in TPriority : WaitMessageReturns(p)
  BY <1>3, ReturnInductive
<1>4. CASE send_isr
  <2>1. UNCHANGED <<WaitingFor, client>>
    BY <1>4 DEF send_isr, SignalISR, signal_isr
  <2>2. Remembered'
    BY <1>4, SignalRemembered DEF send_isr, SignalISR, signal_isr, FInv
  <2>3. QED
    BY <2>1, <2>2 DEF LInv, WaitersOwn, LastMessageNotLost, Remembered
<1>5. CASE OtherSteps
  BY <1>1, <1>5 DEF OtherSteps, OtherCall, OtherReturns, OtherISR, KernelHandlers
<1>6. CASE UNCHANGED messageVars
  BY <1>1, <1>6 DEF messageVars, serviceVars
<1>7. QED
  BY <1>2, <1>3, <1>4, <1>5, <1>6 DEF MessageNext

-----------------------------------------------------------------------------
(***************************************************************************)
(* The theorems                                                            *)
(***************************************************************************)

\* No message is left in the cell with nobody told of it, whichever of the two
\* halves of a sender or a receiver is interrupted, and by whom.
THEOREM MessageNotLost == MessageSpec => []LastMessageNotLost
<1>1. MessageInit => LInv
  BY DEF MessageInit, FlagInit, LInv, ClientAt, WaitersOwn, LastMessageNotLost
<1>2. LInv => LastMessageNotLost
  BY DEF LInv
<1>3. QED
  BY <1>1, <1>2, MessageInvariance, MessageNextInductive, PTL DEF MessageSpec

\* A message's flag is an event flag: whatever is proved of the flag, above all
\* that it implements the abstract one, holds of it.
THEOREM MessageIsFlag == MessageSpec => ImplementsFlag
<1>1. MessageInit => FlagInit
  BY DEF MessageInit
<1>2. MessageSpec => FlagSpec
  BY <1>1, MessageStepIsFlagStep, PTL DEF MessageSpec, FlagSpec
<1>3. QED
  BY <1>2, FlagImplements, PTL

-----------------------------------------------------------------------------
(***************************************************************************)
(* SerialPort                                                              *)
(***************************************************************************)

\* Comms is the only one to wait for the flag.
OnlyCommsWaits == WaitingFor = IF comAt = "waiting" THEN {Comms} ELSE {}

\* Between the test of the ring and the wait, the flag remembers what comes.
FlagRemembers == comAt = "empty" /\ ~RingEmpty => Value

SInv ==
  /\ FInv
  /\ OnlyCommsWaits
  /\ FlagRemembers
  /\ NoSleepWithData

InTick == exc \in {"tick_body", "tick_exit"}

\* While GUI is ready it is loaded, or about to be, but for the middle of a
\* tick, which has not looked yet.
GUILoaded ==
  ~InTick /\ pr0 \in ReadyProcessMap =>
    IF SwitchPending THEN SchedProcPriority = pr0 ELSE CurProcPriority = pr0

\* A tick that interrupts GUI has no switch before it.
TickOfGUI ==
  exc \in {"tick_enter", "tick_body", "tick_exit"} /\ CurProcPriority = pr0 =>
    pr0 \in ReadyProcessMap /\ ~pendSV

GInv ==
  /\ SInv
  /\ GUILoaded
  /\ TickOfGUI

-----------------------------------------------------------------------------

\* GUI and Comms are two processes, and neither is idle.
LEMMA CommsRange ==
  /\ pr0 \in TPriority /\ pr0 # prIDLE
  /\ Comms \in TPriority /\ Comms # prIDLE /\ Comms # pr0
BY KernelAssumption, SerialAssumption DEF TPriority, pr0, prIDLE, Comms

\* The idle process never has a timeout.
LEMMA IdleUntimed ==
  ASSUME FInv
  PROVE  Timeout[prIDLE] = 0
BY DEF FInv, KInv, IdleReady, OverdueReleased, Overdue, WaitersInSched

\* An interrupt with no byte for the ring wakes nobody, which the kernel cannot
\* tell from one that wakes the idle process.
LEMMA EmptyISR ==
  ASSUME FInv, TISRW, UNCHANGED <<ReadyProcessMap, Timeout, flagVars>>
  PROVE  OtherISR
<1>1. prIDLE \in TPriority /\ prIDLE \in ReadyProcessMap
      /\ Timeout \in [TPriority -> timeout_t]
  BY CommsRange, KernelAssumption
  DEF FInv, KInv, IdleReady, TypeOK, TPriority, prIDLE, pr0
<1>2. set_awake(prIDLE)
  BY <1>1, IdleUntimed DEF set_awake
<1>3. QED
  BY <1>1, <1>2 DEF OtherISR, DeviceISR

\* The program uses the flag as the flag's own users do.
LEMMA SerialStepIsFlagStep ==
  FInv /\ OnlyCommsWaits /\ [SerialNext]_serialVars => [FlagNext]_serviceVars
<1> SUFFICES ASSUME FInv, OnlyCommsWaits, [SerialNext]_serialVars
             PROVE  [FlagNext]_serviceVars
  OBVIOUS
<1>1. CASE UNCHANGED serialVars
  BY <1>1 DEF serialVars
<1>2. CASE usart1_isr
  <2>1. TISRW
    BY <1>2 DEF usart1_isr
  <2>2. \/ signal_isr
        \/ UNCHANGED <<ReadyProcessMap, Timeout, flagVars>>
    BY <1>2 DEF usart1_isr, com_rx
  <2>3. SignalISR \/ OtherISR
    BY <2>1, <2>2, EmptyISR DEF SignalISR
  <2>4. QED
    BY <2>3 DEF FlagNext
<1>3. CASE com_getc_check \/ com_getc_take
  BY <1>3 DEF com_getc_check, com_getc_take
<1>4. CASE com_getc_wait
  <2>1. Running(CurProcPriority) /\ CurProcPriority # prIDLE /\ wait(0)
    BY <1>4, CommsRange DEF com_getc_wait, Running
  <2>2. 0 \in timeout_t
    BY KernelAssumption DEF timeout_t
  <2>3. FlagCall
    BY <2>1, <2>2 DEF FlagCall
  <2>4. QED
    BY <2>3 DEF FlagNext
<1>5. CASE com_getc_resume
  BY <1>5, CommsRange DEF com_getc_resume, FlagNext
<1>6. CASE OthersSleep
  BY <1>6 DEF OthersSleep, FlagNext, OtherCall, ProcessCall
<1>7. CASE OthersResume
  <2>1. PICK p \in TPriority \ {Comms} : SchedReturns(p)
    BY <1>7 DEF OthersResume
  <2>2. p \in TPriority \ WaitingFor
    BY <2>1 DEF OnlyCommsWaits
  <2>3. OtherReturns
    BY <1>7, <2>1, <2>2 DEF OthersResume, OtherReturns
  <2>4. QED
    BY <2>3 DEF FlagNext
<1>8. CASE TickEntry \/ Tick \/ Switch
  BY <1>8 DEF TickEntry, Tick, Switch, KernelHandlers, FlagNext
<1>9. QED
  BY <1>1, <1>2, <1>3, <1>4, <1>5, <1>6, <1>7, <1>8 DEF SerialNext, com_getc

-----------------------------------------------------------------------------
(***************************************************************************)
(* No lost wakeup                                                          *)
(***************************************************************************)

\* The invariant holds at the start.
LEMMA SerialInitInductive == SerialInit => GInv
<1> SUFFICES ASSUME SerialInit PROVE GInv
  OBVIOUS
<1>1. FInv
  BY FlagInitInductive DEF SerialInit
<1>2. QED
  BY <1>1 DEF SerialInit, FlagInit, KernelInit, GInv, SInv, OnlyCommsWaits,
     FlagRemembers, NoSleepWithData, GUILoaded, TickOfGUI, SwitchPending

\* A byte for the ring finds Comms blocked, and wakes it, or raises the flag.
LEMMA ByteInductive ==
  ASSUME SInv, usart1_isr
  PROVE  OnlyCommsWaits' /\ FlagRemembers' /\ NoSleepWithData'
<1>1. OnlyCommsWaits /\ FlagRemembers /\ NoSleepWithData /\ NoStaleTag
  BY DEF SInv, FInv
<1>2. UNCHANGED <<WaitingFor, comAt>>
  BY DEF usart1_isr, com_rx, signal_isr, flagVars
<1>3. OnlyCommsWaits'
  BY <1>1, <1>2 DEF OnlyCommsWaits
<1>4. CASE UNCHANGED <<ringVars, ReadyProcessMap, flagVars>>
  BY <1>1, <1>2, <1>3, <1>4
  DEF ringVars, flagVars, FlagRemembers, NoSleepWithData, RingEmpty
<1>5. CASE signal_isr
  <2>1. CASE resume_all_isr(ProcessMap)
    <3>1. Comms \in ProcessMap => Comms \in ReadyProcessMap'
      BY <2>1 DEF resume_all_isr
    <3>2. ProcessMap' \subseteq ProcessMap /\ ProcessMap # {}
      BY <2>1 DEF resume_all_isr, Timeouted
    <3>3. comAt # "empty"
      BY <1>1, <3>2 DEF OnlyCommsWaits, NoStaleTag
    <3>4. QED
      BY <1>2, <1>3, <3>1, <3>2, <3>3 DEF FlagRemembers, NoSleepWithData
  <2>2. CASE NobodyToResume(ProcessMap) /\ Value' = TRUE
             /\ UNCHANGED <<ReadyProcessMap, ProcessMap>>
    BY <1>3, <2>2 DEF NobodyToResume, FlagRemembers, NoSleepWithData
  <2>3. QED
    BY <1>5, <2>1, <2>2 DEF signal_isr
<1>6. QED
  BY <1>4, <1>5 DEF usart1_isr, com_rx, ringVars

\* com_getc blocks only if the ring is empty.
LEMMA GetcInductive ==
  ASSUME SInv, com_getc
  PROVE  OnlyCommsWaits' /\ FlagRemembers' /\ NoSleepWithData'
<1>1. OnlyCommsWaits /\ FlagRemembers /\ NoStaleTag
  BY DEF SInv, FInv
<1>2. ASSUME Running(Comms) PROVE Comms \notin ProcessMap /\ WaitingFor = {}
  <2>1. Comms = CurProcPriority
    BY <1>2 DEF Running
  <2>2. QED
    BY <1>1, <1>2, <2>1, CallerNotWaiting DEF SInv, OnlyCommsWaits
<1>3. CASE com_getc_check \/ com_getc_take
  <2>1. Running(Comms) /\ comAt # "waiting" /\ comAt' # "waiting"
        /\ UNCHANGED <<ProcessMap, WaitingFor>>
    BY <1>3 DEF com_getc_check, com_getc_take, serviceVars, flagVars
  <2>2. comAt' = "empty" => RingEmpty'
    BY <1>3 DEF com_getc_check, com_getc_take, ringVars, RingEmpty
  <2>3. QED
    BY <1>2, <2>1, <2>2 DEF OnlyCommsWaits, FlagRemembers, NoSleepWithData
<1>4. CASE com_getc_wait
  <2>1. Running(Comms) /\ Comms = CurProcPriority /\ UNCHANGED ringVars
        /\ comAt' = IF Value THEN "recheck" ELSE "waiting"
    BY <1>4 DEF com_getc_wait, Running
  <2>2. CASE Value
    <3>1. UNCHANGED <<ProcessMap, WaitingFor>>
      BY <1>4, <2>2 DEF com_getc_wait, wait
    <3>2. QED
      BY <1>2, <2>1, <2>2, <3>1 DEF OnlyCommsWaits, FlagRemembers, NoSleepWithData
  <2>3. CASE ~Value
    <3>1. WaitingFor' = WaitingFor \cup {Comms}
      BY <1>4, <2>1, <2>3 DEF com_getc_wait, wait
    <3>2. RingEmpty'
      BY <1>1, <1>4, <2>1, <2>3 DEF com_getc_wait, FlagRemembers, RingEmpty, ringVars
    <3>3. QED
      BY <1>2, <2>1, <2>3, <3>1, <3>2
      DEF OnlyCommsWaits, FlagRemembers, NoSleepWithData
  <2>4. QED
    BY <2>2, <2>3
<1>5. CASE com_getc_resume
  <2>1. Comms \in WaitingFor /\ WaitingFor' = WaitingFor \ {Comms}
        /\ comAt' = "recheck"
    BY <1>5 DEF com_getc_resume, WaitReturns
  <2>2. Comms \notin ProcessMap'
    BY <1>5 DEF com_getc_resume, WaitReturns, is_timeouted, LeavesSched
  <2>3. QED
    BY <1>1, <2>1, <2>2 DEF OnlyCommsWaits, FlagRemembers, NoSleepWithData
<1>6. QED
  BY <1>3, <1>4, <1>5 DEF com_getc

\* What the others do leaves Comms as ready as it was.
LEMMA OthersInductive ==
  ASSUME SInv, OthersSleep \/ OthersResume \/ TickEntry \/ Tick \/ Switch
  PROVE  OnlyCommsWaits' /\ FlagRemembers' /\ NoSleepWithData'
<1>1. UNCHANGED <<flagVars, ringVars, comAt>>
  BY DEF OthersSleep, OthersResume, TickEntry, Tick, Switch
<1>2. Comms \in ReadyProcessMap => Comms \in ReadyProcessMap'
  BY DEF OthersSleep, sleep, OthersResume, SchedReturns, TickEntry, SysTickEntry, Tick,
         SysTick, ISR_Enter, system_timer, ISR_Exit, Switch, PendSV, PendSVEntry,
         context_switch_hook
<1>3. QED
  BY <1>1, <1>2 DEF SInv, flagVars, ringVars, OnlyCommsWaits, FlagRemembers,
     NoSleepWithData, RingEmpty

\* Every step keeps what the receiver relies on.
LEMMA SerialNextInductive == SInv /\ [SerialNext]_serialVars => SInv'
<1> SUFFICES ASSUME SInv, [SerialNext]_serialVars PROVE SInv'
  OBVIOUS
<1>1. FInv'
  BY SerialStepIsFlagStep, FlagNextInductive DEF SInv
<1>2. CASE UNCHANGED serialVars
  BY <1>1, <1>2 DEF serialVars, serviceVars, kernelVars, flagVars, ringVars, SInv,
     OnlyCommsWaits, FlagRemembers, NoSleepWithData, RingEmpty
<1>3. CASE SerialNext
  BY <1>1, <1>3, ByteInductive, GetcInductive, OthersInductive DEF SerialNext, SInv
<1>4. QED
  BY <1>2, <1>3

-----------------------------------------------------------------------------
(***************************************************************************)
(* GUI first                                                               *)
(***************************************************************************)

\* GUI is the highest there is.
LEMMA TopHighest ==
  ASSUME NEW pm \in SUBSET TPriority, pr0 \in pm
  PROVE  highest_priority(pm) = pr0
<1>1. /\ highest_priority(pm) \in TPriority
      /\ pr0 <= highest_priority(pm)
  BY HighestPriority
<1>2. QED
  BY <1>1, KernelAssumption DEF TPriority, pr0, prIDLE

\* Every step leaves GUI, if it is ready, loaded or about to be.
LEMMA GUIInductive ==
  ASSUME GInv, SInv', SerialNext
  PROVE  GUILoaded' /\ TickOfGUI'
<1> USE DEF SwitchPending, InTick
<1>1. /\ GUILoaded /\ TickOfGUI
      /\ TypeOK /\ NestCountExact /\ LoadedReady
      /\ ProcessMap \subseteq {Comms}
  BY DEF GInv, SInv, FInv, KInv, NoStaleTag, OnlyCommsWaits
<1>2. TypeOK' /\ ReadyProcessMap' \in SUBSET TPriority
  BY DEF SInv, FInv, KInv, TypeOK
<1>3. pr0 \in ReadyProcessMap' => highest_priority(ReadyProcessMap') = pr0
  BY <1>2, TopHighest
<1>4. CASE usart1_isr
  <2>1. /\ TISRW
        /\ pr0 \in ReadyProcessMap' <=> pr0 \in ReadyProcessMap
    BY <1>1, <1>4, CommsRange DEF usart1_isr, com_rx, signal_isr, resume_all_isr
  <2>2. UNCHANGED <<CurProcPriority, exc>>
    BY <2>1 DEF TISRW
  <2>3. CASE ISR_NestCount # 0
    BY <1>1, <2>1, <2>2, <2>3 DEF TISRW, schedVars, GUILoaded, TickOfGUI
  <2>4. CASE ISR_NestCount = 0
    <3>1. CASE pr0 \in ReadyProcessMap'
      <4>1. IF CurProcPriority # pr0
              THEN SchedProcPriority' = pr0 /\ pendSV' = TRUE
              ELSE UNCHANGED <<SchedProcPriority, pendSV>>
        BY <1>3, <2>1, <2>4, <3>1 DEF TISRW, sched_isr, schedVars
      <4>2. QED
        BY <1>1, <2>1, <2>2, <3>1, <4>1 DEF GUILoaded, TickOfGUI
    <3>2. CASE pr0 \notin ReadyProcessMap'
      BY <1>1, <2>1, <2>2, <3>2 DEF GUILoaded, TickOfGUI
    <3>3. QED
      BY <3>1, <3>2
  <2>5. QED
    BY <2>3, <2>4
<1>5. ASSUME InThread, CurProcPriority # pr0,
             ReadyProcessMap' \subseteq ReadyProcessMap,
             UNCHANGED <<CurProcPriority, exc>>
      PROVE  GUILoaded' /\ TickOfGUI'
  BY <1>1, <1>5 DEF InThread, GUILoaded, TickOfGUI
<1>6. ASSUME InThread, UNCHANGED <<CurProcPriority, SchedProcPriority,
                                   ReadyProcessMap, pendSV, exc>>
      PROVE  GUILoaded' /\ TickOfGUI'
  BY <1>1, <1>6 DEF InThread, GUILoaded, TickOfGUI
<1>7. CASE com_getc
  <2>1. InThread /\ CurProcPriority # pr0 /\ UNCHANGED <<CurProcPriority, exc>>
        /\ ReadyProcessMap' \subseteq ReadyProcessMap
    BY <1>7, CommsRange DEF com_getc, com_getc_check, com_getc_wait, com_getc_resume,
       com_getc_take, Running, wait, suspend, WaitReturns, LeavesSched, serviceVars,
       kernelVars
  <2>2. QED
    BY <1>5, <2>1
<1>8. CASE OthersSleep
  <2>1. InThread /\ UNCHANGED <<CurProcPriority, exc>>
        /\ ReadyProcessMap' = ReadyProcessMap \ {CurProcPriority}
    BY <1>8 DEF OthersSleep, Running, sleep
  <2>2. CASE CurProcPriority = pr0
    BY <2>1, <2>2 DEF InThread, GUILoaded, TickOfGUI
  <2>3. QED
    BY <1>5, <2>1, <2>2
<1>9. CASE OthersResume
  BY <1>6, <1>9 DEF OthersResume, SchedReturns, LeavesSched
<1>10. CASE TickEntry
  BY <1>1, <1>10
  DEF TickEntry, SysTickEntry, InThread, GUILoaded, TickOfGUI, LoadedReady
<1>11. CASE Tick
  <2>1. CASE ISR_Enter
    BY <1>1, <2>1 DEF ISR_Enter, GUILoaded, TickOfGUI
  <2>2. CASE system_timer
    BY <1>1, <2>2 DEF system_timer, GUILoaded, TickOfGUI
  <2>3. CASE ISR_Exit
    <3>1. ISR_NestCount' = 0 /\ sched_isr /\ exc' = "thread" /\ exc = "tick_exit"
          /\ UNCHANGED <<ReadyProcessMap, CurProcPriority>>
      BY <1>1, <2>3 DEF ISR_Exit, NestCountExact
    <3>2. CASE pr0 \in ReadyProcessMap
      BY <1>1, <1>3, <3>1, <3>2 DEF sched_isr, schedVars, GUILoaded, TickOfGUI
    <3>3. CASE pr0 \notin ReadyProcessMap
      BY <3>1, <3>3 DEF GUILoaded, TickOfGUI
    <3>4. QED
      BY <3>2, <3>3
  <2>4. QED
    BY <1>11, <2>1, <2>2, <2>3 DEF Tick, SysTick
<1>12. CASE Switch
  <2>1. CASE PendSVEntry
    BY <1>1, <2>1 DEF PendSVEntry, GUILoaded, TickOfGUI
  <2>2. CASE context_switch_hook
    BY <1>1, <2>2 DEF context_switch_hook, GUILoaded, TickOfGUI
  <2>3. QED
    BY <1>12, <2>1, <2>2 DEF Switch, PendSV
<1>13. QED
  BY <1>4, <1>7, <1>8, <1>9, <1>10, <1>11, <1>12 DEF SerialNext

-----------------------------------------------------------------------------
(***************************************************************************)
(* The theorems                                                            *)
(***************************************************************************)

\* The invariant holds in every state.
LEMMA SerialInvariance == SerialSpec => []GInv
<1>1. GInv /\ [SerialNext]_serialVars => GInv'
  <2> SUFFICES ASSUME GInv, [SerialNext]_serialVars PROVE GInv'
    OBVIOUS
  <2>1. SInv'
    BY SerialNextInductive DEF GInv
  <2>2. CASE SerialNext
    BY <2>1, <2>2, GUIInductive DEF GInv
  <2>3. CASE UNCHANGED serialVars
    BY <2>1, <2>3 DEF serialVars, serviceVars, kernelVars, GInv, GUILoaded, InTick,
       TickOfGUI, SwitchPending
  <2>4. QED
    BY <2>2, <2>3
<1>2. QED
  BY <1>1, SerialInitInductive, PTL DEF SerialSpec

\* Comms is never left blocked with a byte in the ring, wherever the byte comes
\* between the test of the ring and the wait.
THEOREM WakeupsNotLost == SerialSpec => []NoSleepWithData
<1>1. GInv => NoSleepWithData
  BY DEF GInv, SInv
<1>2. QED
  BY <1>1, SerialInvariance, PTL

\* Comms never runs while GUI is ready, so that UI::tick may read without a lock
\* what decode writes.
THEOREM GUIAlwaysFirst == SerialSpec => []GUIFirst
<1>1. GInv => GUIFirst
  BY DEF GInv, GUILoaded, InTick, SwitchPending, GUIFirst, InThread
<1>2. QED
  BY <1>1, SerialInvariance, PTL

\* The receiver's steps are steps of a flag's users.
LEMMA ReceiverIsFlag == SerialSpec => FlagSpec
<1>1. SerialInit => FlagInit
  BY DEF SerialInit
<1>2. GInv => FInv /\ OnlyCommsWaits
  BY DEF GInv, SInv
<1>3. QED
  BY <1>1, <1>2, SerialInvariance, SerialStepIsFlagStep, PTL DEF SerialSpec, FlagSpec

\* The receiver's flag is an event flag, though interrupts come in the middle of
\* everything the program does.
THEOREM ReceiverUsesFlag == SerialSpec => ImplementsFlag
BY ReceiverIsFlag, FlagImplements, PTL

\* And the kernel under the program of EBLmon keeps its guarantees.
THEOREM KernelUnderReceiver ==
  SerialSpec => []KernelSound /\ SleepIsTimed /\ TickEndsInversion
BY ReceiverIsFlag, KernelUnderFlag, PTL

-----------------------------------------------------------------------------
(***************************************************************************)
(* The ring is a lossy queue                                               *)
(***************************************************************************)

\* The remainder of a number that is less than twice the ring's size.
LEMMA ModWrap ==
  ASSUME NEW n \in Nat \ {0}, NEW a \in Int, -n <= a, a < 2 * n
  PROVE  a % n = IF a < 0 THEN a + n ELSE IF a < n THEN a ELSE a - n
<1>1. CASE a < 0
  BY <1>1, SMTT(30)
<1>2. CASE 0 <= a /\ a < n
  BY <1>2, SMTT(30)
<1>3. CASE n <= a
  BY <1>3, SMTT(30)
<1>4. QED
  BY <1>1, <1>2, <1>3

QueueLength == (_rx_tail - _rx_head) % _rx_buf_size

\* Where the item k places behind the head is.
SlotOf(k) == (_rx_head + k) % _rx_buf_size

RingInv ==
  /\ _rx_buf \in [Slot -> Byte]
  /\ _rx_head \in Slot
  /\ _rx_tail \in Slot
  /\ comAt = "avail" => ~RingEmpty

\* The number of bytes between two indices of the ring.
LEMMA LengthIs ==
  ASSUME NEW h \in Slot, NEW t \in Slot
  PROVE  /\ (t - h) % _rx_buf_size = IF h <= t THEN t - h ELSE t - h + _rx_buf_size
         /\ (t - h) % _rx_buf_size \in 0 .. (_rx_buf_size - 1)
<1>1. /\ _rx_buf_size \in Nat \ {0, 1} /\ h \in Int /\ t \in Int
      /\ 0 <= h /\ h < _rx_buf_size /\ 0 <= t /\ t < _rx_buf_size
  BY SerialAssumption DEF Slot
<1> DEFINE d == t - h
<1>2. /\ d \in Int /\ -_rx_buf_size <= d /\ d < 2 * _rx_buf_size /\ d < _rx_buf_size
      /\ _rx_buf_size \in Nat \ {0}
  BY <1>1
<1>3. d % _rx_buf_size = IF d < 0 THEN d + _rx_buf_size ELSE d
  <2> HIDE DEF d
  <2>1. d % _rx_buf_size = IF d < 0 THEN d + _rx_buf_size
                           ELSE IF d < _rx_buf_size THEN d ELSE d - _rx_buf_size
    BY <1>2, ModWrap, Zenon
  <2>2. QED
    BY <1>2, <2>1
<1>4. QED
  BY <1>1, <1>3

\* The slot k bytes behind the head.
LEMMA SlotIs ==
  ASSUME NEW h \in Slot, NEW k \in 0 .. (_rx_buf_size - 1)
  PROVE  /\ (h + k) % _rx_buf_size =
              IF h + k < _rx_buf_size THEN h + k ELSE h + k - _rx_buf_size
         /\ (h + k) % _rx_buf_size \in Slot
<1>1. /\ _rx_buf_size \in Nat \ {0, 1} /\ h \in Int /\ k \in Int
      /\ 0 <= h /\ h < _rx_buf_size /\ 0 <= k /\ k < _rx_buf_size
  BY SerialAssumption DEF Slot
<1> DEFINE e == h + k
<1>2. /\ e \in Int /\ -_rx_buf_size <= e /\ e < 2 * _rx_buf_size /\ 0 <= e
      /\ _rx_buf_size \in Nat \ {0}
  BY <1>1
<1>3. e % _rx_buf_size = IF e < _rx_buf_size THEN e ELSE e - _rx_buf_size
  <2> HIDE DEF e
  <2>1. e % _rx_buf_size = IF e < 0 THEN e + _rx_buf_size
                           ELSE IF e < _rx_buf_size THEN e ELSE e - _rx_buf_size
    BY <1>2, ModWrap, Zenon
  <2>2. QED
    BY <1>2, <2>1
<1>4. QED
  BY <1>1, <1>2, <1>3 DEF Slot

\* An index goes up by one, or back to 0 at the end.
LEMMA NextSlot ==
  ASSUME NEW i \in Slot
  PROVE  /\ next_slot(i) = IF i + 1 = _rx_buf_size THEN 0 ELSE i + 1
         /\ next_slot(i) \in Slot
<1>1. 1 \in 0 .. (_rx_buf_size - 1)
  BY SerialAssumption
<1>2. /\ next_slot(i) = IF i + 1 < _rx_buf_size THEN i + 1 ELSE i + 1 - _rx_buf_size
      /\ next_slot(i) \in Slot
  BY <1>1, SlotIs DEF next_slot
<1>3. _rx_buf_size \in Int /\ i \in Int /\ i < _rx_buf_size
  BY SerialAssumption DEF Slot
<1>4. QED
  BY <1>2, <1>3

\* The queue as a sequence.
LEMMA QueuedIs ==
  ASSUME RingInv
  PROVE  /\ Queued = [i \in 1 .. QueueLength |-> _rx_buf[SlotOf(i - 1)]]
         /\ Queued \in Seq(Byte)
         /\ Len(Queued) = QueueLength
         /\ QueueLength \in 0 .. (_rx_buf_size - 1)
<1>1. QueueLength \in 0 .. (_rx_buf_size - 1) /\ QueueLength \in Nat
  BY LengthIs, SerialAssumption DEF RingInv, QueueLength
<1>2. \A i \in 1 .. QueueLength :
        (_rx_head + i - 1) % _rx_buf_size = SlotOf(i - 1)
  <2>1. \A i \in 1 .. QueueLength : _rx_head + i - 1 = _rx_head + (i - 1)
    BY <1>1, SerialAssumption DEF RingInv, Slot
  <2>2. QED
    BY <2>1 DEF SlotOf
<1>3. Queued = [i \in 1 .. QueueLength |-> _rx_buf[SlotOf(i - 1)]]
  BY <1>2 DEF Queued, QueueLength
<1>4. \A i \in 1 .. QueueLength : _rx_buf[SlotOf(i - 1)] \in Byte
  <2>1. \A i \in 1 .. QueueLength : i - 1 \in 0 .. (_rx_buf_size - 1)
    BY <1>1, SerialAssumption
  <2>2. QED
    BY <2>1, SlotIs DEF RingInv, SlotOf
<1>5. QED
  BY <1>1, <1>3, <1>4

\* The ring's type, and that com_getc does not take from an empty one.
LEMMA RingInductive ==
  RingInv /\ [SerialNext]_serialVars => RingInv'
<1> SUFFICES ASSUME RingInv, [SerialNext]_serialVars PROVE RingInv'
  OBVIOUS
<1>1. CASE UNCHANGED <<ringVars, comAt>>
  BY <1>1 DEF ringVars, RingInv, RingEmpty
<1>2. CASE usart1_isr
  <2>1. ASSUME NEW b \in Byte, com_rx(b), ~RingFull, UNCHANGED comAt PROVE RingInv'
    <3>1. next_slot(_rx_tail) \in Slot /\ next_slot(_rx_tail) # _rx_head
      BY <2>1, NextSlot DEF RingInv, RingFull
    <3>2. QED
      BY <2>1, <3>1 DEF com_rx, RingInv, RingEmpty
  <2>2. QED
    BY <1>1, <1>2, <2>1 DEF usart1_isr, com_rx, ringVars
<1>3. CASE com_getc_take
  BY <1>3, NextSlot DEF com_getc_take, RingInv
<1>4. CASE com_getc_check \/ com_getc_wait \/ com_getc_resume
  BY <1>4 DEF com_getc_check, com_getc_wait, com_getc_resume, ringVars, RingInv,
     RingEmpty
<1>5. CASE OthersSleep \/ OthersResume \/ TickEntry \/ Tick \/ Switch
  BY <1>1, <1>5 DEF OthersSleep, OthersResume, TickEntry, Tick, Switch
<1>6. QED
  BY <1>1, <1>2, <1>3, <1>4, <1>5 DEF SerialNext, com_getc, serialVars

\* com_rx puts its byte at the end, if there is room.
LEMMA PutsLast ==
  ASSUME RingInv, RingInv', ~RingFull, NEW b \in Byte,
         _rx_buf' = [_rx_buf EXCEPT ![_rx_tail] = b],
         _rx_tail' = next_slot(_rx_tail),
         UNCHANGED _rx_head
  PROVE  Queued' = Append(Queued, b) /\ Len(Queued) < _rx_buf_size - 1
<1> DEFINE n == QueueLength
<1>1. /\ _rx_buf_size \in Nat \ {0, 1}
      /\ _rx_head \in Slot /\ _rx_tail \in Slot
      /\ n = IF _rx_head <= _rx_tail THEN _rx_tail - _rx_head
                                     ELSE _rx_tail - _rx_head + _rx_buf_size
      /\ n \in 0 .. (_rx_buf_size - 1)
  BY LengthIs, SerialAssumption DEF RingInv, QueueLength
<1>2. /\ _rx_tail' = IF _rx_tail + 1 = _rx_buf_size THEN 0 ELSE _rx_tail + 1
      /\ _rx_tail' # _rx_head
  BY <1>1, NextSlot DEF RingFull
<1>3. n < _rx_buf_size - 1 /\ QueueLength' = n + 1
  <2>1. QueueLength' = IF _rx_head <= _rx_tail' THEN _rx_tail' - _rx_head
                       ELSE _rx_tail' - _rx_head + _rx_buf_size
    BY LengthIs DEF RingInv, QueueLength
  <2>2. QED
    BY <1>1, <1>2, <2>1 DEF Slot
<1>4. \A k \in 0 .. (_rx_buf_size - 1) :
        /\ SlotOf(k) = IF _rx_head + k < _rx_buf_size
                         THEN _rx_head + k ELSE _rx_head + k - _rx_buf_size
        /\ SlotOf(k) \in Slot
  BY <1>1, SlotIs DEF SlotOf
<1>5. /\ SlotOf(n) = _rx_tail
      /\ \A k \in 0 .. (n - 1) : SlotOf(k) \in Slot /\ SlotOf(k) # _rx_tail
  <2>1. /\ _rx_head \in Int /\ 0 <= _rx_head /\ _rx_head < _rx_buf_size
        /\ _rx_tail \in Int /\ 0 <= _rx_tail /\ _rx_tail < _rx_buf_size
    BY <1>1 DEF Slot
  <2>2. SlotOf(n) = _rx_tail
    BY <1>1, <1>4, <2>1
  <2>3. ASSUME NEW k \in 0 .. (n - 1) PROVE SlotOf(k) \in Slot /\ SlotOf(k) # _rx_tail
    <3>1. k \in 0 .. (_rx_buf_size - 1) /\ k \in Int /\ 0 <= k /\ k < n
      BY <1>1
    <3>2. QED
      BY <1>1, <1>4, <2>1, <3>1
  <2>4. QED
    BY <2>2, <2>3
<1>6. \A k \in 0 .. n : SlotOf(k)' = SlotOf(k)
  BY DEF SlotOf
<1>7. /\ Queued = [i \in 1 .. n |-> _rx_buf[SlotOf(i - 1)]]
      /\ Queued \in Seq(Byte) /\ Len(Queued) = n
  BY QueuedIs
<1>8. Queued' = [i \in 1 .. (n + 1) |-> _rx_buf'[SlotOf(i - 1)]]
  <2>1. \A i \in 1 .. (n + 1) : (_rx_head + i - 1) % _rx_buf_size = SlotOf(i - 1)
    <3>1. \A i \in 1 .. (n + 1) : _rx_head + i - 1 = _rx_head + (i - 1)
      BY <1>1 DEF Slot
    <3>2. QED
      BY <3>1 DEF SlotOf
  <2>2. QED
    BY <1>3, <2>1 DEF Queued, QueueLength
<1>9. \A i \in 1 .. n : _rx_buf'[SlotOf(i - 1)] = _rx_buf[SlotOf(i - 1)]
  <2>1. \A i \in 1 .. n : i - 1 \in 0 .. (n - 1)
    BY <1>1
  <2>2. QED
    BY <1>5, <2>1 DEF RingInv
<1>10. _rx_buf'[SlotOf((n + 1) - 1)] = b
  <2>1. (n + 1) - 1 = n
    BY <1>1
  <2>2. QED
    BY <1>1, <1>5, <2>1 DEF RingInv
<1>11. QED
  BY <1>1, <1>3, <1>7, <1>8, <1>9, <1>10

\* com_rx finds the ring full only when the queue is.
LEMMA FullIs ==
  ASSUME RingInv, RingFull
  PROVE  ~(Len(Queued) < _rx_buf_size - 1)
<1>1. /\ _rx_buf_size \in Nat \ {0, 1}
      /\ _rx_head \in Slot /\ _rx_tail \in Slot
      /\ QueueLength = IF _rx_head <= _rx_tail THEN _rx_tail - _rx_head
                       ELSE _rx_tail - _rx_head + _rx_buf_size
  BY LengthIs, SerialAssumption DEF RingInv, QueueLength
<1>2. _rx_head = IF _rx_tail + 1 = _rx_buf_size THEN 0 ELSE _rx_tail + 1
  BY <1>1, NextSlot DEF RingFull
<1>3. QueueLength = _rx_buf_size - 1
  BY <1>1, <1>2 DEF Slot
<1>4. QED
  BY <1>1, <1>3, QueuedIs

\* com_getc takes the byte at the front.
LEMMA TakesFirst ==
  ASSUME RingInv, RingInv', ~RingEmpty,
         _rx_head' = next_slot(_rx_head),
         UNCHANGED <<_rx_buf, _rx_tail>>
  PROVE  /\ Queued # <<>>
         /\ _rx_buf[_rx_head] = Head(Queued)
         /\ Queued' = Tail(Queued)
<1> DEFINE n == QueueLength
<1>1. /\ _rx_buf_size \in Nat \ {0, 1}
      /\ _rx_head \in Int /\ 0 <= _rx_head /\ _rx_head < _rx_buf_size
      /\ _rx_tail \in Int /\ 0 <= _rx_tail /\ _rx_tail < _rx_buf_size
      /\ _rx_head # _rx_tail
  BY SerialAssumption DEF RingInv, Slot, RingEmpty
<1>2. /\ n = IF _rx_head <= _rx_tail THEN _rx_tail - _rx_head
                                     ELSE _rx_tail - _rx_head + _rx_buf_size
      /\ n \in 0 .. (_rx_buf_size - 1)
  BY LengthIs DEF RingInv, QueueLength
<1>3. _rx_head' = IF _rx_head + 1 = _rx_buf_size THEN 0 ELSE _rx_head + 1
  BY NextSlot DEF RingInv
<1>4. n \in Nat \ {0} /\ QueueLength' = n - 1
  <2>1. QueueLength' = IF _rx_head' <= _rx_tail THEN _rx_tail - _rx_head'
                       ELSE _rx_tail - _rx_head' + _rx_buf_size
    BY LengthIs DEF RingInv, QueueLength
  <2>2. QED
    BY <1>1, <1>2, <1>3, <2>1
<1>5. \A k \in 0 .. (_rx_buf_size - 1) :
        /\ SlotOf(k) = IF _rx_head + k < _rx_buf_size
                         THEN _rx_head + k ELSE _rx_head + k - _rx_buf_size
        /\ (_rx_head' + k) % _rx_buf_size =
             IF _rx_head' + k < _rx_buf_size
               THEN _rx_head' + k ELSE _rx_head' + k - _rx_buf_size
  BY SlotIs DEF RingInv, SlotOf
<1>6. ASSUME NEW i \in 1 .. (n - 1)
      PROVE  (_rx_head' + i - 1) % _rx_buf_size = SlotOf((i + 1) - 1)
  <2>1. /\ i \in Int /\ 1 <= i /\ i < _rx_buf_size - 1
        /\ _rx_head' + i - 1 = _rx_head' + (i - 1)
        /\ (i + 1) - 1 = i
        /\ i \in 0 .. (_rx_buf_size - 1) /\ i - 1 \in 0 .. (_rx_buf_size - 1)
    BY <1>1, <1>2, <1>3
  <2>2. (_rx_head' + (i - 1)) % _rx_buf_size =
          IF _rx_head' + (i - 1) < _rx_buf_size
            THEN _rx_head' + (i - 1) ELSE _rx_head' + (i - 1) - _rx_buf_size
    BY <1>5, <2>1
  <2>3. SlotOf(i) = IF _rx_head + i < _rx_buf_size
                      THEN _rx_head + i ELSE _rx_head + i - _rx_buf_size
    BY <1>5, <2>1
  <2>4. (_rx_head' + (i - 1)) % _rx_buf_size = SlotOf(i)
    BY <1>1, <1>3, <2>1, <2>2, <2>3
  <2>5. QED
    BY <2>1, <2>4
<1>7. /\ Queued = [i \in 1 .. n |-> _rx_buf[SlotOf(i - 1)]]
      /\ Queued \in Seq(Byte) /\ Len(Queued) = n
  BY QueuedIs
<1>8. Queued' = [i \in 1 .. (n - 1) |-> _rx_buf[SlotOf((i + 1) - 1)]]
  BY <1>4, <1>6 DEF Queued, QueueLength
<1>9. \A i \in 1 .. (n - 1) : Queued'[i] = Queued[i + 1]
  BY <1>4, <1>7, <1>8
<1>10. Queued[1] = _rx_buf[_rx_head]
  <2>1. SlotOf(0) = _rx_head
    BY <1>1, <1>5
  <2>2. QED
    BY <1>4, <1>7, <2>1
<1>11. Queued # <<>> /\ Head(Queued) = Queued[1]
  BY <1>4, <1>7
<1>12. Tail(Queued) = [i \in 1 .. (n - 1) |-> Queued[i + 1]]
  BY <1>4, <1>7
<1>13. Queued' = Tail(Queued)
  BY <1>8, <1>9, <1>12
<1>14. QED
  BY <1>10, <1>11, <1>13

\* A step of the receiver is a step of the lossy queue, or none.
LEMMA SerialStepRefines ==
  RingInv /\ RingInv' /\ [SerialNext]_serialVars => [Fifo!Next]_(Fifo!fifoVars)
<1> SUFFICES ASSUME RingInv, RingInv', [SerialNext]_serialVars
             PROVE  Fifo!Next \/ UNCHANGED <<Queued, received, c>>
  BY DEF Fifo!fifoVars
<1>1. ASSUME UNCHANGED <<ringVars, received, c>> PROVE UNCHANGED <<Queued, received, c>>
  BY <1>1 DEF ringVars, Queued
<1>2. CASE usart1_isr
  <2>1. ASSUME NEW b \in Byte, com_rx(b), UNCHANGED c PROVE Fifo!Put(b)
    <3>1. CASE RingFull
      <4>1. UNCHANGED Queued
        BY <2>1, <3>1 DEF com_rx, Queued
      <4>2. QED
        BY <2>1, <3>1, <4>1, FullIs DEF com_rx, Fifo!Put
    <3>2. CASE ~RingFull
      <4>1. Queued' = Append(Queued, b) /\ Len(Queued) < _rx_buf_size - 1
        BY <2>1, <3>2, PutsLast DEF com_rx
      <4>2. QED
        BY <2>1, <4>1 DEF com_rx, Fifo!Put
    <3>3. QED
      BY <3>1, <3>2
  <2>2. QED
    BY <1>1, <1>2, <2>1 DEF usart1_isr, Fifo!Next
<1>3. CASE com_getc_take
  <2>1. ~RingEmpty
    BY <1>3 DEF com_getc_take, RingInv
  <2>2. Fifo!Get
    BY <1>3, <2>1, TakesFirst DEF com_getc_take, Fifo!Get
  <2>3. QED
    BY <2>2 DEF Fifo!Next
<1>4. CASE com_getc_check \/ com_getc_wait \/ com_getc_resume
  BY <1>1, <1>4 DEF com_getc_check, com_getc_wait, com_getc_resume
<1>5. CASE OthersSleep \/ OthersResume \/ TickEntry \/ Tick \/ Switch
  BY <1>1, <1>5 DEF OthersSleep, OthersResume, TickEntry, Tick, Switch
<1>6. QED
  BY <1>1, <1>2, <1>3, <1>4, <1>5 DEF SerialNext, com_getc, serialVars

\* Every byte com_rx is given comes out of com_getc once and in order, but for
\* those that find the ring full, however handler and reader interleave.
THEOREM FifoImplements == SerialSpec => ImplementsFifo
<1> SUFFICES SerialSpec => Fifo!Spec
  BY DEF ImplementsFifo
<1>1. SerialInit => RingInv
  BY SerialAssumption DEF SerialInit, RingInv, Slot
<1>2. SerialInit => Fifo!Init
  <2> SUFFICES ASSUME SerialInit PROVE Fifo!Init
    OBVIOUS
  <2>1. RingInv
    BY <1>1
  <2>2. 0 \in Slot /\ _rx_head = 0 /\ _rx_tail = 0 /\ received = 0 /\ c = 0
    BY SerialAssumption DEF SerialInit, Slot
  <2>3. (0 - 0) % _rx_buf_size = 0
    BY <2>2, LengthIs
  <2>4. Len(Queued) = 0 /\ Queued \in Seq(Byte)
    BY <2>1, <2>2, <2>3, QueuedIs DEF QueueLength
  <2>5. Queued = <<>>
    BY <2>4
  <2>6. QED
    BY <2>2, <2>5, SerialAssumption DEF Fifo!Init
<1>3. QED
  BY <1>1, <1>2, RingInductive, SerialStepRefines, PTL DEF SerialSpec, Fifo!Spec
=============================================================================
