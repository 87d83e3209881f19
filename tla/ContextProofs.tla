---------------------------- MODULE ContextProofs ----------------------------
(***************************************************************************)
(* Proofs about Context, for every number of processes and every bound on  *)
(* the timeouts.                                                           *)
(***************************************************************************)
EXTENDS Context, KernelProofs

\* Until the first process runs, every process is ready, so the highest ready
\* one is pr0, which CurProcPriority already names: nothing asks for a switch.
NoSwitchBeforeExec ==
  phase # "exec" => /\ CurProcPriority = pr0
                    /\ ReadyProcessMap = TPriority
                    /\ ~SwitchPending

ContextType ==
  StackPointer \in [TPriority -> {Own(p) : p \in TPriority} \cup {Main, Spent}]

CInv ==
  /\ IInv
  /\ ContextType
  /\ NoSwitchBeforeExec
  /\ ContextsIntact

-----------------------------------------------------------------------------

\* Each step is a step of the kernel, or leaves the kernel alone.
LEMMA ContextStepIsKernelStep == [ContextNext]_contextVars => [Next]_kernelVars
BY DEF ContextNext, contextVars, StartTick, EnterExec, Processes, TickTaken,
       TickHandler, SwitchTaken, SwitchContext, Interrupt, Next, SysTick, PendSV

\* With every process ready, as the constructors leave them, pr0 is the highest.
LEMMA AllReadyHighest == highest_priority(TPriority) = pr0
<1>1. TPriority # {} /\ pr0 \in TPriority /\ \A q \in TPriority : q <= pr0
  BY KernelAssumption DEF TPriority, pr0, prIDLE
<1>2. /\ highest_priority(TPriority) \in TPriority
      /\ \A q \in TPriority : q <= highest_priority(TPriority)
  BY <1>1, HighestPriority
<1>3. QED
  BY <1>1, <1>2, KernelAssumption DEF TPriority, pr0, prIDLE

\* The invariant holds at the start of main.
LEMMA ContextInitInductive == ContextInit => CInv
<1> SUFFICES ASSUME ContextInit PROVE CInv
  OBVIOUS
<1>1. IInv
  BY InitInductive DEF ContextInit
<1>2. NoSwitchBeforeExec
  BY DEF ContextInit, KernelInit, NoSwitchBeforeExec, SwitchPending
<1>3. ContextType /\ ContextsIntact
  BY DEF ContextInit, ContextType, ContextsIntact
<1>4. QED
  BY <1>1, <1>2, <1>3 DEF CInv

\* Ticks and interrupts on the way to the first process switch nothing.
LEMMA StartUpKeeps ==
  ASSUME CInv, TickTaken \/ TickHandler \/ SwitchTaken \/ Interrupt
  PROVE  NoSwitchBeforeExec'
<1> SUFFICES ASSUME phase # "exec"
             PROVE  /\ CurProcPriority' = pr0
                    /\ ReadyProcessMap' = TPriority
                    /\ ~SwitchPending'
  BY DEF NoSwitchBeforeExec, TickTaken, TickHandler, SwitchTaken, Interrupt
<1> USE DEF SwitchPending
<1>1. /\ CurProcPriority = pr0
      /\ ReadyProcessMap = TPriority
      /\ ~SwitchPending
  BY DEF CInv, NoSwitchBeforeExec
<1>2. CASE TickTaken
  BY <1>1, <1>2 DEF TickTaken, SysTickEntry
<1>3. CASE ISR_Enter
  BY <1>1, <1>3 DEF ISR_Enter
<1>4. CASE system_timer
  <2>1. ReadyProcessMap' = TPriority
    BY <1>1, <1>4 DEF system_timer, TPriority, prIDLE
  <2>2. QED
    BY <1>1, <1>4, <2>1 DEF system_timer
<1>5. CASE ISR_Exit
  <2>1. UNCHANGED <<ReadyProcessMap, CurProcPriority>> /\ exc' = "thread"
    BY <1>5 DEF ISR_Exit
  <2>2. pendSV' = pendSV
    BY <1>1, <1>5, <2>1, AllReadyHighest DEF ISR_Exit, sched_isr, schedVars
  <2>3. QED
    BY <1>1, <2>1, <2>2
<1>6. CASE SwitchTaken
  BY <1>1, <1>6 DEF SwitchTaken, PendSVEntry
<1>7. CASE Interrupt
  <2>1. PICK p \in TPriority : set_awake(p)
    BY <1>7 DEF Interrupt, DeviceISR
  <2>2. ReadyProcessMap' = TPriority
    BY <1>1, <2>1 DEF set_awake
  <2>3. UNCHANGED <<CurProcPriority, exc, pendSV>>
    BY <1>1, <1>7, <2>2, AllReadyHighest
    DEF Interrupt, DeviceISR, TISRW, sched_isr, schedVars
  <2>4. QED
    BY <1>1, <2>2, <2>3
<1>8. QED
  BY <1>2, <1>3, <1>4, <1>5, <1>6, <1>7 DEF TickHandler, SysTick

\* The switch stores what it found and loads a context that is there.
LEMMA SwitchKeepsContexts ==
  ASSUME CInv, SwitchContext
  PROVE  ContextType' /\ ContextsIntact' /\ NoSwitchBeforeExec'
<1>1. context_switch_hook /\ exc = "switch_enter" /\ phase' = phase
  BY DEF SwitchContext, context_switch_hook
<1>2. phase = "exec"
  BY <1>1 DEF CInv, NoSwitchBeforeExec, SwitchPending
<1>3. CurProcPriority \in TPriority /\ SchedProcPriority \in TPriority
  BY DEF CInv, IInv, KInv, TypeOK
<1>4. /\ cpu = Own(CurProcPriority)
      /\ \A p \in TPriority : p # CurProcPriority => StackPointer[p] = Own(p)
      /\ ContextType
  BY <1>2 DEF CInv, ContextsIntact
<1> DEFINE saved == [StackPointer EXCEPT ![CurProcPriority] = cpu]
<1>5. \A p \in TPriority : saved[p] = Own(p)
  BY <1>3, <1>4 DEF ContextType
<1>6. /\ cpu' = saved[SchedProcPriority]
      /\ StackPointer' = [saved EXCEPT ![SchedProcPriority] = Spent]
      /\ CurProcPriority' = SchedProcPriority
  BY DEF SwitchContext, context_switch_hook
<1>7. saved \in [TPriority -> {Own(p) : p \in TPriority} \cup {Main, Spent}]
  BY <1>3, <1>4 DEF ContextType
<1>8. cpu' = Own(CurProcPriority')
  BY <1>3, <1>5, <1>6
<1>9. \A p \in TPriority : p # CurProcPriority' => StackPointer'[p] = Own(p)
  BY <1>3, <1>5, <1>6, <1>7
<1>10. ContextType'
  BY <1>3, <1>6, <1>7 DEF ContextType
<1>11. QED
  BY <1>1, <1>2, <1>8, <1>9, <1>10 DEF ContextsIntact, NoSwitchBeforeExec

\* No call, tick or interrupt changes CurProcPriority, which only the switch
\* does; so the contexts stay those of their owners.
LEMMA OthersKeepContexts ==
  ASSUME CInv, UNCHANGED <<CurProcPriority, phase, cpu, StackPointer>>
  PROVE  ContextType' /\ ContextsIntact'
BY DEF CInv, ContextType, ContextsIntact

\* Every step keeps the invariant.
LEMMA ContextNextInductive == CInv /\ [ContextNext]_contextVars => CInv'
<1> SUFFICES ASSUME CInv, [ContextNext]_contextVars PROVE CInv'
  OBVIOUS
<1>1. IInv'
  BY ContextStepIsKernelStep, NextInductive DEF CInv
<1>2. SUFFICES ContextType' /\ NoSwitchBeforeExec' /\ ContextsIntact'
  BY <1>1 DEF CInv
<1>3. CASE UNCHANGED contextVars
  BY <1>3 DEF contextVars, kernelVars, CInv, ContextType, NoSwitchBeforeExec,
     SwitchPending, ContextsIntact
<1>4. CASE StartTick
  BY <1>4 DEF StartTick, kernelVars, CInv, ContextType, NoSwitchBeforeExec,
     SwitchPending, ContextsIntact
<1>5. CASE EnterExec
  <2>1. CurProcPriority = pr0 /\ pr0 \in TPriority
    BY <1>5, KernelAssumption
    DEF EnterExec, CInv, NoSwitchBeforeExec, TPriority, pr0, prIDLE
  <2>2. \A p \in TPriority : StackPointer[p] = Own(p)
    BY <1>5 DEF EnterExec, CInv, ContextsIntact
  <2>3. ContextType' /\ NoSwitchBeforeExec'
    BY <1>5, <2>1 DEF EnterExec, CInv, ContextType, NoSwitchBeforeExec
  <2>4. cpu' = Own(CurProcPriority') /\ phase' = "exec"
    BY <1>5, <2>1, <2>2 DEF EnterExec, kernelVars
  <2>5. \A p \in TPriority : p # CurProcPriority' => StackPointer'[p] = Own(p)
    BY <1>5, <2>1, <2>2 DEF EnterExec, kernelVars, CInv, ContextType
  <2>6. QED
    BY <2>3, <2>4, <2>5 DEF ContextsIntact
<1>6. CASE Processes
  <2>1. UNCHANGED <<CurProcPriority, phase, cpu, StackPointer>> /\ phase = "exec"
    BY <1>6 DEF Processes, ProcessCall, sleep, wake_up, force_wake_up, SchedReturns,
       kernelVars
  <2>2. QED
    BY <2>1, OthersKeepContexts DEF NoSwitchBeforeExec
<1>7. CASE TickTaken \/ TickHandler \/ SwitchTaken \/ Interrupt
  <2>1. UNCHANGED <<CurProcPriority, phase, cpu, StackPointer>>
    BY <1>7 DEF TickTaken, TickHandler, SwitchTaken, Interrupt, SysTickEntry,
       SysTick, ISR_Enter, system_timer, ISR_Exit, PendSVEntry, DeviceISR, TISRW
  <2>2. QED
    BY <1>7, <2>1, StartUpKeeps, OthersKeepContexts
<1>8. CASE SwitchContext
  BY <1>8, SwitchKeepsContexts
<1>9. QED
  BY <1>3, <1>4, <1>5, <1>6, <1>7, <1>8 DEF ContextNext

-----------------------------------------------------------------------------
(***************************************************************************)
(* The theorems                                                            *)
(***************************************************************************)

\* Whatever switches and interrupts come, the processor runs in the context of
\* the process CurProcPriority names, and no context of another one is lost,
\* doubled or used before the first process runs.
THEOREM ContextSwitchIntact == ContextSpec => []ContextsIntact
<1>1. CInv => ContextsIntact
  BY DEF CInv
<1>2. QED
  BY <1>1, ContextInitInductive, ContextNextInductive, PTL DEF ContextSpec

\* Start-up included, the kernel behaves as it does alone, so that what is
\* proved of the kernel's specification holds from main on.
THEOREM ContextImplementsKernel == ContextSpec => Spec
<1>1. ContextInit => KernelInit
  BY DEF ContextInit
<1>2. QED
  BY <1>1, ContextStepIsKernelStep, PTL DEF ContextSpec, Spec
=============================================================================
