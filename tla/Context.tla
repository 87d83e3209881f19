------------------------------- MODULE Context -------------------------------
(***************************************************************************)
(* Start-up and the processes' contexts: from main, which still runs on    *)
(* the main stack with the USART's interrupt open, through OS::run and     *)
(* os_start into exec() of the first process, and then the kernel's        *)
(* context switches, with what they save and load (main.cpp,               *)
(* scmRTOS/Common/OS_Kernel.{h,cpp}, scmRTOS/CortexM3).                    *)
(*                                                                         *)
(* A context is the registers of a process and where it is in its code.    *)
(* The one in the processor is cpu; StackPointer[p] stands for the one the *)
(* member of that name leads to.  Once it has been loaded it is spent: the *)
(* process goes on, and who loads it again goes back to an old point.      *)
(***************************************************************************)
EXTENDS Kernel

VARIABLES
  phase,        \* see Phase
  cpu,          \* the context thread code runs in
  StackPointer  \* [TPriority -> contexts]

contextVars == <<kernelVars, phase, cpu, StackPointer>>

\* main: from main to os_start, where there is no system tick yet; os_start:
\* it runs, but the first process does not.
Phase == {"main", "os_start", "exec"}

Own(p) == <<"process", p>>
Main == <<"main">>
Spent == <<"spent">>

\* After the constructors: each process has the frame init_stack_frame made.
ContextInit ==
  /\ KernelInit
  /\ phase = "main"
  /\ cpu = Main
  /\ StackPointer = [p \in TPriority |-> Own(p)]

-----------------------------------------------------------------------------
(***************************************************************************)
(* OS::run and os_start                                                    *)
(***************************************************************************)

\* os_start up to the start of the system tick.
StartTick ==
  /\ phase = "main" /\ InThread
  /\ phase' = "os_start"
  /\ UNCHANGED <<kernelVars, cpu, StackPointer>>

\* The rest of os_start: pr0's frame is taken apart and its exec() entered,
\* whatever CurProcPriority says.
EnterExec ==
  /\ phase = "os_start" /\ InThread
  /\ cpu' = StackPointer[pr0]
  /\ StackPointer' = [StackPointer EXCEPT ![pr0] = Spent]
  /\ phase' = "exec"
  /\ UNCHANGED kernelVars

-----------------------------------------------------------------------------
(***************************************************************************)
(* The context switch                                                      *)
(***************************************************************************)

\* Mutant: the next context is fetched before the old one is stored.
SwitchContext_LoadsFirst ==
  /\ context_switch_hook
  /\ cpu' = StackPointer[SchedProcPriority]
  /\ StackPointer' = [StackPointer EXCEPT ![SchedProcPriority] = Spent,
                                          ![CurProcPriority] = cpu]
  /\ UNCHANGED phase

\* pend_sv_handler and context_switch_hook.  The two processes are the same if
\* the USART asked for a switch again between the handler's entry and CPSID.
SwitchContext ==
  /\ context_switch_hook
  /\ LET saved == [StackPointer EXCEPT ![CurProcPriority] = cpu] IN
       /\ cpu' = saved[SchedProcPriority]
       /\ StackPointer' = [saved EXCEPT ![SchedProcPriority] = Spent]
  /\ UNCHANGED phase

-----------------------------------------------------------------------------
(***************************************************************************)
(* The kernel, with the processes not calling it before they run           *)
(***************************************************************************)

Processes ==
  /\ phase = "exec"
  /\ ProcessCall \/ \E p \in TPriority : SchedReturns(p)
  /\ UNCHANGED <<phase, cpu, StackPointer>>

TickTaken ==
  /\ phase # "main"
  /\ SysTickEntry
  /\ UNCHANGED <<phase, cpu, StackPointer>>

TickHandler == SysTick /\ UNCHANGED <<phase, cpu, StackPointer>>

SwitchTaken == PendSVEntry /\ UNCHANGED <<phase, cpu, StackPointer>>

Interrupt == DeviceISR /\ UNCHANGED <<phase, cpu, StackPointer>>

ContextNext ==
  \/ StartTick
  \/ EnterExec
  \/ Processes
  \/ TickTaken
  \/ TickHandler
  \/ SwitchTaken
  \/ SwitchContext
  \/ Interrupt

ContextSpec == ContextInit /\ [][ContextNext]_contextVars

\* The kernel's fairness, and a main that goes on between interrupts.
ContextFairSpec ==
  /\ ContextSpec
  /\ SF_contextVars(StartTick)
  /\ SF_contextVars(EnterExec)
  /\ SF_contextVars(TickTaken)
  /\ WF_contextVars(TickHandler)
  /\ WF_contextVars(SwitchTaken \/ SwitchContext)

-----------------------------------------------------------------------------
(***************************************************************************)
(* Properties                                                              *)
(***************************************************************************)

\* No context is lost, doubled or given to another process.  The processor
\* has the context of CurProcPriority, and every other process one of its own
\* that was not resumed before; nor do interrupts on the way from main to the
\* first exec() switch away from the main stack, where the switch would save
\* main as the context of pr0 through a PSP that was never set.
ContextsIntact ==
  /\ cpu = IF phase = "exec" THEN Own(CurProcPriority) ELSE Main
  /\ \A p \in TPriority :
       p # CurProcPriority \/ phase # "exec" => StackPointer[p] = Own(p)
=============================================================================
