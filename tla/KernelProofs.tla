---------------------------- MODULE KernelProofs ----------------------------
(***************************************************************************)
(* Proofs about Kernel, for every number of processes and every bound on   *)
(* the timeouts.                                                           *)
(***************************************************************************)
EXTENDS Kernel, TLAPS, NaturalsInduction, WellFoundedInduction

\* A switch is on its way: requested, or taken and not yet made.
SwitchPending == pendSV \/ exc = "switch_enter"

\* Only the handler of SysTick lives across steps with the count raised.
NestCountExact ==
  ISR_NestCount = IF exc \in {"tick_body", "tick_exit"} THEN 1 ELSE 0

\* The idle process is always ready and never calls sched().
IdleReady == prIDLE \in ReadyProcessMap /\ prIDLE \notin inSched

\* The process a pending switch will load is ready.
TargetReady == SwitchPending => SchedProcPriority \in ReadyProcessMap

\* With no switch pending, the process that is loaded is ready, and in the
\* loop of sched() it is also the one that was asked for.
LoadedReady ==
  ~SwitchPending => /\ CurProcPriority \in ReadyProcessMap
                    /\ CurProcPriority \in inSched =>
                         CurProcPriority = SchedProcPriority

\* A process leaves the ready set only by its own call, in sched().
UnreadyInSched == \A p \in TPriority : p \notin ReadyProcessMap => p \in inSched

\* Outside SysTick, the highest ready process is loaded, or the pending
\* switch goes to it, or it is the process the last switch took out.
HighestKnown ==
  exc \notin {"tick_body", "tick_exit"} =>
    LET h == highest_priority(ReadyProcessMap) IN
    \/ h = CurProcPriority
    \/ SwitchPending /\ h = SchedProcPriority
    \/ h = switchedOut /\ (SwitchPending => SchedProcPriority = CurProcPriority)

\* What holds of the kernel whoever builds on it.
KInv ==
  /\ TypeOK
  /\ NestCountExact
  /\ IdleReady
  /\ TargetReady
  /\ LoadedReady
  /\ UnreadyInSched
  /\ HighestKnown

\* Ready processes whose timeout still runs.  The kernel alone has none, but an
\* event flag readies its waiters without touching their timeouts.
Overdue == {p \in ReadyProcessMap : Timeout[p] # 0}

IInv == KInv /\ NoStaleTimeout

-----------------------------------------------------------------------------
(***************************************************************************)
(* highest_priority                                                        *)
(***************************************************************************)

\* A nonempty set of priorities has a greatest element: the least of the
\* distances to pr0, which are natural numbers.
LEMMA GreatestPriority ==
  ASSUME NEW pm \in SUBSET TPriority, pm # {}
  PROVE  \E h \in pm : \A q \in pm : q <= h
<1> DEFINE dist == {n \in Nat : pr0 - n \in pm}
<1>1. \A q \in pm : q \in Int /\ pr0 - q \in Nat /\ pr0 - (pr0 - q) = q
  BY KernelAssumption DEF TPriority, pr0, prIDLE
<1>2. \A q \in pm : pr0 - q \in dist
  BY <1>1
<1>3. dist # {}
  BY <1>2
<1>4. PICK d \in dist : \A e \in dist : ~(<<e, d>> \in OpToRel(<, Nat))
  <2>1. dist \subseteq Nat
    OBVIOUS
  <2>2. QED
    BY <2>1, <1>3, NatLessThanWellFounded, WFMin
<1>5. ASSUME NEW e \in dist PROVE d <= e
  <2>1. e \in Nat /\ d \in Nat
    OBVIOUS
  <2>2. ~(e < d)
    BY <2>1, <1>4 DEF OpToRel
  <2>3. QED
    BY <2>1, <2>2
<1>6. \A q \in pm : q <= pr0 - d
  <2>1. d \in Nat /\ pr0 \in Nat
    BY KernelAssumption DEF pr0
  <2>2. \A q \in pm : d <= pr0 - q
    BY <1>2, <1>5
  <2>3. QED
    BY <2>1, <2>2, <1>1
<1>7. pr0 - d \in pm
  OBVIOUS
<1>8. QED
  BY <1>6, <1>7

\* highest_priority returns the greatest member of a nonempty set.
LEMMA HighestPriority ==
  ASSUME NEW pm \in SUBSET TPriority, pm # {}
  PROVE  /\ highest_priority(pm) \in pm
         /\ \A q \in pm : q <= highest_priority(pm)
BY GreatestPriority DEF highest_priority

-----------------------------------------------------------------------------
(***************************************************************************)
(* The invariant                                                           *)
(***************************************************************************)

\* The invariant holds at the start.
LEMMA InitInductive == KernelInit => IInv
<1> SUFFICES ASSUME KernelInit PROVE IInv
  OBVIOUS
<1>1. pr0 \in TPriority /\ prIDLE \in TPriority /\ TPriority # {}
  BY KernelAssumption DEF TPriority, pr0, prIDLE
<1>2. TypeOK
  <2>1. 0 \in timeout_t
    BY KernelAssumption DEF timeout_t
  <2>2. QED
    BY <1>1, <2>1 DEF KernelInit, TypeOK, Handler
<1>3. highest_priority(TPriority) = pr0
  BY <1>1, HighestPriority, KernelAssumption DEF TPriority, pr0, prIDLE
<1>4. QED
  BY <1>1, <1>2, <1>3
  DEF KernelInit, IInv, KInv, NestCountExact, IdleReady, TargetReady, LoadedReady,
      UnreadyInSched, HighestKnown, SwitchPending, NoStaleTimeout

\* In a state of the invariant the ready set is never empty, before and after
\* a step that keeps the idle process ready.
LEMMA HighestReady ==
  ASSUME NEW pm \in SUBSET TPriority, prIDLE \in pm
  PROVE  /\ highest_priority(pm) \in pm
         /\ highest_priority(pm) \in TPriority
         /\ \A q \in pm : q <= highest_priority(pm)
BY HighestPriority

\* The calls of a process end in sched(), or come back from it and end in it
\* once more: whatever they make of the ready map and the timeouts, if nobody
\* but the caller becomes unready, the invariant holds after them.
LEMMA SchedInductive ==
  ASSUME KInv,
         InThread,
         scheduler,
         ReadyProcessMap' \in SUBSET TPriority,
         prIDLE \in ReadyProcessMap',
         CurProcPriority # prIDLE,
         ReadyProcessMap \ {CurProcPriority} \subseteq ReadyProcessMap',
         Timeout' \in [TPriority -> timeout_t],
         UNCHANGED <<CurProcPriority, ISR_NestCount, exc, switchedOut>>
  PROVE  KInv'
<1> DEFINE h == highest_priority(ReadyProcessMap')
<1>1. h \in ReadyProcessMap' /\ h \in TPriority
  BY HighestReady
<1>2. exc = "thread" /\ ~pendSV
  BY DEF InThread
<1>3. sched
  BY <1>2 DEF scheduler, KInv, NestCountExact
<1>4. CASE h # CurProcPriority
  <2>1. SchedProcPriority' = h /\ pendSV' = TRUE
        /\ inSched' = inSched \cup {CurProcPriority}
    BY <1>3, <1>4 DEF sched
  <2>2. TypeOK'
    BY <1>1, <2>1 DEF KInv, TypeOK
  <2>3. UnreadyInSched'
    BY <2>1 DEF KInv, UnreadyInSched
  <2>4. NestCountExact' /\ IdleReady'
    BY <2>1, <1>2 DEF KInv, NestCountExact, IdleReady
  <2>5. TargetReady' /\ LoadedReady' /\ HighestKnown'
    BY <1>1, <2>1 DEF TargetReady, LoadedReady, HighestKnown, SwitchPending
  <2>6. QED
    BY <2>2, <2>3, <2>4, <2>5 DEF KInv
<1>5. CASE h = CurProcPriority
  <2>1. UNCHANGED schedVars /\ inSched' = inSched \ {CurProcPriority}
    BY <1>3, <1>5 DEF sched
  <2>2. TypeOK'
    BY <2>1 DEF KInv, TypeOK, schedVars
  <2>3. UnreadyInSched'
    BY <2>1, <1>1, <1>5 DEF KInv, UnreadyInSched
  <2>4. NestCountExact' /\ IdleReady'
    BY <2>1, <1>2 DEF KInv, NestCountExact, IdleReady
  <2>5. TargetReady' /\ LoadedReady' /\ HighestKnown'
    BY <1>1, <1>2, <1>5, <2>1
    DEF TargetReady, LoadedReady, HighestKnown, SwitchPending, schedVars
  <2>6. QED
    BY <2>2, <2>3, <2>4, <2>5 DEF KInv
<1>6. QED
  BY <1>4, <1>5

-----------------------------------------------------------------------------
(***************************************************************************)
(* What sched() does to inSched                                            *)
(***************************************************************************)

\* A caller that stays ready may go on at once; nobody else leaves the loop.
LEMMA SchedKeepsOthers ==
  ASSUME scheduler
  PROVE  inSched \ {CurProcPriority} \subseteq inSched'
BY DEF scheduler, sched

\* A caller that is no longer ready stays in it.
LEMMA SchedParks ==
  ASSUME KInv, InThread, scheduler,
         ReadyProcessMap' \in SUBSET TPriority, prIDLE \in ReadyProcessMap',
         CurProcPriority \notin ReadyProcessMap'
  PROVE  inSched' = inSched \cup {CurProcPriority}
<1>1. highest_priority(ReadyProcessMap') \in ReadyProcessMap'
  BY HighestReady
<1>2. sched
  BY DEF scheduler, KInv, NestCountExact, InThread
<1>3. QED
  BY <1>1, <1>2 DEF sched

\* The process that executes is ready.
LEMMA RunnerReady ==
  ASSUME KInv, InThread
  PROVE  /\ CurProcPriority \in TPriority
         /\ CurProcPriority \in ReadyProcessMap
BY DEF InThread, KInv, TypeOK, LoadedReady, SwitchPending

-----------------------------------------------------------------------------
(***************************************************************************)
(* The steps of the kernel                                                 *)
(***************************************************************************)

\* A process leaves the loop of sched(), and may change timeouts.
LEMMA LeavesSchedInductive ==
  ASSUME NEW p \in TPriority, KInv, LeavesSched(p),
         inSched' = inSched \ {p},
         Timeout' \in [TPriority -> timeout_t],
         UNCHANGED <<CurProcPriority, SchedProcPriority, ReadyProcessMap,
                     ISR_NestCount, pendSV, exc, switchedOut>>
  PROVE  KInv'
<1>1. CurProcPriority = p /\ p \in ReadyProcessMap
  BY DEF LeavesSched, InThread, KInv, LoadedReady, SwitchPending
<1>2. TypeOK' /\ UnreadyInSched'
  BY <1>1 DEF KInv, TypeOK, UnreadyInSched
<1>3. NestCountExact' /\ IdleReady' /\ TargetReady'
  BY DEF KInv, NestCountExact, IdleReady, TargetReady, SwitchPending
<1>4. LoadedReady' /\ HighestKnown'
  BY DEF KInv, LoadedReady, HighestKnown, SwitchPending
<1>5. QED
  BY <1>2, <1>3, <1>4 DEF KInv

\* Waking by a call outside the services takes the timeout with it.
LEMMA SetAwakeOverdue ==
  ASSUME NEW p \in TPriority, TypeOK, set_awake(p)
  PROVE  /\ Timeout' \in [TPriority -> timeout_t]
         /\ Overdue' \subseteq Overdue
BY KernelAssumption DEF set_awake, TypeOK, timeout_t, Overdue

\* What a process calls keeps the invariant.
LEMMA ProcessCallInductive ==
  KInv /\ ProcessCall => KInv' /\ Overdue' \subseteq Overdue
<1> SUFFICES ASSUME KInv, ProcessCall PROVE KInv' /\ Overdue' \subseteq Overdue
  OBVIOUS
<1>1. InThread /\ CurProcPriority # prIDLE
  BY DEF ProcessCall, Running
<1>2. TypeOK /\ IdleReady
  BY DEF KInv
<1>3. ASSUME NEW t \in timeout_t, sleep(t) PROVE KInv' /\ Overdue' \subseteq Overdue
  <2>1. Timeout' \in [TPriority -> timeout_t] /\ Overdue' \subseteq Overdue
    BY <1>2, <1>3 DEF sleep, TypeOK, Overdue
  <2>2. QED
    BY <1>1, <1>2, <1>3, <2>1, SchedInductive DEF sleep, TypeOK, IdleReady
<1>4. ASSUME NEW p \in TPriority, set_awake(p), scheduler,
             UNCHANGED <<CurProcPriority, ISR_NestCount, exc, switchedOut>>
      PROVE  KInv' /\ Overdue' \subseteq Overdue
  BY <1>1, <1>2, <1>4, SetAwakeOverdue, SchedInductive
  DEF set_awake, TypeOK, IdleReady
<1>5. ASSUME UNCHANGED kernelVars PROVE KInv' /\ Overdue' \subseteq Overdue
  BY <1>5 DEF kernelVars, KInv, TypeOK, NestCountExact, IdleReady, TargetReady,
     LoadedReady, UnreadyInSched, HighestKnown, SwitchPending, Overdue
<1>6. QED
  BY <1>3, <1>4, <1>5 DEF ProcessCall, wake_up, force_wake_up

\* Coming out of the loop of sched() keeps the invariant.
LEMMA SchedReturnsInductive ==
  ASSUME NEW p \in TPriority, KInv, SchedReturns(p)
  PROVE  KInv' /\ Overdue' = Overdue
<1>1. Timeout' \in [TPriority -> timeout_t] /\ Overdue' = Overdue
  BY DEF SchedReturns, KInv, TypeOK, Overdue
<1>2. QED
  BY <1>1, LeavesSchedInductive DEF SchedReturns

\* What the handlers of SysTick and PendSV do, one handler step per case.
LEMMA HandlersInductive == KInv /\ (SysTickEntry \/ SysTick \/ PendSV) => KInv'
<1> SUFFICES ASSUME KInv, SysTickEntry \/ SysTick \/ PendSV PROVE KInv'
  OBVIOUS
<1> USE DEF SwitchPending
<1>1. CASE SysTickEntry
  <2>1. TypeOK' /\ NestCountExact' /\ IdleReady' /\ UnreadyInSched'
    BY <1>1 DEF SysTickEntry, InThread, KInv, TypeOK, Handler, NestCountExact,
       IdleReady, UnreadyInSched
  <2>2. TargetReady' /\ LoadedReady' /\ HighestKnown'
    BY <1>1 DEF SysTickEntry, InThread, KInv, TargetReady, LoadedReady, HighestKnown
  <2>3. QED
    BY <2>1, <2>2 DEF KInv
<1>2. CASE ISR_Enter
  <2>1. TypeOK' /\ NestCountExact' /\ IdleReady' /\ UnreadyInSched'
    BY <1>2 DEF ISR_Enter, KInv, TypeOK, Handler, NestCountExact,
       IdleReady, UnreadyInSched
  <2>2. TargetReady' /\ LoadedReady' /\ HighestKnown'
    BY <1>2 DEF ISR_Enter, KInv, TargetReady, LoadedReady, HighestKnown
  <2>3. QED
    BY <2>1, <2>2 DEF KInv
<1>3. CASE system_timer
  <2> DEFINE timed == {p \in (prIDLE + 1) .. pr0 : Timeout[p] > 0}
  <2>1. TypeOK /\ timed \subseteq TPriority
    BY DEF KInv, TPriority, prIDLE
  <2>2. \A p \in TPriority : /\ Timeout[p] \in Nat
                             /\ p \in timed => Timeout[p] - 1 \in timeout_t
    BY <2>1, KernelAssumption DEF TypeOK, timeout_t
  <2>3. /\ Timeout' = [p \in TPriority |-> IF p \in timed THEN Timeout[p] - 1
                                                           ELSE Timeout[p]]
        /\ ReadyProcessMap' = ReadyProcessMap \cup {p \in timed : Timeout'[p] = 0}
        /\ exc = "tick_body" /\ exc' = "tick_exit"
        /\ UNCHANGED <<CurProcPriority, SchedProcPriority, ISR_NestCount, inSched,
                       pendSV, switchedOut>>
    BY <1>3 DEF system_timer
  <2>4. TypeOK'
    BY <2>1, <2>2, <2>3 DEF TypeOK, Handler
  <2>5. NestCountExact' /\ IdleReady' /\ UnreadyInSched' /\ TargetReady'
    BY <2>3 DEF KInv, NestCountExact, IdleReady, UnreadyInSched, TargetReady
  <2>6. LoadedReady' /\ HighestKnown'
    BY <2>3 DEF KInv, LoadedReady, HighestKnown
  <2>7. QED
    BY <2>4, <2>5, <2>6 DEF KInv
<1>4. CASE ISR_Exit
  <2>1. ISR_NestCount = 1 /\ ISR_NestCount' = 0 /\ exc = "tick_exit"
    BY <1>4 DEF ISR_Exit, KInv, NestCountExact
  <2>2. sched_isr
    BY <1>4, <2>1 DEF ISR_Exit
  <2> DEFINE h == highest_priority(ReadyProcessMap)
  <2>3. h \in ReadyProcessMap /\ h \in TPriority /\ UNCHANGED ReadyProcessMap
    BY <1>4, HighestReady DEF ISR_Exit, KInv, TypeOK, IdleReady
  <2>4. /\ exc' = "thread"
        /\ UNCHANGED <<CurProcPriority, Timeout, inSched, switchedOut>>
    BY <1>4 DEF ISR_Exit
  <2>5. \/ h # CurProcPriority /\ SchedProcPriority' = h /\ pendSV' = TRUE
        \/ h = CurProcPriority /\ UNCHANGED <<SchedProcPriority, pendSV>>
    BY <2>2, <2>3 DEF sched_isr, schedVars
  <2>6. TypeOK'
    BY <2>1, <2>3, <2>4, <2>5 DEF KInv, TypeOK, Handler
  <2>7. NestCountExact' /\ IdleReady' /\ UnreadyInSched'
    BY <2>1, <2>3, <2>4
    DEF KInv, NestCountExact, IdleReady, UnreadyInSched
  <2>8. TargetReady' /\ LoadedReady' /\ HighestKnown'
    BY <2>1, <2>3, <2>4, <2>5 DEF KInv, TargetReady, LoadedReady, HighestKnown
  <2>9. QED
    BY <2>6, <2>7, <2>8 DEF KInv
<1>5. CASE PendSVEntry
  <2>1. TypeOK' /\ NestCountExact' /\ IdleReady' /\ UnreadyInSched'
    BY <1>5 DEF PendSVEntry, KInv, TypeOK, Handler, NestCountExact,
       IdleReady, UnreadyInSched
  <2>2. TargetReady' /\ LoadedReady' /\ HighestKnown'
    BY <1>5 DEF PendSVEntry, KInv, TargetReady, LoadedReady, HighestKnown
  <2>3. QED
    BY <2>1, <2>2 DEF KInv
<1>6. CASE context_switch_hook
  <2>1. TypeOK' /\ NestCountExact' /\ IdleReady' /\ UnreadyInSched'
    BY <1>6 DEF context_switch_hook, KInv, TypeOK, Handler, NestCountExact,
       IdleReady, UnreadyInSched
  <2>2. TargetReady' /\ LoadedReady' /\ HighestKnown'
    BY <1>6 DEF context_switch_hook, KInv, TargetReady, LoadedReady, HighestKnown
  <2>3. QED
    BY <2>1, <2>2 DEF KInv
<1>7. QED
  BY <1>1, <1>2, <1>3, <1>4, <1>5, <1>6 DEF SysTick, PendSV

\* A tick readies a process when its timeout is over.
LEMMA HandlersOverdue ==
  ASSUME KInv, SysTickEntry \/ SysTick \/ PendSV
  PROVE  Overdue' \subseteq Overdue
<1>1. CASE system_timer
  <2> DEFINE timed == {p \in (prIDLE + 1) .. pr0 : Timeout[p] > 0}
  <2>1. /\ Timeout' = [p \in TPriority |-> IF p \in timed THEN Timeout[p] - 1
                                                           ELSE Timeout[p]]
        /\ ReadyProcessMap' = ReadyProcessMap \cup {p \in timed : Timeout'[p] = 0}
    BY <1>1 DEF system_timer
  <2>2. TypeOK /\ timed \subseteq TPriority
    BY DEF KInv, TPriority, prIDLE
  <2>3. \A p \in TPriority : Timeout[p] \in Nat
    BY <2>2, KernelAssumption DEF TypeOK, timeout_t
  <2> SUFFICES ASSUME NEW p \in ReadyProcessMap', Timeout'[p] # 0
               PROVE  p \in ReadyProcessMap /\ Timeout[p] # 0
    BY DEF Overdue
  <2>4. p \in ReadyProcessMap /\ p \in TPriority
    BY <2>1, <2>2 DEF TypeOK
  <2>5. Timeout[p] # 0
    BY <2>1, <2>3, <2>4
  <2>6. QED
    BY <2>4, <2>5
<1>2. CASE UNCHANGED <<ReadyProcessMap, Timeout>>
  BY <1>2 DEF Overdue
<1>3. QED
  BY <1>1, <1>2 DEF SysTickEntry, SysTick, PendSV, ISR_Enter, ISR_Exit,
     PendSVEntry, context_switch_hook

\* An interrupt handler that makes processes ready, at any point.
LEMMA HandlerWakesInductive ==
  ASSUME KInv, TISRW,
         ReadyProcessMap' \in SUBSET TPriority,
         ReadyProcessMap \subseteq ReadyProcessMap',
         Timeout' \in [TPriority -> timeout_t]
  PROVE  KInv'
<1> USE DEF SwitchPending
<1> DEFINE h == highest_priority(ReadyProcessMap')
<1>1. h \in ReadyProcessMap' /\ h \in TPriority
  BY HighestReady DEF KInv, IdleReady
<1>2. UNCHANGED <<CurProcPriority, ISR_NestCount, inSched, exc, switchedOut>>
  BY DEF TISRW
<1>3. \/ ISR_NestCount # 0 /\ UNCHANGED <<SchedProcPriority, pendSV>>
      \/ /\ h # CurProcPriority
         /\ SchedProcPriority' = h
         /\ pendSV' = TRUE
      \/ h = CurProcPriority /\ UNCHANGED <<SchedProcPriority, pendSV>>
  BY DEF TISRW, sched_isr, schedVars
<1>4. TypeOK'
  BY <1>1, <1>2, <1>3 DEF KInv, TypeOK
<1>5. NestCountExact' /\ IdleReady' /\ UnreadyInSched'
  BY <1>2 DEF KInv, NestCountExact, IdleReady, UnreadyInSched
<1>6. TargetReady' /\ LoadedReady'
  BY <1>1, <1>2, <1>3 DEF KInv, TargetReady, LoadedReady
<1>7. HighestKnown'
  BY <1>1, <1>2, <1>3 DEF KInv, HighestKnown, NestCountExact
<1>8. QED
  BY <1>4, <1>5, <1>6, <1>7 DEF KInv

\* A device interrupt keeps the invariant.
LEMMA DeviceISRInductive == KInv /\ DeviceISR => KInv' /\ Overdue' \subseteq Overdue
<1> SUFFICES ASSUME KInv, NEW p \in TPriority, set_awake(p), TISRW
             PROVE  KInv' /\ Overdue' \subseteq Overdue
  BY DEF DeviceISR
<1>1. TypeOK
  BY DEF KInv
<1>2. Timeout' \in [TPriority -> timeout_t] /\ Overdue' \subseteq Overdue
  BY <1>1, SetAwakeOverdue
<1>3. QED
  BY <1>1, <1>2, HandlerWakesInductive DEF set_awake, TypeOK

-----------------------------------------------------------------------------
(***************************************************************************)
(* The theorems                                                            *)
(***************************************************************************)

\* The property, in terms of the set of overdue processes.
LEMMA NoneOverdue == TypeOK => (NoStaleTimeout <=> Overdue = {})
BY DEF TypeOK, NoStaleTimeout, Overdue

\* Every step keeps the invariant.
LEMMA NextInductive == IInv /\ [Next]_kernelVars => IInv'
<1> SUFFICES ASSUME IInv, [Next]_kernelVars PROVE IInv'
  OBVIOUS
<1>1. CASE UNCHANGED kernelVars
  BY <1>1 DEF kernelVars, IInv, KInv, TypeOK, NestCountExact, IdleReady, TargetReady,
     LoadedReady, UnreadyInSched, HighestKnown, SwitchPending, NoStaleTimeout
<1>2. CASE Next
  <2>1. KInv' /\ Overdue' \subseteq Overdue
    BY <1>2, ProcessCallInductive, SchedReturnsInductive, HandlersInductive,
       HandlersOverdue, DeviceISRInductive DEF Next, IInv
  <2>2. TypeOK /\ TypeOK'
    BY <2>1 DEF IInv, KInv
  <2>3. (NoStaleTimeout <=> Overdue = {})'
    BY <2>2 DEF TypeOK, NoStaleTimeout, Overdue
  <2>4. QED
    BY <2>1, <2>2, <2>3, NoneOverdue DEF IInv
<1>3. QED
  BY <1>1, <1>2

\* The invariant holds in every state of the kernel.
THEOREM Invariance == Spec => []IInv
BY InitInductive, NextInductive, PTL DEF Spec

\* Every variable stays in its range: in particular a process is only ever
\* looked up by a priority that the table has.
THEOREM TypeCorrect == Spec => []TypeOK
<1>1. IInv => TypeOK
  BY DEF IInv, KInv
<1>2. QED
  BY <1>1, Invariance, PTL

\* sched() does not let a process that has suspended itself go on.
THEOREM RunningIsReady == Spec => []ReadyRuns
<1>1. IInv => ReadyRuns
  BY DEF IInv, KInv, LoadedReady, SwitchPending, ReadyRuns, InThread
<1>2. QED
  BY <1>1, Invariance, PTL

\* The loop of sched() never turns without a switch on its way.
THEOREM SwitchLoopEnds == Spec => []SpinEnds
<1>1. IInv => SpinEnds
  BY DEF IInv, KInv, LoadedReady, SwitchPending, SpinEnds, InThread
<1>2. QED
  BY <1>1, Invariance, PTL

\* Whenever a process executes and a higher one is ready, that one is the
\* process the last switch took out.
THEOREM PriorityInversion == Spec => []InversionOnlyBySelfWake
<1>1. IInv => InversionOnlyBySelfWake
  BY DEF IInv, KInv, HighestKnown, SwitchPending, InversionOnlyBySelfWake, InThread
<1>2. QED
  BY <1>1, Invariance, PTL

\* A ready process has no timeout running.
THEOREM TimeoutsNotStale == Spec => []NoStaleTimeout
<1>1. IInv => NoStaleTimeout
  BY DEF IInv
<1>2. QED
  BY <1>1, Invariance, PTL

-----------------------------------------------------------------------------
(***************************************************************************)
(* What steps may do, whoever makes them.  The services prove that their   *)
(* steps are of this kind, too.                                            *)
(***************************************************************************)

\* A call of a process, which may change its own timeout or wake somebody; a
\* handler, which may wake; or a step of SysTick or PendSV.
KernelStep ==
  \/ /\ InThread /\ UNCHANGED exc
     /\ \/ UNCHANGED Timeout
        \/ \E t : Timeout' = [Timeout EXCEPT ![CurProcPriority] = t]
        \/ \E q \in TPriority : set_awake(q)
  \/ /\ TISRW
     /\ ReadyProcessMap \subseteq ReadyProcessMap'
     /\ ReadyProcessMap' \in SUBSET TPriority
     /\ UNCHANGED Timeout \/ \E q \in TPriority : set_awake(q)
  \/ SysTickEntry \/ SysTick \/ PendSV
  \/ UNCHANGED kernelVars

\* A switch that the USART asks for while SysTick is entered is to a process
\* that outranks the one SysTick interrupted.
TickPending ==
  exc \in {"tick_enter", "tick_body", "tick_exit"} /\ pendSV =>
    \E q \in ReadyProcessMap : q > CurProcPriority

\* Every such step keeps it so.
LEMMA TickPendingInductive ==
  ASSUME KInv, TickPending, KernelStep
  PROVE  TickPending'
<1> SUFFICES ASSUME exc' \in {"tick_enter", "tick_body", "tick_exit"}, pendSV'
             PROVE  \E q \in ReadyProcessMap' : q > CurProcPriority'
  BY DEF TickPending
<1>1. TypeOK /\ IdleReady /\ LoadedReady
  BY DEF KInv
<1>2. CASE /\ TISRW
           /\ ReadyProcessMap \subseteq ReadyProcessMap'
           /\ ReadyProcessMap' \in SUBSET TPriority
  <2>1. UNCHANGED <<CurProcPriority, exc>>
    BY <1>2 DEF TISRW
  <2>2. CASE pendSV
    BY <1>2, <2>1, <2>2 DEF TickPending
  <2>3. CASE ~pendSV
    <3> DEFINE h == highest_priority(ReadyProcessMap')
    <3>1. h # CurProcPriority
      BY <1>2, <2>3 DEF TISRW, sched_isr, schedVars
    <3>2. CurProcPriority \in ReadyProcessMap'
      BY <1>1, <1>2, <2>1, <2>3 DEF LoadedReady, SwitchPending
    <3>3. h \in ReadyProcessMap' /\ \A q \in ReadyProcessMap' : q <= h
      BY <1>2, <3>2, HighestPriority
    <3> HIDE DEF h
    <3>4. h \in Int /\ CurProcPriority \in Int /\ CurProcPriority <= h
      <4>1. ReadyProcessMap' \subseteq Int
        BY <1>2, KernelAssumption DEF TPriority, prIDLE, pr0
      <4>2. QED
        BY <3>2, <3>3, <4>1
    <3>5. QED
      BY <2>1, <3>1, <3>3, <3>4
  <2>4. QED
    BY <2>2, <2>3
<1>3. CASE SysTickEntry
  BY <1>3 DEF SysTickEntry, InThread
<1>4. CASE ISR_Enter \/ system_timer
  <2>1. /\ exc \in {"tick_enter", "tick_body", "tick_exit"}
        /\ ReadyProcessMap \subseteq ReadyProcessMap'
        /\ UNCHANGED <<CurProcPriority, pendSV>>
    BY <1>4 DEF ISR_Enter, system_timer
  <2>2. QED
    BY <2>1 DEF TickPending
<1>5. CASE UNCHANGED kernelVars
  BY <1>5 DEF kernelVars, TickPending
<1>6. ~(InThread /\ UNCHANGED exc)
  BY DEF InThread
<1>7. ~ISR_Exit /\ ~PendSV
  BY DEF ISR_Exit, PendSV, PendSVEntry, context_switch_hook
<1>8. QED
  BY <1>2, <1>3, <1>4, <1>5, <1>6, <1>7 DEF KernelStep, SysTick

\* The exit of SysTick looks at the ready set as it is then.
LEMMA TickGoesToHighest ==
  ASSUME KInv, TickPending, KernelStep, exc = "tick_exit", exc' = "thread"
  PROVE  GoesToHighest'
<1>1. ISR_Exit
  BY DEF KernelStep, TISRW, SysTickEntry, SysTick, ISR_Enter, system_timer, PendSV,
     PendSVEntry, context_switch_hook, kernelVars, InThread
<1>2. TypeOK /\ IdleReady /\ ISR_NestCount = 1
  BY DEF KInv, NestCountExact
<1>3. sched_isr /\ UNCHANGED <<ReadyProcessMap, CurProcPriority>>
  BY <1>1, <1>2 DEF ISR_Exit
<1> DEFINE h == highest_priority(ReadyProcessMap)
<1>4. h \in ReadyProcessMap /\ h \in TPriority /\ \A q \in ReadyProcessMap : q <= h
  BY <1>2, HighestReady DEF TypeOK, IdleReady
<1>5. CASE h # CurProcPriority
  BY <1>3, <1>5 DEF sched_isr, GoesToHighest
<1>6. CASE h = CurProcPriority
  <2>1. \A q \in ReadyProcessMap : ~(q > CurProcPriority)
    <3>1. ReadyProcessMap \subseteq Int /\ CurProcPriority \in Int
      BY <1>2, KernelAssumption DEF TypeOK, TPriority, prIDLE, pr0
    <3> HIDE DEF h
    <3>2. QED
      BY <1>4, <1>6, <3>1
  <2>2. ~pendSV
    BY <2>1 DEF TickPending
  <2>3. QED
    BY <1>3, <1>6, <2>2 DEF sched_isr, schedVars, GoesToHighest
<1>7. QED
  BY <1>5, <1>6

\* Nobody's timeout is touched while it is asleep, but by the tick.
LEMMA SleepRuns ==
  ASSUME KInv, KernelStep, NEW p \in TPriority \ ReadyProcessMap, Timeout[p] # 0
  PROVE  SleepRunsDown(p)
<1>1. TypeOK /\ IdleReady
  BY DEF KInv
<1>2. CASE system_timer
  <2>1. Timeout[p] \in Nat /\ p \in (prIDLE + 1) .. pr0
    BY <1>1, KernelAssumption
    DEF TypeOK, timeout_t, IdleReady, TPriority, prIDLE, pr0
  <2>2. Timeout'[p] = Timeout[p] - 1
    BY <1>2, <2>1 DEF system_timer
  <2>3. p \in ReadyProcessMap' <=> Timeout'[p] = 0
    BY <1>2, <2>1 DEF system_timer
  <2>4. exc = "tick_body" /\ exc' = "tick_exit"
    BY <1>2 DEF system_timer
  <2>5. QED
    BY <2>2, <2>3, <2>4 DEF SleepRunsDown
<1>3. ASSUME NEW q \in TPriority, set_awake(q), exc' = exc
      PROVE  SleepRunsDown(p)
  BY <1>1, <1>3 DEF set_awake, TypeOK, SleepRunsDown
<1>4. ASSUME NEW t, InThread, Timeout' = [Timeout EXCEPT ![CurProcPriority] = t],
             exc' = exc
      PROVE  SleepRunsDown(p)
  <2>1. CurProcPriority # p
    BY <1>4, RunnerReady
  <2>2. Timeout'[p] = Timeout[p]
    BY <1>1, <1>4, <2>1 DEF TypeOK
  <2>3. QED
    BY <1>4, <2>2 DEF SleepRunsDown
<1>5. ASSUME UNCHANGED Timeout, exc' # "tick_exit" \/ exc' = exc
      PROVE  SleepRunsDown(p)
  BY <1>5 DEF SleepRunsDown
<1>6. QED
  BY <1>2, <1>3, <1>4, <1>5
  DEF KernelStep, TISRW, SysTickEntry, SysTick, PendSV, ISR_Enter, ISR_Exit,
      PendSVEntry, context_switch_hook, kernelVars

\* A process that sets nothing but its own timeout, or wakes, is in a call.
LEMMA ProcessCallIsStep ==
  ASSUME ProcessCall \/ \E p \in TPriority : SchedReturns(p)
  PROVE  KernelStep
BY DEF ProcessCall, Running, sleep, wake_up, force_wake_up, SchedReturns,
   LeavesSched, KernelStep

\* A device interrupt is a handler that wakes.
LEMMA DeviceISRIsStep ==
  ASSUME KInv, DeviceISR
  PROVE  KernelStep
BY DEF DeviceISR, set_awake, KInv, TypeOK, KernelStep

\* The steps of the kernel alone.
LEMMA NextIsStep ==
  ASSUME KInv, [Next]_kernelVars
  PROVE  KernelStep
BY ProcessCallIsStep, DeviceISRIsStep DEF Next, KernelStep

\* What a kernel guarantees whose steps are of this kind and keep KInv.
KernelSound == TypeOK /\ ReadyRuns /\ SpinEnds /\ InversionOnlyBySelfWake

TimedStep ==
  \A p \in TPriority \ ReadyProcessMap : Timeout[p] # 0 => SleepRunsDown(p)

TickStep == exc = "tick_exit" /\ exc' = "thread" => GoesToHighest'

\* They do, one step at a time, as long as TickPending is kept along with KInv.
LEMMA StepGuarantees ==
  /\ KernelInit => TickPending
  /\ KInv => KernelSound
  /\ KInv /\ TickPending /\ KernelStep => TickPending' /\ TickStep /\ TimedStep
<1>1. KernelInit => TickPending
  BY DEF KernelInit, TickPending
<1>2. KInv => KernelSound
  BY DEF KInv, LoadedReady, HighestKnown, SwitchPending, KernelSound, ReadyRuns,
     SpinEnds, InversionOnlyBySelfWake, InThread
<1>3. KInv /\ TickPending /\ KernelStep => TickPending' /\ TickStep /\ TimedStep
  BY TickPendingInductive, TickGoesToHighest, SleepRuns DEF TickStep, TimedStep
<1>4. QED
  BY <1>1, <1>2, <1>3

\* Every tick hands the processor to the highest ready process: an inversion
\* of priorities lasts until the next one at most.
THEOREM InversionEndsAtTick == Spec => TickEndsInversion
<1>1. IInv /\ TickPending /\ [Next]_kernelVars => TickPending' /\ [TickStep]_kernelVars
  BY NextIsStep, StepGuarantees DEF IInv
<1>2. KernelInit => TickPending
  BY StepGuarantees
<1>3. QED
  BY <1>1, <1>2, Invariance, PTL DEF Spec, TickEndsInversion, TickStep

\* A timed sleep lasts as many ticks as it was asked for, unless somebody
\* wakes the process.
THEOREM SleepsTimed == Spec => SleepIsTimed
<1>1. IInv /\ [Next]_kernelVars => [TimedStep]_kernelVars
  BY NextIsStep, SleepRuns DEF IInv, TimedStep
<1>2. QED
  BY <1>1, Invariance, PTL DEF Spec, SleepIsTimed, TimedStep
=============================================================================
