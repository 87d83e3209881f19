------------------------------ MODULE Services ------------------------------
(***************************************************************************)
(* TService, the base class of the interprocess services                   *)
(* (scmRTOS/Common/OS_Services.{h,cpp}): how a process is put on a service's *)
(* map of waiters and taken off it again.  A map is passed by reference in *)
(* the code: here waiters_map is a variable of the service.                *)
(*                                                                         *)
(* All of this runs under the caller's TCritSect, so each operator is part *)
(* of one step, up to the call of the scheduler; a process that is         *)
(* switched out inside suspend() is in inSched and continues with          *)
(* LeavesSched.                                                            *)
(***************************************************************************)
EXTENDS Kernel

\* A waiter that the ready map already holds was woken by its timeout or by
\* force_wake_up, and has not yet run to take itself off the map.
Timeouted(waiters_map) == waiters_map \cap ReadyProcessMap

\* The first half of suspend(), up to its call of reschedule().
suspend(waiters_map) ==
  /\ waiters_map' = waiters_map \cup {CurProcPriority}
  /\ ReadyProcessMap' = ReadyProcessMap \ {CurProcPriority}
  /\ scheduler

\* Mutant: the timeout is asked instead of the map.
is_timeouted_ByTimeout(waiters_map) == Timeout[CurProcPriority] = 0

\* The test of is_timeouted(), for the process that has just returned from
\* suspend(): if its tag is still there, nobody resumed it through the map.
\* The other half of is_timeouted() takes the tag off.
is_timeouted(waiters_map) == CurProcPriority \in waiters_map

\* Mutant: only the highest waiter is woken, and the whole map is cleared.
resume_all_isr_WakesOne(waiters_map) ==
  /\ waiters_map \ ReadyProcessMap # {}
  /\ ReadyProcessMap' = ReadyProcessMap \cup {highest_priority(waiters_map)}
  /\ waiters_map' = {}

\* There is a process to wake, and all of them are.
resume_all_isr(waiters_map) ==
  /\ waiters_map \ ReadyProcessMap # {}
  /\ ReadyProcessMap' = ReadyProcessMap \cup waiters_map
  /\ waiters_map' = Timeouted(waiters_map)

\* The same from a process, which may be switched out at once.
resume_all(waiters_map) == resume_all_isr(waiters_map) /\ scheduler

\* Mutant: the process that is woken keeps its tag on the map.
resume_next_ready_isr_KeepsTag(waiters_map) ==
  LET Ready == waiters_map \ ReadyProcessMap IN
  /\ Ready # {}
  /\ ReadyProcessMap' = ReadyProcessMap \cup {highest_priority(Ready)}
  /\ waiters_map' = waiters_map

\* Only the highest of those still blocked is woken.
resume_next_ready_isr(waiters_map) ==
  LET Ready == waiters_map \ ReadyProcessMap
      next == highest_priority(Ready)
  IN /\ Ready # {}
     /\ ReadyProcessMap' = ReadyProcessMap \cup {next}
     /\ waiters_map' = waiters_map \ {next}

resume_next_ready(waiters_map) ==
  resume_next_ready_isr(waiters_map) /\ scheduler

\* The result FALSE of each: nobody to wake, nothing changed.
NobodyToResume(waiters_map) == waiters_map \subseteq ReadyProcessMap
=============================================================================
