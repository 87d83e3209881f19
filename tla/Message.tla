------------------------------- MODULE Message -------------------------------
(***************************************************************************)
(* TBaseMessage and the message template (scmRTOS/Common/OS_Services.{h,   *)
(* cpp}): a cell for one message, and an event flag that tells of it.      *)
(* TBaseMessage is TEventFlag under other names, so the flag's actions are *)
(* used: its ProcessMap is the message's, its Value is NonEmpty.           *)
(*                                                                         *)
(* The cell and the flag are used in two critical sections, by a sender    *)
(* (operator=, then send) as by a receiver (wait, then out): both may be   *)
(* interrupted in between, by a sender with a newer message or by another  *)
(* receiver.  A sender in an interrupt handler is not.                     *)
(***************************************************************************)
EXTENDS EventFlag

VARIABLES
  Msg,    \* the content of the cell, see Content
  client  \* [TPriority -> ClientAt]

messageVars == <<serviceVars, Msg, client>>

\* none: never assigned; unread: nobody has read it yet; read: somebody has,
\* or a reset gave it up.
Content == {"none", "unread", "read"}

\* assigned: after operator=, before send; told: wait returned true, before out.
ClientAt == {"own", "assigned", "told"}

MessageInit ==
  /\ FlagInit
  /\ Msg = "none"
  /\ client = [p \in TPriority |-> "own"]

NonEmpty == Value

At(p, here) == Running(p) /\ client[p] = here
GoesTo(p, there) == client' = [client EXCEPT ![p] = there]

-----------------------------------------------------------------------------
(***************************************************************************)
(* The message's operations                                                *)
(***************************************************************************)

\* operator=, the first half of a sender.
Assign(p) ==
  /\ At(p, "own")
  /\ Msg' = "unread"
  /\ GoesTo(p, "assigned")
  /\ UNCHANGED serviceVars

send(p) ==
  /\ At(p, "assigned")
  /\ signal
  /\ GoesTo(p, "own")
  /\ UNCHANGED Msg

wait_message(p, timeout) ==
  /\ At(p, "own")
  /\ wait(timeout)
  /\ GoesTo(p, IF NonEmpty THEN "told" ELSE "own")
  /\ UNCHANGED Msg

WaitMessageReturns(p) ==
  /\ WaitReturns(p)
  /\ GoesTo(p, IF is_timeouted(ProcessMap) THEN "own" ELSE "told")
  /\ UNCHANGED Msg

\* out(), and the conversion to T, which reads the cell in the same way.
out(p) ==
  /\ At(p, "told")
  /\ Msg' = "read"
  /\ GoesTo(p, "own")
  /\ UNCHANGED serviceVars

\* reset() leaves the cell as it is; nobody is going to be told of it.
reset(p) ==
  /\ At(p, "own")
  /\ clear
  /\ Msg' = IF Msg = "unread" THEN "read" ELSE Msg
  /\ UNCHANGED client

\* An interrupt handler assigns the message and sends it.
send_isr ==
  /\ SignalISR
  /\ Msg' = "unread"
  /\ UNCHANGED client

-----------------------------------------------------------------------------
(***************************************************************************)
(* Senders and receivers                                                   *)
(***************************************************************************)

MessageCall ==
  \E p \in TPriority \ {prIDLE} :
    \/ Assign(p)
    \/ send(p)
    \/ \E t \in timeout_t : wait_message(p, t)
    \/ out(p)
    \/ reset(p)

OtherSteps ==
  /\ \/ At(CurProcPriority, "own") /\ OtherCall
     \/ OtherReturns
     \/ OtherISR
     \/ KernelHandlers
  /\ UNCHANGED <<Msg, client>>

MessageNext ==
  \/ MessageCall
  \/ \E p \in TPriority : WaitMessageReturns(p)
  \/ send_isr
  \/ OtherSteps

MessageSpec == MessageInit /\ [][MessageNext]_messageVars

\* Handlers are as fair as in the kernel alone.  A process that has the
\* processor is interrupted again and again but goes on in between.
MessageFairSpec ==
  /\ MessageSpec
  /\ SF_messageVars(SysTickEntry /\ UNCHANGED <<flagVars, Msg, client>>)
  /\ WF_messageVars(SysTick /\ UNCHANGED <<flagVars, Msg, client>>)
  /\ WF_messageVars(PendSV /\ UNCHANGED <<flagVars, Msg, client>>)
  /\ SF_messageVars(WaitMessageReturns(pr0))

-----------------------------------------------------------------------------
(***************************************************************************)
(* Properties                                                              *)
(***************************************************************************)

\* The last message is not lost: while nobody has read it, the next wait
\* returns at once, or somebody is on the way to it: a sender that still has
\* to tell, or a receiver that was released, whatever its timeout did since,
\* and has not read the cell yet.  (An earlier message may be overwritten.)
LastMessageNotLost ==
  Msg = "unread" =>
    \/ NonEmpty
    \/ \E p \in TPriority : client[p] # "own"
    \/ WaitingFor \ ProcessMap # {}
=============================================================================
