---------------------------- MODULE EventFlagSpec ----------------------------
(***************************************************************************)
(* What an event flag promises: a signal releases everybody who is         *)
(* blocked, and is kept for the next caller of wait when nobody is.  A     *)
(* blocked process can also give up.  Nothing is said here of priorities,  *)
(* interrupts or the ready map.                                            *)
(***************************************************************************)
CONSTANT Process

VARIABLES
  signaled,  \* a signal is kept
  blocked,   \* processes waiting for a signal
  released,  \* processes a signal has released, still inside wait
  gaveUp     \* processes that stopped waiting, still inside wait

flagVars == <<signaled, blocked, released, gaveUp>>
inside == blocked \cup released \cup gaveUp

Init ==
  /\ signaled = FALSE
  /\ blocked = {}
  /\ released = {}
  /\ gaveUp = {}

\* wait() finds a signal and takes it.
Take ==
  /\ signaled
  /\ signaled' = FALSE
  /\ UNCHANGED <<blocked, released, gaveUp>>

Block(p) ==
  /\ ~signaled
  /\ p \notin inside
  /\ blocked' = blocked \cup {p}
  /\ UNCHANGED <<signaled, released, gaveUp>>

Signal ==
  /\ IF blocked = {} THEN signaled' = TRUE ELSE UNCHANGED signaled
  /\ released' = released \cup blocked
  /\ blocked' = {}
  /\ UNCHANGED gaveUp

Clear ==
  /\ signaled' = FALSE
  /\ UNCHANGED <<blocked, released, gaveUp>>

\* Some processes stop waiting together: one tick can end several timeouts.
GiveUp ==
  \E P \in SUBSET blocked :
    /\ blocked' = blocked \ P
    /\ gaveUp' = gaveUp \cup P
    /\ UNCHANGED <<signaled, released>>

Return(p) ==
  /\ p \in released \cup gaveUp
  /\ released' = released \ {p}
  /\ gaveUp' = gaveUp \ {p}
  /\ UNCHANGED <<signaled, blocked>>

Next ==
  \/ Take
  \/ \E p \in Process : Block(p) \/ Return(p)
  \/ Signal
  \/ Clear
  \/ GiveUp

Spec == Init /\ [][Next]_flagVars
=============================================================================
