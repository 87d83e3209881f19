----------------------------- MODULE MutexSpec -----------------------------
(***************************************************************************)
(* What a mutex promises: it has at most one owner, who got it while it    *)
(* was free and keeps it until it is released; a process that finds it     *)
(* taken stays inside lock until it gets it.  Who is next is left open.    *)
(***************************************************************************)
CONSTANT Process

VARIABLES
  owner,   \* empty, or the one process that has the mutex
  waiting  \* processes inside lock

mutexVars == <<owner, waiting>>

Init ==
  /\ owner = {}
  /\ waiting = {}

Acquire(p) ==
  /\ owner = {}
  /\ owner' = {p}
  /\ waiting' = waiting \ {p}

Await(p) ==
  /\ owner # {}
  /\ p \notin owner \cup waiting
  /\ waiting' = waiting \cup {p}
  /\ UNCHANGED owner

Release ==
  /\ owner' = {}
  /\ UNCHANGED waiting

Next == Release \/ \E p \in Process : Acquire(p) \/ Await(p)

Spec == Init /\ [][Next]_mutexVars
=============================================================================
