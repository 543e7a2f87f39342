-------------------------- MODULE AbstractEventFd ---------------------------
(***************************************************************************)
(* What an eventfd promises: a counter that a write adds to and a read     *)
(* takes from, all of it or one at a time.  A reader of an empty counter   *)
(* waits, and one that waits while the counter stays positive gets it.     *)
(* EventFd.tla implements this module.                                     *)
(***************************************************************************)
EXTENDS Naturals

CONSTANTS
  Threads,
  MaxCounter   \* UINT64_MAX - 1, the largest value of a counter

VARIABLES
  semaphore,   \* created with EFD_SEMAPHORE
  counter,
  readers,     \* the threads inside a read
  taken        \* taken[t]: what the last read of t returned, 0 if nothing

vars == <<semaphore, counter, readers, taken>>

Init ==
  /\ semaphore \in BOOLEAN /\ counter \in 0..MaxCounter
  /\ readers = {} /\ taken = [t \in Threads |-> 0]

Add(v) ==
  /\ counter + v <= MaxCounter
  /\ counter' = counter + v
  /\ UNCHANGED <<semaphore, readers, taken>>

Ask(t) ==
  /\ t \notin readers
  /\ readers' = readers \cup {t} /\ taken' = [taken EXCEPT ![t] = 0]
  /\ UNCHANGED <<semaphore, counter>>

Take(t) ==
  /\ t \in readers /\ counter > 0
  /\ taken' = [taken EXCEPT ![t] = IF semaphore THEN 1 ELSE counter]
  /\ counter' = counter - taken'[t]
  /\ readers' = readers \ {t}
  /\ UNCHANGED semaphore

\* EAGAIN, or the wait was interrupted.
GiveUp(t) ==
  /\ t \in readers
  /\ readers' = readers \ {t}
  /\ UNCHANGED <<semaphore, counter, taken>>

\* The descriptor is closed and another one opened.
Reopen == readers = {} /\ Init'

Next ==
  \/ \E v \in 0..MaxCounter : Add(v)
  \/ \E t \in Threads : Ask(t) \/ Take(t) \/ GiveUp(t)
  \/ Reopen

Spec == Init /\ [][Next]_vars /\ \A t \in Threads : WF_vars(Take(t))
=============================================================================
