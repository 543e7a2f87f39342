----------------------------- MODULE CompatPpoll -----------------------------
(***************************************************************************)
(* ppoll made of poll and pthread_sigmask, for systems without it          *)
(* (compat_ppoll.c).  The mask is changed before poll is called, so a      *)
(* signal may come in between, and its handler has run when poll goes to   *)
(* sleep.  A kqueue that is polled with the caller's descriptors remembers *)
(* such signals.  One thread calls; signals come between any two of its    *)
(* system calls.                                                           *)
(***************************************************************************)
EXTENDS FiniteSets

CONSTANTS
  Caught,      \* the signals with a handler that interrupts system calls
  Restarted    \* those that are ignored, or whose handler restarts them

VARIABLES
  blocked,     \* the thread's signal mask
  posted,      \* the signals that are pending
  due,         \* one of the caller's descriptors is ready
  call,        \* what the call has on its stack
  kqueued,     \* the signals its kqueue waits for, EVFILT_SIGNAL one-shot
  fired,       \* its kqueue is readable
  handled      \* the signals handled since the call changed the mask

ppollvars == <<blocked, posted, due, call, kqueued, fired, handled>>

All == Caught \cup Restarted
NoCall == [at |-> "none"]

Init ==
  /\ blocked = {} /\ posted = {} /\ due = FALSE /\ call = NoCall
  /\ kqueued = {} /\ fired = FALSE /\ handled = {}

Goto(place) == call' = [call EXCEPT !.at = place]
-----------------------------------------------------------------------------
(* The kernel and the other threads *)

Post(s) ==
  /\ posted' = posted \cup {s}
  /\ fired' = (fired \/ s \in kqueued) /\ kqueued' = kqueued \ {s}
  /\ UNCHANGED <<blocked, due, call, handled>>

\* Another thread's sigwait.
Takes(s) ==
  /\ s \in posted /\ posted' = posted \ {s}
  /\ UNCHANGED <<blocked, due, call, kqueued, fired, handled>>

\* A handler runs; poll is interrupted by one of Caught.
Handle(s) ==
  /\ s \in posted \ blocked /\ posted' = posted \ {s}
  /\ handled' = IF call.at = "polling" THEN handled \cup {s} ELSE handled
  /\ IF call.at = "asleep" /\ s \in Caught THEN Goto("restore") ELSE UNCHANGED call
  /\ UNCHANGED <<blocked, due, kqueued, fired>>

ReadinessChanges ==
  /\ due' = ~due /\ UNCHANGED <<blocked, posted, call, kqueued, fired, handled>>

pthread_sigmask(mask) ==
  /\ call = NoCall /\ blocked' = mask
  /\ UNCHANGED <<posted, due, call, kqueued, fired, handled>>
-----------------------------------------------------------------------------
(* The call *)

\* Only a wait for signals that the new mask lets through needs the kqueue.  (No sigmask
\* is the mask the thread has.)
Watched(mask, timeout) == IF timeout = "zero" THEN {} ELSE (blocked \ mask) \cap Caught

compat_ppoll(mask, timeout) ==
  /\ call = NoCall
  /\ call' = [at |-> IF Watched(mask, timeout) = {} THEN "mask" ELSE "kqueue",
              mask |-> mask, timeout |-> timeout, watched |-> Watched(mask, timeout),
              origmask |-> blocked]
  /\ UNCHANGED <<blocked, posted, due, kqueued, fired, handled>>

Returns ==
  /\ call' = NoCall /\ kqueued' = {} /\ fired' = FALSE /\ handled' = {}

Registers ==
  /\ call.at = "kqueue"
  /\ kqueued' = call.watched /\ Goto("pending")
  /\ UNCHANGED <<blocked, posted, due, fired, handled>>

\* kqueue, kevent, sigpending or malloc fails; the mask has not been changed.
Fails ==
  /\ call.at \in {"kqueue", "pending", "mask"} /\ call.watched # {} /\ Returns
  /\ UNCHANGED <<blocked, posted, due>>

\* Mutant: the signals that were pending before are not looked for.
MutLooksForPending ==
  /\ call.at = "pending" /\ Goto("mask")
  /\ UNCHANGED <<blocked, posted, due, kqueued, fired, handled>>

\* A user event stands for a signal that was posted before it was watched.
LooksForPending ==
  /\ call.at = "pending" /\ Goto("mask")
  /\ fired' = (fired \/ posted \cap call.watched # {})
  /\ UNCHANGED <<blocked, posted, due, kqueued, handled>>

SetsMask ==
  /\ call.at = "mask" /\ blocked' = call.mask /\ Goto("polling")
  /\ UNCHANGED <<posted, due, kqueued, fired, handled>>

\* poll finds one of the descriptors or the kqueue ready, or sleeps.
CallsPoll ==
  /\ call.at = "polling"
  /\ Goto(IF due \/ fired \/ call.timeout = "zero" THEN "restore" ELSE "asleep")
  /\ UNCHANGED <<blocked, posted, due, kqueued, fired, handled>>

PollEnds ==
  /\ call.at = "asleep" /\ (due \/ fired \/ call.timeout # "infinite")
  /\ Goto("restore")
  /\ UNCHANGED <<blocked, posted, due, kqueued, fired, handled>>

\* EINTR if only the kqueue was ready.
RestoresMask ==
  /\ call.at = "restore" /\ blocked' = call.origmask /\ Returns
  /\ UNCHANGED <<posted, due>>
-----------------------------------------------------------------------------
Next ==
  \/ \E s \in All : Post(s) \/ Takes(s) \/ Handle(s)
  \/ ReadinessChanges
  \/ \E mask \in SUBSET All :
       \/ pthread_sigmask(mask)
       \/ \E timeout \in {"zero", "finite", "infinite"} : compat_ppoll(mask, timeout)
  \/ Registers \/ Fails \/ LooksForPending \/ SetsMask \/ CallsPoll \/ PollEnds
  \/ RestoresMask

Spec == Init /\ [][Next]_ppollvars
-----------------------------------------------------------------------------
\* The thread does not stay asleep after the handler of a signal ran that only the
\* call's mask lets through, although it ran before poll was called: whenever the
\* signal came, the kqueue is readable.
SignalEndsWait ==
  call.at = "asleep" /\ handled \cap call.watched # {} => fired
=============================================================================
