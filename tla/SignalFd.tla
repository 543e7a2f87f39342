------------------------------ MODULE SignalFd ------------------------------
(***************************************************************************)
(* A signalfd of the epoll shim as built for Apple systems (signalfd.c,    *)
(* signalfd_ctx.c).  The kqueue only observes signals; reading one takes   *)
(* it from the process with sigwait.  Signals come, and other consumers    *)
(* take them, between any two system calls of a thread that works on the   *)
(* descriptor under its mutex.                                             *)
(***************************************************************************)
EXTENDS Naturals, KQueueEvent

CONSTANTS
  Threads, Signals, NoOwner,
  Room         \* the signalfd_siginfos a reader's buffer has room for

VARIABLES
  sigs,       \* the signals of the descriptor, {} when there is none
  nonblock,   \* O_NONBLOCK
  pending,    \* the blocked signals that are pending for the process
  observed,   \* the kqueue holds an EVFILT_SIGNAL event
  event,      \* kqueue_event
  mutex,      \* the description's mutex: its owner or NoOwner
  pc,         \* pc[t]: where t is in its call
  got         \* got[t]: the signals t's read has; after the first it does not block

vars == <<sigs, nonblock, pending, observed, event, mutex, pc, got>>

Init ==
  /\ sigs = {} /\ nonblock = FALSE
  /\ pending = {} /\ observed = FALSE /\ event = kqueue_event_init(FALSE)
  /\ mutex = NoOwner
  /\ pc = [t \in Threads |-> "idle"] /\ got = [t \in Threads |-> 0]

has_pending == pending \cap sigs # {}
Readable    == observed \/ event.queued

Goto(t, place) == pc' = [pc EXCEPT ![t] = place]
Lock(t)   == mutex = NoOwner /\ mutex' = t
Unlock(t) == mutex' = NoOwner
-----------------------------------------------------------------------------
(* Creation *)

\* A signal that is pending already was not observed: trigger by hand.
signalfd_ctx_init(mask) ==
  /\ sigs' = mask /\ observed' = FALSE
  /\ event' = kqueue_event_init(pending \cap mask # {})

\* (A descriptor of no signals is never readable.)
signalfd(mask, block) ==
  /\ sigs = {} /\ mask # {}
  /\ signalfd_ctx_init(mask) /\ nonblock' = ~block
  /\ UNCHANGED <<pending, mutex, pc, got>>

signalfd_close ==
  /\ sigs # {} /\ \A t \in Threads : pc[t] = "idle"
  /\ sigs' = {} /\ nonblock' = FALSE
  /\ observed' = FALSE /\ event' = kqueue_event_init(FALSE)
  /\ UNCHANGED <<pending, mutex, pc, got>>
-----------------------------------------------------------------------------
(* The process's signals *)

Deliver(s) ==
  /\ pending' = pending \cup {s}
  /\ observed' = (observed \/ s \in sigs)
  /\ UNCHANGED <<sigs, nonblock, event, mutex, pc, got>>

\* Another thread's sigwait or another signalfd takes a signal.
TakenElsewhere(s) ==
  /\ s \in pending /\ pending' = pending \ {s}
  /\ UNCHANGED <<sigs, nonblock, observed, event, mutex, pc, got>>
-----------------------------------------------------------------------------
(* Reading *)

StartRead(t) ==
  /\ sigs # {} /\ pc[t] = "idle" /\ Goto(t, "read")
  /\ got' = [got EXCEPT ![t] = 0]
  /\ UNCHANGED <<sigs, nonblock, pending, observed, event, mutex>>

\* sigpending says whether to call sigwait.
LooksForSignal(t) ==
  /\ pc[t] = "read" /\ Lock(t)
  /\ Goto(t, IF has_pending THEN "sigwait" ELSE "clear")
  /\ UNCHANGED <<sigs, nonblock, pending, observed, event, got>>

\* sigwait waits until there is a signal, with the mutex held.
sigwait(t) ==
  /\ pc[t] = "sigwait"
  /\ \E s \in pending \cap sigs : pending' = pending \ {s}
  /\ got' = [got EXCEPT ![t] = @ + 1]
  /\ Goto(t, "clear_got")
  /\ UNCHANGED <<sigs, nonblock, observed, event, mutex>>

AfterClear ==
  [clear |-> "recheck", clear_got |-> "recheck_got", poll_clear |-> "poll_recheck",
   before_clear |-> "before_recheck", after_clear |-> "after_recheck"]

\* Empties the kqueue.  A signal that comes before the recheck is not lost.
Clears(t) ==
  /\ pc[t] \in DOMAIN AfterClear
  /\ observed' = FALSE /\ event' = kqueue_event_clear(event)
  /\ Goto(t, AfterClear[pc[t]])
  /\ UNCHANGED <<sigs, nonblock, pending, mutex, got>>

\* Mutant: no recheck.
MutRecheck == event' = event

Recheck == event' = IF has_pending THEN kqueue_event_trigger(event) ELSE event

\* After a signal a read with room for more goes on without blocking; one that found
\* none returns what it has, or EAGAIN, or polls the kqueue.
EndsTry(t) ==
  /\ pc[t] \in {"recheck", "recheck_got"}
  /\ Recheck /\ Unlock(t)
  /\ \/ pc[t] = "recheck_got" /\ Goto(t, IF got[t] < Room THEN "read" ELSE "idle")
     \/ pc[t] = "recheck" /\ Goto(t, IF nonblock \/ got[t] > 0 THEN "idle" ELSE "polling")
  /\ UNCHANGED <<sigs, nonblock, pending, observed, got>>

PollReturns(t) ==
  /\ pc[t] = "polling" /\ Readable
  /\ Goto(t, "read")
  /\ UNCHANGED <<sigs, nonblock, pending, observed, event, mutex, got>>

\* By a handler of some other signal.
PollInterrupted(t) ==
  /\ pc[t] = "polling" /\ Goto(t, "idle")
  /\ UNCHANGED <<sigs, nonblock, pending, observed, event, mutex, got>>
-----------------------------------------------------------------------------
(* poll_fun, called by an epoll instance *)

\* With revents it wants to know whether the descriptor is readable: yes if a signal
\* is pending, and the kqueue stays as it is.
signalfd_poll(t, revents) ==
  /\ sigs # {} /\ pc[t] = "idle"
  /\ IF revents /\ has_pending
     THEN mutex = NoOwner /\ UNCHANGED <<mutex, pc>>
     ELSE Lock(t) /\ Goto(t, "poll_clear")
  /\ UNCHANGED <<sigs, nonblock, pending, observed, event, got>>

\* Where it was called from goes on; ppoll asks the kernel after its first call, and
\* after its second returns, or starts again if nothing is left and there is time.
EndsPoll(t) ==
  /\ \/ pc[t] = "poll_recheck" /\ Goto(t, "idle")
     \/ pc[t] = "before_recheck" /\ Goto(t, "asleep")
     \/ pc[t] = "after_recheck" /\ has_pending /\ Goto(t, "idle")
     \/ pc[t] = "after_recheck" /\ ~has_pending /\ \E place \in {"idle", "before"} : Goto(t, place)
  /\ Recheck /\ Unlock(t)
  /\ UNCHANGED <<sigs, nonblock, pending, observed, got>>
-----------------------------------------------------------------------------
(* poll and ppoll by the application, on this descriptor among others *)

epoll_shim_ppoll(t) ==
  /\ sigs # {} /\ pc[t] = "idle" /\ Goto(t, "before")
  /\ UNCHANGED <<sigs, nonblock, pending, observed, event, mutex, got>>

\* Every descriptor of the shim is polled before the kernel is asked.
PollsBefore(t) ==
  /\ pc[t] = "before" /\ Lock(t) /\ Goto(t, "before_clear")
  /\ UNCHANGED <<sigs, nonblock, pending, observed, event, got>>

\* The kernel finds it readable, or gives up.
real_ppoll(t) ==
  /\ pc[t] = "asleep"
  /\ \/ Readable /\ Goto(t, "after")
     \/ Goto(t, "idle")
  /\ UNCHANGED <<sigs, nonblock, pending, observed, event, mutex, got>>

\* Only those it found are asked again, with revents.
PollsAfter(t) ==
  /\ pc[t] = "after"
  /\ IF has_pending
     THEN mutex = NoOwner /\ Goto(t, "idle") /\ UNCHANGED mutex
     ELSE Lock(t) /\ Goto(t, "after_clear")
  /\ UNCHANGED <<sigs, nonblock, pending, observed, event, got>>

epoll_shim_fcntl(block) ==
  /\ sigs # {} /\ mutex = NoOwner
  /\ nonblock' = ~block
  /\ UNCHANGED <<sigs, pending, observed, event, mutex, pc, got>>
-----------------------------------------------------------------------------
Next ==
  \/ \E mask \in SUBSET Signals, block \in BOOLEAN : signalfd(mask, block)
  \/ signalfd_close
  \/ \E s \in Signals : Deliver(s) \/ TakenElsewhere(s)
  \/ \E t \in Threads :
       \/ StartRead(t) \/ LooksForSignal(t) \/ sigwait(t) \/ Clears(t) \/ EndsTry(t)
       \/ PollReturns(t) \/ PollInterrupted(t)
       \/ \E revents \in BOOLEAN : signalfd_poll(t, revents)
       \/ EndsPoll(t)
       \/ epoll_shim_ppoll(t) \/ PollsBefore(t) \/ real_ppoll(t) \/ PollsAfter(t)
  \/ \E block \in BOOLEAN : epoll_shim_fcntl(block)

Spec == Init /\ [][Next]_vars
-----------------------------------------------------------------------------
\* While nobody works on the descriptor, a pending signal makes it readable, even if
\* the kqueue was emptied after the signal had been observed or another consumer took
\* a signal that was: no wakeup is lost to "Signals can arrive here, leading to a race."
PendingReadable == mutex = NoOwner /\ has_pending => Readable
=============================================================================
