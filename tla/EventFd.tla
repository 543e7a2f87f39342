------------------------------ MODULE EventFd -------------------------------
(***************************************************************************)
(* An eventfd of the epoll shim (eventfd.c, eventfd_ctx.c): a counter, and *)
(* the event that makes its kqueue readable.  The counter and the event    *)
(* change under the description's mutex, a reader that found nothing polls *)
(* the kqueue without it and tries again.  Each section under the mutex is *)
(* a step.                                                                 *)
(***************************************************************************)
EXTENDS Naturals, KQueueEvent

CONSTANTS
  Threads,     \* the threads that read
  MaxCounter   \* UINT64_MAX - 1, scaled down

ASSUME EventFdAssumption == MaxCounter \in Nat \ {0}

VARIABLES
  installed,   \* the descriptor exists
  semaphore,   \* EFD_SEMAPHORE
  nonblock,    \* O_NONBLOCK
  counter,
  event,       \* kqueue_event_
  pc,          \* pc[t]: "idle", "reading" or "polling"
  value        \* value[t]: what the last read of t stored, 0 if nothing

vars == <<installed, semaphore, nonblock, counter, event, pc, value>>

Init ==
  /\ installed = FALSE /\ semaphore = FALSE /\ nonblock = FALSE
  /\ counter = 0 /\ event = kqueue_event_init(FALSE)
  /\ pc = [t \in Threads |-> "idle"] /\ value = [t \in Threads |-> 0]
-----------------------------------------------------------------------------
(* Creation and close *)

eventfd_ctx_init(initval, flags) ==
  /\ counter' = initval /\ semaphore' = ("EFD_SEMAPHORE" \in flags)
  /\ event' = kqueue_event_init(initval > 0)

eventfd(initval, flags) ==
  /\ ~installed /\ installed' = TRUE
  /\ eventfd_ctx_init(initval, flags)
  /\ nonblock' = ("EFD_NONBLOCK" \in flags)
  /\ UNCHANGED <<pc, value>>

\* The last reference is gone, so no thread is inside a call.
eventfd_close ==
  /\ installed /\ \A t \in Threads : pc[t] = "idle"
  /\ installed' = FALSE /\ semaphore' = FALSE /\ nonblock' = FALSE
  /\ counter' = 0 /\ event' = kqueue_event_init(FALSE)
  /\ value' = [t \in Threads |-> 0]
  /\ UNCHANGED pc
-----------------------------------------------------------------------------
(* Reading *)

StartRead(t) ==
  /\ installed /\ pc[t] = "idle"
  /\ pc' = [pc EXCEPT ![t] = "reading"] /\ value' = [value EXCEPT ![t] = 0]
  /\ UNCHANGED <<installed, semaphore, nonblock, counter, event>>

\* Nothing to read: EAGAIN, or on to the poll.
FindsNothing(t) ==
  /\ pc[t] = "reading" /\ counter = 0
  /\ pc' = [pc EXCEPT ![t] = IF nonblock THEN "idle" ELSE "polling"]
  /\ UNCHANGED <<installed, semaphore, nonblock, counter, event, value>>

\* Mutants: the event is cleared also when something is left; never.
MutClears(t) ==
  /\ pc[t] = "reading" /\ counter > 0
  /\ counter' = IF semaphore THEN counter - 1 ELSE 0
  /\ event' = IF event.is_triggered THEN kqueue_event_clear(event) ELSE event
  /\ value' = [value EXCEPT ![t] = IF semaphore THEN 1 ELSE counter]
  /\ pc' = [pc EXCEPT ![t] = "idle"]
  /\ UNCHANGED <<installed, semaphore, nonblock>>

eventfd_ctx_read(t) ==
  /\ pc[t] = "reading" /\ counter > 0
  /\ counter' = IF semaphore THEN counter - 1 ELSE 0
  /\ event' = IF counter' = 0 /\ event.is_triggered THEN kqueue_event_clear(event) ELSE event
  /\ value' = [value EXCEPT ![t] = IF semaphore THEN 1 ELSE counter]
  /\ pc' = [pc EXCEPT ![t] = "idle"]
  /\ UNCHANGED <<installed, semaphore, nonblock>>

PollReturns(t) ==
  /\ pc[t] = "polling" /\ event.queued
  /\ pc' = [pc EXCEPT ![t] = "reading"]
  /\ UNCHANGED <<installed, semaphore, nonblock, counter, event, value>>

\* A signal ends the poll.
PollInterrupted(t) ==
  /\ pc[t] = "polling"
  /\ pc' = [pc EXCEPT ![t] = "idle"]
  /\ UNCHANGED <<installed, semaphore, nonblock, counter, event, value>>
-----------------------------------------------------------------------------
(* Writing *)

\* Mutant: a write to a positive counter leaves the event to the earlier one, but
\* judges by the new value.
MutWrite(v) ==
  /\ counter + v <= MaxCounter
  /\ counter' = counter + v
  /\ event' = IF counter' > 1 THEN event ELSE kqueue_event_trigger(event)

\* A write that would pass the limit fails with EAGAIN, also when it may block;
\* it and one of UINT64_MAX change nothing.
eventfd_ctx_write(v) ==
  /\ counter + v <= MaxCounter
  /\ counter' = counter + v
  /\ event' = kqueue_event_trigger(event)

eventfd_helper_write(v) ==
  /\ installed /\ eventfd_ctx_write(v)
  /\ UNCHANGED <<installed, semaphore, nonblock, pc, value>>
\* F_SETFL of epoll_shim_fcntl; F_GETFL changes nothing.
epoll_shim_fcntl(block) ==
  /\ installed /\ nonblock' = ~block
  /\ UNCHANGED <<installed, semaphore, counter, event, pc, value>>
-----------------------------------------------------------------------------
Next ==
  \/ \E v \in 0..MaxCounter, flags \in SUBSET {"EFD_SEMAPHORE", "EFD_NONBLOCK"} :
       eventfd(v, flags)
  \/ eventfd_close
  \/ \E t \in Threads :
       \/ StartRead(t) \/ FindsNothing(t) \/ eventfd_ctx_read(t)
       \/ PollReturns(t) \/ PollInterrupted(t)
  \/ \E v \in 0..MaxCounter : eventfd_helper_write(v)
  \/ \E block \in BOOLEAN : epoll_shim_fcntl(block)

\* A thread inside a call goes on.
Fairness ==
  \A t \in Threads :
    WF_vars(FindsNothing(t) \/ eventfd_ctx_read(t) \/ PollReturns(t))

Spec == Init /\ [][Next]_vars /\ Fairness
-----------------------------------------------------------------------------
\* While there is something to read the kqueue is readable, whatever reads and
\* writes came before: the flag that saves system calls never differs from what
\* the kernel holds.  (The converse is not so: a write of 0 makes the kqueue
\* readable while there is nothing.)
CounterReadable ==
  /\ event.is_triggered = event.queued
  /\ counter > 0 => event.queued

Counter == INSTANCE AbstractEventFd
             WITH readers <- {t \in Threads : pc[t] # "idle"}, taken <- value

\* The eventfd is the counter it should be: no read returns what was not written,
\* no write is lost, and a reader that polls is not left there while the counter
\* stays positive.
ImplementsCounter == Counter!Spec
=============================================================================
