------------------------ MODULE EventSources_proofs ------------------------
(***************************************************************************)
(* Proofs about what a descriptor can be whose readiness an event loop     *)
(* waits for, for any threads, signals, timers and clocks: a descriptor    *)
(* that has something to read is readable (eventfd, signalfd, timerfd),    *)
(* an eventfd counts what is written and read, a timerfd counts every      *)
(* period once, there is one thread that detects steps of the clock, an    *)
(* epoll instance reports what a file had and polls as readable while a    *)
(* file it watches is due, and ppoll does not sleep on after a signal it   *)
(* waits for.  Each component has an inductive invariant of its own; the   *)
(* last part puts them together for EventSources, where all but one of     *)
(* the components are at rest.                                             *)
(***************************************************************************)
EXTENDS EventSources, FiniteSetTheorems, TLAPS

\* The event of an eventfd or a signalfd: its flag is what the kernel has.
On  == [is_triggered |-> TRUE, queued |-> TRUE]
Off == [is_triggered |-> FALSE, queued |-> FALSE]
InStep == event \in {On, Off}

LEMMA OnOff == On # Off /\ On.is_triggered /\ On.queued /\ ~Off.is_triggered /\ ~Off.queued
<1>1. On.is_triggered /\ On.queued /\ ~Off.is_triggered /\ ~Off.queued
  BY DEF On, Off
<1> QED
  BY <1>1

\* Clearing lowers the event, whatever it was.
LEMMA Cleared ==
  ASSUME InStep PROVE [event EXCEPT !.is_triggered = FALSE, !.queued = FALSE] = Off
<1>1. On \in KQueueEvents /\ Off \in KQueueEvents
  BY DEF On, Off, KQueueEvents
<1>2. event \in KQueueEvents
  BY <1>1 DEF InStep
<1> DEFINE e == [event EXCEPT !.is_triggered = FALSE, !.queued = FALSE]
<1>3. e \in KQueueEvents /\ e.is_triggered = FALSE /\ e.queued = FALSE
  BY <1>2 DEF KQueueEvents
<1>4. Off.queued = FALSE /\ Off.is_triggered = FALSE
  BY DEF Off
<1>5. \A x, y \in KQueueEvents : x.queued = y.queued /\ x.is_triggered = y.is_triggered => x = y
  BY DEF KQueueEvents
<1> QED
  BY <1>1, <1>3, <1>4, <1>5
-----------------------------------------------------------------------------
(* eventfd *)

EventFdTypes ==
  /\ semaphore \in BOOLEAN /\ counter \in 0..MaxCounter
  /\ pc \in [Threads -> {"idle", "reading", "polling"}]
  /\ value \in [Threads -> 0..MaxCounter]

\* A descriptor that does not exist has nothing, and nobody is inside a call of it.
ClosedIdle == ~installed => \A t \in Threads : pc[t] = "idle" /\ value[t] = 0

\* The event is one of two, and the lowered one only with an empty counter.
CounterInStep == event = On \/ (event = Off /\ counter = 0)

EventFdInv == EventFdTypes /\ ClosedIdle /\ CounterInStep

\* The eventfd of a behaviour that is about something else, which may use the event.
EventFdRest ==
  /\ installed = FALSE /\ semaphore = FALSE /\ counter = 0
  /\ pc = [t \in Threads |-> "idle"] /\ value = [t \in Threads |-> 0]

\* What the operations of kqueue_event.c make of the event.
LEMMA EventFdEvents ==
  ASSUME InStep
  PROVE  /\ \A b \in BOOLEAN : kqueue_event_init(b) = IF b THEN On ELSE Off
         /\ kqueue_event_clear(event) = Off
         /\ kqueue_event_trigger(event) = On
<1>1. \A b \in BOOLEAN : kqueue_event_init(b) = IF b THEN On ELSE Off
  BY DEF kqueue_event_init, On, Off
<1>2. kqueue_event_clear(event) = Off
  BY Cleared DEF kqueue_event_clear
<1>3. kqueue_event_trigger(event) = On
  <2>1. CASE event = On
    BY <2>1, OnOff, Zenon DEF kqueue_event_trigger
  <2>2. CASE event = Off
    <3>1. kqueue_event_trigger(event) = [is_triggered |-> TRUE, queued |-> TRUE]
      BY <2>2, OnOff, Zenon DEF kqueue_event_trigger
    <3> QED
      BY <3>1, Zenon DEF On
  <2> QED
    BY <2>1, <2>2 DEF InStep
<1> QED
  BY <1>1, <1>2, <1>3

LEMMA EventFdAtRest == ASSUME EventFdRest, InStep PROVE EventFdInv
<1>1. EventFdTypes
  <2>1. 0 \in 0..MaxCounter /\ MaxCounter \in Nat
    BY EventFdAssumption DEF EventFdAssumption
  <2>2. semaphore \in BOOLEAN
    BY Zenon DEF EventFdRest
  <2>3. /\ counter \in 0..MaxCounter /\ pc \in [Threads -> {"idle", "reading", "polling"}]
        /\ value \in [Threads -> 0..MaxCounter]
    BY <2>1 DEF EventFdRest
  <2> QED
    BY <2>2, <2>3 DEF EventFdTypes
<1>2. ClosedIdle
  <2>1. \A t \in Threads : pc[t] = "idle" /\ value[t] = 0
    BY DEF EventFdRest
  <2> QED
    BY <2>1, Zenon DEF ClosedIdle
<1>3. CounterInStep
  BY DEF EventFdRest, InStep, CounterInStep
<1> QED
  BY <1>1, <1>2, <1>3 DEF EventFdInv

LEMMA EventFdInStep == EventFdInv => InStep
BY DEF EventFdInv, CounterInStep, InStep

\* Creation starts the event in step with the counter.
LEMMA CreateInv ==
  ASSUME EventFdInv, NEW v \in 0..MaxCounter, NEW flags, eventfd(v, flags)
  PROVE  EventFdInv'
<1>1. semaphore' \in BOOLEAN
  BY DEF eventfd, eventfd_ctx_init
<1>i. installed'
  BY Zenon DEF eventfd
<1>2. counter' = v /\ UNCHANGED <<pc, value>> /\ event' = kqueue_event_init(v > 0)
  BY DEF eventfd, eventfd_ctx_init
<1>3. CounterInStep'
  <2>1. CASE v > 0
    BY <1>2, <2>1, EventFdEvents, EventFdInStep DEF CounterInStep
  <2>2. CASE v = 0
    <3>1. (v > 0) = FALSE
      BY <2>2
    <3> QED
      BY <1>2, <2>2, <3>1, EventFdEvents, EventFdInStep DEF CounterInStep
  <2> QED
    BY <2>1, <2>2, EventFdAssumption DEF EventFdAssumption
<1> QED
  BY <1>1, <1>i, <1>2, <1>3 DEF EventFdInv, EventFdTypes, ClosedIdle

LEMMA CloseInv ==
  ASSUME EventFdInv, eventfd_close
  PROVE  EventFdInv'
<1>1. counter' = 0 /\ event' = Off /\ value' = [t \in Threads |-> 0] /\ pc' = pc
  BY EventFdEvents, EventFdInStep DEF eventfd_close
<1>2. (\A t \in Threads : pc[t] = "idle") /\ semaphore' \in BOOLEAN
  BY Zenon DEF eventfd_close
<1> QED
  BY <1>1, <1>2, EventFdAssumption
     DEF EventFdAssumption, EventFdInv, EventFdTypes, ClosedIdle, CounterInStep

\* A read clears the event only when it leaves nothing.
LEMMA ReadInv ==
  ASSUME EventFdInv, NEW t \in Threads,
         \/ StartRead(t) \/ FindsNothing(t) \/ eventfd_ctx_read(t)
         \/ PollReturns(t) \/ PollInterrupted(t)
  PROVE  EventFdInv'
<1> USE EventFdAssumption DEF EventFdAssumption, EventFdInv, EventFdTypes, ClosedIdle, CounterInStep
<1>1. CASE StartRead(t)
  BY <1>1 DEF StartRead
<1>2. CASE FindsNothing(t)
  BY <1>2 DEF FindsNothing
<1>3. CASE eventfd_ctx_read(t)
  <2>1. counter' \in 0..MaxCounter /\ value' \in [Threads -> 0..MaxCounter]
    BY <1>3 DEF eventfd_ctx_read
  <2>2. event = On /\ event' = IF counter' = 0 THEN Off ELSE On
    <3>1. event = On
      BY <1>3, EventFdAssumption DEF eventfd_ctx_read
    <3>2. InStep
      BY <3>1 DEF InStep
    <3> QED
      BY <1>3, <3>1, <3>2, EventFdEvents, OnOff, Zenon DEF eventfd_ctx_read
  <2>3. CounterInStep'
    BY <2>2
  <2> QED
    BY <1>3, <2>1, <2>3 DEF eventfd_ctx_read
<1>4. CASE PollReturns(t)
  BY <1>4 DEF PollReturns
<1>5. CASE PollInterrupted(t)
  BY <1>5 DEF PollInterrupted
<1> QED
  BY <1>1, <1>2, <1>3, <1>4, <1>5

LEMMA WriteInv ==
  ASSUME EventFdInv, NEW v \in 0..MaxCounter, eventfd_helper_write(v)
  PROVE  EventFdInv'
BY EventFdEvents, EventFdInStep, EventFdAssumption
   DEF EventFdAssumption, EventFdInv, EventFdTypes, ClosedIdle, CounterInStep,
       eventfd_helper_write, eventfd_ctx_write

LEMMA FcntlInv ==
  ASSUME EventFdInv, NEW block \in BOOLEAN, epoll_shim_fcntl(block)
  PROVE  EventFdInv'
BY DEF EventFdInv, EventFdTypes, ClosedIdle, CounterInStep, epoll_shim_fcntl

LEMMA EventFdNextInv == EventFdInv /\ Next => EventFdInv'
BY CreateInv, CloseInv, ReadInv, WriteInv, FcntlInv DEF Next

LEMMA Readable == EventFdInv => CounterReadable
<1> SUFFICES ASSUME EventFdInv PROVE CounterReadable
  OBVIOUS
<1>1. CASE event = On
  BY <1>1, OnOff, Zenon DEF CounterReadable
<1>2. CASE event = Off /\ counter = 0
  <2>1. ~(counter > 0)
    BY <1>2
  <2>2. event.is_triggered = event.queued
    BY <1>2 DEF Off
  <2> QED
    BY <2>1, <2>2, Zenon DEF CounterReadable
<1> QED
  BY <1>1, <1>2 DEF EventFdInv, CounterInStep

(* The steps of the abstract counter *)

Busy == {t \in Threads : pc[t] # "idle"}

LEMMA CounterInit == Init => Counter!Init
<1> SUFFICES ASSUME Init PROVE Counter!Init
  OBVIOUS
<1>1. counter \in 0..MaxCounter /\ value = [t \in Threads |-> 0]
  BY EventFdAssumption DEF EventFdAssumption, Init
<1>2. semaphore \in BOOLEAN /\ pc = [t \in Threads |-> "idle"]
  BY Zenon DEF Init
<1> QED
  BY <1>1, <1>2 DEF Counter!Init

\* A read that takes something takes what the abstract one does; all others either
\* begin or give up waiting, or go on waiting.
LEMMA ReadSteps ==
  ASSUME EventFdInv, NEW t \in Threads,
         \/ StartRead(t) \/ FindsNothing(t) \/ eventfd_ctx_read(t)
         \/ PollReturns(t) \/ PollInterrupted(t)
  PROVE  [Counter!Next]_(Counter!vars)
<1> USE DEF EventFdInv, EventFdTypes
<1>1. CASE StartRead(t)
  <2>1. t \notin Busy /\ Busy' = Busy \cup {t}
    BY <1>1 DEF StartRead, Busy
  <2>2. Counter!Ask(t)
    BY <1>1, <2>1 DEF StartRead, Counter!Ask, Busy
  <2> QED
    BY <2>2 DEF Counter!Next
<1>2. ASSUME t \in Busy, Busy' = Busy \ {t}, UNCHANGED <<semaphore, counter, value>>
      PROVE  [Counter!Next]_(Counter!vars)
  <2>1. Counter!GiveUp(t)
    BY <1>2 DEF Counter!GiveUp, Busy
  <2> QED
    BY <2>1 DEF Counter!Next
<1>3. ASSUME Busy' = Busy, UNCHANGED <<semaphore, counter, value>>
      PROVE  [Counter!Next]_(Counter!vars)
  BY <1>3 DEF Counter!vars, Busy
<1>4. CASE FindsNothing(t)
  <2>1. CASE nonblock
    BY <1>2, <1>4, <2>1 DEF FindsNothing, Busy
  <2>2. CASE ~nonblock
    BY <1>3, <1>4, <2>2 DEF FindsNothing, Busy
  <2> QED
    BY <2>1, <2>2
<1>5. CASE eventfd_ctx_read(t)
  <2>1. t \in Busy /\ Busy' = Busy \ {t}
    BY <1>5 DEF eventfd_ctx_read, Busy
  <2>2. counter' = counter - value'[t] /\ counter > 0
    BY <1>5, EventFdAssumption DEF eventfd_ctx_read, EventFdAssumption
  <2>3. Counter!Take(t)
    BY <1>5, <2>1, <2>2 DEF eventfd_ctx_read, Counter!Take, Busy
  <2> QED
    BY <2>3 DEF Counter!Next
<1>6. CASE PollReturns(t)
  BY <1>3, <1>6 DEF PollReturns, Busy
<1>7. CASE PollInterrupted(t)
  BY <1>2, <1>7 DEF PollInterrupted, Busy
<1> QED
  BY <1>1, <1>4, <1>5, <1>6, <1>7

LEMMA CounterSteps == EventFdInv /\ EventFdInv' /\ Next => [Counter!Next]_(Counter!vars)
<1> SUFFICES ASSUME EventFdInv, EventFdInv', Next PROVE [Counter!Next]_(Counter!vars)
  OBVIOUS
<1>1. ASSUME Busy = {}, Busy' = {}, semaphore' \in BOOLEAN, counter' \in 0..MaxCounter,
             value' = [t \in Threads |-> 0]
      PROVE  Counter!Next
  <2>1. Counter!Reopen
    BY <1>1 DEF Counter!Reopen, Counter!Init, Busy
  <2> QED
    BY <2>1 DEF Counter!Next
<1>2. ASSUME NEW v \in 0..MaxCounter, NEW flags, eventfd(v, flags)
      PROVE  [Counter!Next]_(Counter!vars)
  <2>1. value' = [t \in Threads |-> 0] /\ Busy = {} /\ Busy' = {}
    BY <1>2 DEF eventfd, Busy, EventFdInv, EventFdTypes, ClosedIdle
  <2>2. semaphore' \in BOOLEAN /\ counter' \in 0..MaxCounter
    BY DEF EventFdInv, EventFdTypes
  <2> QED
    BY <1>1, <2>1, <2>2
<1>3. CASE eventfd_close
  BY <1>1, <1>3 DEF eventfd_close, Busy, EventFdInv, EventFdTypes
<1>4. ASSUME NEW v \in 0..MaxCounter, eventfd_helper_write(v)
      PROVE  [Counter!Next]_(Counter!vars)
  <2>1. Counter!Add(v)
    BY <1>4 DEF eventfd_helper_write, eventfd_ctx_write, Counter!Add
  <2> QED
    BY <2>1 DEF Counter!Next
<1>5. ASSUME NEW block \in BOOLEAN, epoll_shim_fcntl(block)
      PROVE  UNCHANGED Counter!vars
  BY <1>5 DEF epoll_shim_fcntl, Counter!vars
<1> QED
  BY <1>2, <1>3, <1>4, <1>5, ReadSteps DEF Next
-----------------------------------------------------------------------------
(* signalfd *)

\* Where a caller has the descriptor's mutex, and where it has not.
Locked   == {"sigwait", "clear", "recheck", "clear_got", "recheck_got", "poll_clear",
             "poll_recheck", "before_clear", "before_recheck", "after_clear", "after_recheck"}
Unlocked == {"idle", "read", "polling", "before", "asleep", "after"}

\* The kqueue is emptied, and signals are taken, only with the mutex held, and it is
\* given back only after the look at what is pending.
SignalInv ==
  /\ InStep
  /\ caller \in [Threads -> Locked \cup Unlocked]
  /\ \A t \in Threads : caller[t] \in Locked => mutex = t
  /\ PendingReadable

SignalRest ==
  /\ sigs = {} /\ pending = {} /\ observed = FALSE /\ mutex = NoOwner
  /\ caller = [t \in Threads |-> "idle"] /\ got = [t \in Threads |-> 0]

LEMMA SignalAtRest == SignalRest /\ InStep => SignalInv
BY DEF SignalRest, SignalInv, Locked, Unlocked, PendingReadable, Signal!PendingReadable,
       Signal!has_pending

\* What the operations of kqueue_event.c make of the event of a signalfd.
LEMMA SignalEvents ==
  ASSUME InStep
  PROVE  /\ \A b \in BOOLEAN : Signal!kqueue_event_init(b) = IF b THEN On ELSE Off
         /\ Signal!kqueue_event_clear(event) = Off
         /\ Signal!kqueue_event_trigger(event) = On
<1>1. \A b \in BOOLEAN : Signal!kqueue_event_init(b) = IF b THEN On ELSE Off
  BY DEF Signal!kqueue_event_init, On, Off
<1>2. Signal!kqueue_event_clear(event) = Off
  BY Cleared DEF Signal!kqueue_event_clear
<1>3. Signal!kqueue_event_trigger(event) = On
  <2>1. CASE event = On
    BY <2>1, OnOff, Zenon DEF Signal!kqueue_event_trigger
  <2>2. CASE event = Off
    <3>1. Signal!kqueue_event_trigger(event) = [is_triggered |-> TRUE, queued |-> TRUE]
      BY <2>2, OnOff, Zenon DEF Signal!kqueue_event_trigger
    <3> QED
      BY <3>1, Zenon DEF On
  <2> QED
    BY <2>1, <2>2 DEF InStep
<1> QED
  BY <1>1, <1>2, <1>3

\* A step of t, which takes the mutex only when it is free and has it where it must.
LEMMA CallerStep ==
  ASSUME SignalInv, NEW t \in Threads, NEW place \in Locked \cup Unlocked, Signal!Goto(t, place),
         InStep', PendingReadable',
         \/ mutex' = mutex /\ place \in Unlocked
         \/ mutex \in {t, NoOwner} /\ (place \in Locked => mutex' = t)
  PROVE  SignalInv'
<1>1. /\ caller' \in [Threads -> Locked \cup Unlocked]
      /\ caller'[t] = place /\ \A u \in Threads \ {t} : caller'[u] = caller[u]
  BY DEF Signal!Goto, SignalInv
<1>2. \A x : ~(x \in Locked /\ x \in Unlocked)
  BY DEF Locked, Unlocked
<1>3. \A u \in Threads : caller'[u] \in Locked => mutex' = u
  BY <1>1, <1>2, EventSourcesAssumption DEF SignalInv
<1> QED
  BY <1>1, <1>3 DEF SignalInv

\* The descriptor and the process's signals.
LEMMA SignalWorldInv ==
  ASSUME SignalInv,
         \/ \E mask \in SUBSET Signals, block \in BOOLEAN : Signal!signalfd(mask, block)
         \/ Signal!signalfd_close
         \/ \E s \in Signals : Signal!Deliver(s) \/ Signal!TakenElsewhere(s)
         \/ \E block \in BOOLEAN : Signal!epoll_shim_fcntl(block)
  PROVE  SignalInv'
<1> USE DEF SignalInv, PendingReadable, Signal!PendingReadable, Signal!has_pending, Signal!Readable
<1>1. ASSUME NEW mask \in SUBSET Signals, NEW block \in BOOLEAN, Signal!signalfd(mask, block)
      PROVE  SignalInv'
  <2>1. /\ event' = Signal!kqueue_event_init(pending \cap mask # {}) /\ sigs' = mask
        /\ UNCHANGED <<pending, mutex, caller>>
    BY <1>1 DEF Signal!signalfd, Signal!signalfd_ctx_init
  <2>2. CASE pending \cap mask # {}
    <3>1. event' = On
      BY <2>1, <2>2, SignalEvents
    <3> QED
      BY <2>1, <3>1, OnOff DEF InStep
  <2>3. CASE pending \cap mask = {}
    <3>1. event' = Off
      BY <2>1, <2>3, SignalEvents
    <3> QED
      BY <2>1, <2>3, <3>1 DEF InStep
  <2> QED
    BY <2>2, <2>3
<1>2. CASE Signal!signalfd_close
  <2>1. event' = Off /\ sigs' = {} /\ UNCHANGED <<pending, mutex, caller>>
    BY <1>2, SignalEvents DEF Signal!signalfd_close
  <2> QED
    BY <2>1 DEF InStep
<1>3. ASSUME NEW s \in Signals, Signal!Deliver(s) PROVE SignalInv'
  BY <1>3 DEF Signal!Deliver, InStep
<1>4. ASSUME NEW s \in Signals, Signal!TakenElsewhere(s) PROVE SignalInv'
  BY <1>4 DEF Signal!TakenElsewhere, InStep
<1>5. ASSUME NEW block \in BOOLEAN, Signal!epoll_shim_fcntl(block) PROVE SignalInv'
  BY <1>5 DEF Signal!epoll_shim_fcntl, InStep
<1> QED
  BY <1>1, <1>2, <1>3, <1>4, <1>5

\* The look at what is pending, with which every section under the mutex ends: a signal
\* that came after the kqueue was emptied raises the event.
LEMMA RecheckStep ==
  ASSUME SignalInv, Signal!Recheck, UNCHANGED <<sigs, pending, observed>>
  PROVE  InStep' /\ PendingReadable'
<1>1. CASE Signal!has_pending
  <2>1. event' = On
    BY <1>1, SignalEvents DEF Signal!Recheck, SignalInv
  <2> QED
    BY <2>1, OnOff DEF InStep, PendingReadable, Signal!PendingReadable, Signal!Readable
<1>2. CASE ~Signal!has_pending
  <2>1. event' = event /\ ~Signal!has_pending'
    BY <1>2 DEF Signal!Recheck, Signal!has_pending
  <2> QED
    BY <2>1 DEF SignalInv, InStep, PendingReadable, Signal!PendingReadable
<1> QED
  BY <1>1, <1>2

\* The steps of a thread's calls.
LEMMA SignalCallInv ==
  ASSUME SignalInv, NEW t \in Threads,
         \/ Signal!StartRead(t) \/ Signal!LooksForSignal(t) \/ Signal!sigwait(t)
         \/ Signal!Clears(t) \/ Signal!EndsTry(t)
         \/ Signal!PollReturns(t) \/ Signal!PollInterrupted(t)
         \/ \E wants \in BOOLEAN : Signal!signalfd_poll(t, wants)
         \/ Signal!EndsPoll(t)
         \/ Signal!epoll_shim_ppoll(t) \/ Signal!PollsBefore(t) \/ Signal!real_ppoll(t)
         \/ Signal!PollsAfter(t)
  PROVE  SignalInv'
<1> DEFINE Same == UNCHANGED <<sigs, pending, observed, event>>
<1>0. /\ caller[t] \in Locked => mutex = t
      /\ \A place \in {"idle", "read", "polling", "before", "asleep", "after"} :
           place \in Locked \cup Unlocked /\ place \in Unlocked /\ place \notin Locked
      /\ t # NoOwner
  BY EventSourcesAssumption DEF SignalInv, Locked, Unlocked
\* Steps without the mutex.
<1>1. ASSUME NEW place \in Unlocked, Signal!Goto(t, place), Same, mutex' = mutex
      PROVE  SignalInv'
  <2>1. InStep' /\ PendingReadable'
    BY <1>1 DEF SignalInv, InStep, PendingReadable, Signal!PendingReadable, Signal!has_pending,
                Signal!Readable
  <2> QED
    BY <1>1, <2>1, CallerStep
\* Steps that take it.
<1>2. ASSUME NEW place \in Locked, Signal!Goto(t, place), Same, Signal!Lock(t)
      PROVE  SignalInv'
  <2>1. InStep' /\ PendingReadable'
    BY <1>0, <1>2 DEF SignalInv, InStep, PendingReadable, Signal!PendingReadable, Signal!Lock
  <2> QED
    BY <1>2, <2>1, CallerStep DEF Signal!Lock
\* Steps that give it back.
<1>3. ASSUME NEW place \in Unlocked, Signal!Goto(t, place), caller[t] \in Locked,
             Signal!Recheck, UNCHANGED <<sigs, pending, observed>>
      PROVE  SignalInv'
  <2>1. InStep' /\ PendingReadable'
    BY <1>3, RecheckStep
  <2>2. mutex = t /\ place \notin Locked
    BY <1>0, <1>3 DEF Locked, Unlocked
  <2> QED
    BY <1>3, <2>1, <2>2, CallerStep
\* Steps with it.
<1>4. ASSUME NEW place \in Locked, Signal!Goto(t, place), caller[t] \in Locked,
             mutex' = mutex, InStep'
      PROVE  SignalInv'
  <2>1. PendingReadable'
    BY <1>0, <1>4 DEF PendingReadable, Signal!PendingReadable
  <2> QED
    BY <1>0, <1>4, <2>1, CallerStep
<1>5. CASE Signal!StartRead(t)
  BY <1>0, <1>1, <1>5 DEF Signal!StartRead
<1>6. CASE Signal!LooksForSignal(t)
  <2>1. PICK place \in {"sigwait", "clear"} : Signal!Goto(t, place)
    BY <1>6 DEF Signal!LooksForSignal
  <2> QED
    BY <1>2, <1>6, <2>1 DEF Signal!LooksForSignal, Locked
<1>7. CASE Signal!sigwait(t)
  BY <1>4, <1>7 DEF Signal!sigwait, Locked, SignalInv, InStep
<1>8. CASE Signal!Clears(t)
  <2>1. PICK place \in Locked : Signal!Goto(t, place)
    BY <1>8 DEF Signal!Clears, Signal!AfterClear, Locked
  <2>2. event' = Off /\ caller[t] \in Locked /\ mutex' = mutex
    BY <1>8, SignalEvents DEF Signal!Clears, Signal!AfterClear, Locked, SignalInv
  <2> QED
    BY <1>4, <2>1, <2>2 DEF InStep
<1>9. CASE Signal!EndsTry(t)
  <2>1. PICK place \in {"read", "idle", "polling"} : Signal!Goto(t, place)
    BY <1>9, Zenon DEF Signal!EndsTry
  <2>2. /\ caller[t] \in Locked /\ Signal!Recheck /\ UNCHANGED <<sigs, pending, observed>>
    BY <1>9 DEF Signal!EndsTry, Locked
  <2> QED
    BY <1>0, <1>3, <2>1, <2>2
<1>10. CASE Signal!PollReturns(t) \/ Signal!PollInterrupted(t)
  BY <1>0, <1>1, <1>10 DEF Signal!PollReturns, Signal!PollInterrupted
<1>11. ASSUME NEW wants \in BOOLEAN, Signal!signalfd_poll(t, wants) PROVE SignalInv'
  <2>1. CASE wants /\ Signal!has_pending
    BY <1>11, <2>1 DEF Signal!signalfd_poll, SignalInv, InStep, PendingReadable,
       Signal!PendingReadable, Signal!has_pending, Signal!Readable
  <2>2. CASE ~(wants /\ Signal!has_pending)
    BY <1>2, <1>11, <2>2 DEF Signal!signalfd_poll, Locked
  <2> QED
    BY <2>1, <2>2
<1>12. CASE Signal!EndsPoll(t)
  <2>1. PICK place \in {"idle", "asleep", "before"} : Signal!Goto(t, place)
    BY <1>12 DEF Signal!EndsPoll
  <2>2. /\ caller[t] \in Locked /\ Signal!Recheck /\ UNCHANGED <<sigs, pending, observed>>
    BY <1>12 DEF Signal!EndsPoll, Locked
  <2> QED
    BY <1>0, <1>3, <2>1, <2>2
<1>13. CASE Signal!epoll_shim_ppoll(t)
  BY <1>0, <1>1, <1>13 DEF Signal!epoll_shim_ppoll
<1>14. CASE Signal!PollsBefore(t)
  BY <1>2, <1>14 DEF Signal!PollsBefore, Locked
<1>15. CASE Signal!real_ppoll(t)
  BY <1>0, <1>1, <1>15 DEF Signal!real_ppoll
<1>16. CASE Signal!PollsAfter(t)
  <2>1. CASE Signal!has_pending
    BY <1>0, <1>1, <1>16, <2>1 DEF Signal!PollsAfter
  <2>2. CASE ~Signal!has_pending
    BY <1>2, <1>16, <2>2 DEF Signal!PollsAfter, Locked
  <2> QED
    BY <2>1, <2>2
<1> QED
  BY <1>5, <1>6, <1>7, <1>8, <1>9, <1>10, <1>11, <1>12, <1>13, <1>14, <1>15, <1>16

LEMMA SignalNextInv == SignalInv /\ Signal!Next => SignalInv'
BY SignalWorldInv, SignalCallInv DEF Signal!Next
-----------------------------------------------------------------------------
(* timerfd *)

Clocks  == {"MONOTONIC", "REALTIME"}
Types   == {"UNSPECIFIED", "ABSOLUTE", "RELATIVE"}
Timerfd == [clockid : Clocks, timer_type : Types, is_abstime : BOOLEAN,
            is_cancel_on_set : BOOLEAN, force_cancel : BOOLEAN, monotonic_offset : Nat,
            it_value : Nat, it_interval : Nat, nr_expirations : Nat]
TimerEvents == [ident : {0, 1}, at : Int]

Setting  == [op : {"settime"}, offset : Nat]
Reading  == [op : {"read"}, by : Readers, got : SUBSET {0, 1}, cancelled : BOOLEAN, stepped : BOOLEAN]
Changing == [op |-> "change"]
Nobody   == Timer!Nobody

TimerTypes ==
  /\ now \in Nat /\ offset \in Nat /\ timer \in Timerfd /\ kq \in SUBSET TimerEvents
  /\ exists \in BOOLEAN /\ lost \in BOOLEAN
  /\ reader \in [Readers -> {"idle", "reading", "polling"}]
  /\ inside \in {Nobody, Changing} \cup Setting \cup Reading

Ident(i) == {e \in kq : e.ident = i}
Armed    == timer.it_value # 0
Jumps    == Timer!can_jump(timer)

\* The event is for d, or in the past as d is.
DueAt(e, d) == e.at = d \/ (e.at <= now /\ d <= now)

\* The settings and the kqueue.
TimerBasics ==
  /\ ~exists => kq = {} /\ inside = Nobody /\ ~Armed
  /\ Armed <=> timer.timer_type # "UNSPECIFIED"
  /\ timer.force_cancel => timer.clockid = "REALTIME" /\ Ident(1) # {}
  /\ Ident(1) # {} => timer.force_cancel
  /\ \A e \in Ident(1) : e.at <= now

\* Between the calls, and within a read.
Settled ==
  inside = Nobody \/ inside \in Reading =>
    /\ lost /\ Armed => Jumps
    /\ timer.nr_expirations > 0 /\ Armed /\ ~Jumps =>
         timer.it_interval > 0 /\ timer.it_value - timer.it_interval <= now
    /\ timer.force_cancel /\ Armed => Jumps

\* settime has registered the event for the clock as it was then.
InSettime ==
  inside \in Setting /\ Armed =>
    \E e \in kq : /\ Ident(0) = {e}
                  /\ DueAt(e, IF Jumps THEN timer.it_value - inside.offset ELSE timer.it_value)

\* A read has taken the events that had fired and noted the clock.
InRead ==
  inside \in Reading =>
    /\ reader[inside.by] = "reading" /\ Armed /\ ~timer.force_cancel
    /\ inside.cancelled => Jumps
    /\ inside.stepped => Jumps
    /\ inside.got = {} /\ ~inside.stepped /\ ~lost /\ timer.nr_expirations = 0 =>
         \E e \in kq : Ident(0) = {e} /\ e.at = Timer!Deadline
    /\ inside.got # {} /\ ~Jumps /\ timer.nr_expirations = 0 => timer.it_value <= now

InChange == inside = Changing => Jumps /\ ~timer.force_cancel

\* EventArmed, for an armed timer whose event was not given up.
OnTime(e) ==
  IF timer.force_cancel THEN Timer!Readable
  ELSE IF timer.nr_expirations > 0 THEN e.at <= now \/ Jumps
  ELSE e.at = Timer!Deadline \/ (e.at <= now /\ (Timer!Deadline <= now \/ Jumps))
ArmedEvent ==
  inside = Nobody /\ Armed /\ ~lost => \E e \in kq : Ident(0) = {e} /\ OnTime(e)

TimerInv ==
  TimerTypes /\ TimerBasics /\ Settled /\ InSettime /\ InRead /\ InChange /\ ArmedEvent

LEMMA EventArmedIs == ArmedEvent => EventArmed
BY Zenon DEF EventArmed, Timer!EventArmed, ArmedEvent, OnTime, Armed, Ident, Jumps, Nobody,
             Timer!is_disarmed

\* The kinds of `inside' exclude each other.
LEMMA InsideIs ==
  ASSUME TimerTypes
  PROVE  /\ inside = Nobody => inside \notin Setting /\ inside \notin Reading /\ inside # Changing
         /\ inside = Changing => inside \notin Setting /\ inside \notin Reading
         /\ inside \in Setting => inside \notin Reading
         /\ inside.op = "settime" <=> inside \in Setting
         /\ inside.op = "read" <=> inside \in Reading
         /\ inside.op = "change" <=> inside = Changing
<1>1. /\ Nobody.op = "nobody" /\ Changing.op = "change"
      /\ \A x \in Setting : x.op = "settime"
      /\ \A x \in Reading : x.op = "read"
  BY DEF Nobody, Timer!Nobody, Changing, Setting, Reading
<1> QED
  BY <1>1 DEF TimerTypes

\* What counting leaves alone.
SameSettings(tm, u) ==
  /\ u.clockid = tm.clockid /\ u.is_cancel_on_set = tm.is_cancel_on_set
  /\ u.force_cancel = tm.force_cancel /\ u.monotonic_offset = tm.monotonic_offset
  /\ u.it_interval = tm.it_interval

\* The outcomes of counting up to a time: nothing has expired, the timer has, or periods.
NotYet(tm, u, time) == u = tm /\ (tm.it_value = 0 \/ time < tm.it_value)
Once(tm, u, time) ==
  /\ tm.it_value # 0 /\ tm.it_value <= time /\ tm.it_interval = 0
  /\ u.it_value = 0 /\ u.timer_type = "UNSPECIFIED" /\ u.nr_expirations = tm.nr_expirations + 1
Periods(tm, u, time) ==
  /\ tm.it_value # 0 /\ tm.it_value <= time /\ tm.it_interval > 0
  /\ u.timer_type = tm.timer_type /\ u.nr_expirations > tm.nr_expirations
  /\ time < u.it_value /\ u.it_value - tm.it_interval <= time
  /\ u.it_value = tm.it_value + (u.nr_expirations - tm.nr_expirations) * tm.it_interval

\* A whole number of periods brings the next expiration just past the time.
LEMMA PeriodsPassed ==
  ASSUME NEW v \in Nat, NEW i \in Nat, i > 0, NEW time \in Nat, v <= time,
         NEW n, n = (time - v) \div i + 1
  PROVE  /\ n \in Nat /\ n > 0 /\ n * i \in Nat /\ time < v + n * i /\ v + n * i - i <= time
<1> DEFINE q == (time - v) \div i
           r == (time - v) % i
<1>1. q \in Int /\ r \in 0..(i - 1) /\ time - v = q * i + r
  OBVIOUS
<1>2. q \in Nat
  OBVIOUS
<1> HIDE DEF q, r
<1>3. n = q + 1
  BY DEF q
<1>4. n * i = q * i + i /\ q * i \in Int
  BY <1>1, <1>3
<1> QED
  BY <1>1, <1>2, <1>3, <1>4

\* A timer of which counting changes something.
CountedTo(tm, a, b, c) == [tm EXCEPT !.nr_expirations = a, !.it_value = b, !.timer_type = c]

LEMMA Counts ==
  ASSUME NEW tm \in Timerfd, NEW a \in Nat, NEW b \in Nat, NEW c \in Types,
         NEW u, u = CountedTo(tm, a, b, c)
  PROVE  /\ u \in Timerfd /\ SameSettings(tm, u)
         /\ u.nr_expirations = a /\ u.it_value = b /\ u.timer_type = c
<1>1. u.nr_expirations = a /\ u.it_value = b /\ u.timer_type = c
  BY DEF Timerfd, CountedTo
<1>2. SameSettings(tm, u)
  BY DEF Timerfd, SameSettings, CountedTo
<1>3. u \in Timerfd
  BY DEF Timerfd, CountedTo
<1> QED
  BY <1>1, <1>2, <1>3

LEMMA Updates ==
  ASSUME NEW tm \in Timerfd, NEW time \in Nat, NEW u, u = Timer!update_to_current_time(tm, time)
  PROVE  /\ u \in Timerfd /\ SameSettings(tm, u)
         /\ NotYet(tm, u, time) \/ Once(tm, u, time) \/ Periods(tm, u, time)
<1>0. /\ tm.it_value \in Nat /\ tm.it_interval \in Nat /\ tm.nr_expirations \in Nat
      /\ \A tm2 : Timer!is_disarmed(tm2) <=> tm2.it_value = 0
      /\ \A tm2 : Timer!is_interval_timer(tm2) <=> tm2.it_interval # 0
  BY DEF Timerfd, Timer!is_disarmed, Timer!is_interval_timer
<1>1. CASE tm.it_value = 0 \/ time < tm.it_value
  <2>1. u = tm
    BY <1>0, <1>1, Zenon DEF Timer!update_to_current_time
  <2> QED
    BY <1>1, <2>1 DEF NotYet, SameSettings
<1>2. CASE ~(tm.it_value = 0 \/ time < tm.it_value) /\ tm.it_interval = 0
  <2>1. u = Timer!disarm([tm EXCEPT !.nr_expirations = @ + 1])
    BY <1>0, <1>2, Zenon DEF Timer!update_to_current_time
  <2>2. u = [tm EXCEPT !.nr_expirations = @ + 1, !.it_value = 0, !.timer_type = "UNSPECIFIED"]
    BY <2>1 DEF Timer!disarm, Timerfd
  <2> DEFINE a == tm.nr_expirations + 1
  <2>3. u = CountedTo(tm, a, 0, "UNSPECIFIED")
    BY <2>2 DEF CountedTo
  <2>4. a \in Nat /\ a = tm.nr_expirations + 1 /\ 0 \in Nat /\ "UNSPECIFIED" \in Types
    BY <1>0 DEF Types
  <2> HIDE DEF a
  <2>5. /\ u \in Timerfd /\ SameSettings(tm, u)
        /\ u.nr_expirations = a /\ u.it_value = 0 /\ u.timer_type = "UNSPECIFIED"
    BY <2>3, <2>4, Counts
  <2>6. tm.it_value # 0 /\ tm.it_value <= time
    BY <1>0, <1>2
  <2> QED
    BY <1>2, <2>4, <2>5, <2>6 DEF Once
<1>3. CASE ~(tm.it_value = 0 \/ time < tm.it_value) /\ tm.it_interval # 0
  <2>1. PICK n : n = (time - tm.it_value) \div tm.it_interval + 1
    OBVIOUS
  <2>2. u = [tm EXCEPT !.nr_expirations = @ + n, !.it_value = @ + n * tm.it_interval]
    BY <1>0, <1>3, <2>1, Zenon DEF Timer!update_to_current_time
  <2>3. tm.it_value <= time /\ tm.it_interval > 0
    BY <1>0, <1>3
  <2> DEFINE p == n * tm.it_interval
  <2>4. /\ n \in Nat /\ n > 0 /\ p \in Nat /\ time < tm.it_value + p
        /\ tm.it_value + p - tm.it_interval <= time
    BY <1>0, <2>1, <2>3, PeriodsPassed
  <2> DEFINE a == tm.nr_expirations + n
             b == tm.it_value + p
             c == tm.timer_type
  <2>5. u = CountedTo(tm, a, b, c)
    BY <2>2 DEF Timerfd, CountedTo
  <2>8. a \in Nat /\ a = tm.nr_expirations + n /\ b \in Nat /\ c \in Types
    BY <1>0, <2>4 DEF Timerfd
  <2> HIDE DEF a, b, c
  <2>9. /\ u \in Timerfd /\ SameSettings(tm, u)
        /\ u.nr_expirations = a /\ u.it_value = b /\ u.timer_type = c
    BY <2>5, <2>8, Counts
  <2> HIDE DEF p
  <2>6. /\ u \in Timerfd /\ SameSettings(tm, u) /\ u.timer_type = tm.timer_type
        /\ u.nr_expirations = tm.nr_expirations + n /\ u.it_value = tm.it_value + p
    BY <2>8, <2>9 DEF b, c
  <2>7. u.nr_expirations - tm.nr_expirations = n /\ u.nr_expirations > tm.nr_expirations
    BY <1>0, <2>4, <2>6
  <2>10. u.it_value = tm.it_value + (u.nr_expirations - tm.nr_expirations) * tm.it_interval
    BY <2>6, <2>7 DEF p
  <2> QED
    BY <1>0, <1>3, <2>3, <2>4, <2>6, <2>7, <2>10 DEF Periods
<1> QED
  BY <1>1, <1>2, <1>3

\* Looking at the clock: its offset is noted and a cancellation has been told.
LEMMA Checks ==
  ASSUME NEW tm \in Timerfd, offset \in Nat, NEW u, u = Timer!Checked(tm)
  PROVE  /\ u \in Timerfd
         /\ u.clockid = tm.clockid /\ u.timer_type = tm.timer_type
         /\ u.it_value = tm.it_value /\ u.it_interval = tm.it_interval
         /\ u.nr_expirations = tm.nr_expirations
         /\ u.monotonic_offset = IF Timer!can_jump(tm) THEN offset ELSE tm.monotonic_offset
         /\ u.clockid = "REALTIME" => u.force_cancel = FALSE
         /\ u.clockid # "REALTIME" => u = tm
<1> DEFINE noted == [tm EXCEPT !.monotonic_offset = offset]
<1>1. noted \in Timerfd /\ [noted EXCEPT !.force_cancel = FALSE] \in Timerfd
      /\ [tm EXCEPT !.force_cancel = FALSE] \in Timerfd
  BY DEF Timerfd
<1>2. CASE tm.clockid # "REALTIME"
  BY <1>2, Zenon DEF Timer!Checked, Timer!can_jump
<1>3. CASE tm.clockid = "REALTIME" /\ Timer!can_jump(tm)
  <2>1. u = [noted EXCEPT !.force_cancel = FALSE]
    BY <1>3, Zenon DEF Timer!Checked
  <2> QED
    BY <1>1, <1>3, <2>1 DEF Timerfd
<1>4. CASE tm.clockid = "REALTIME" /\ ~Timer!can_jump(tm)
  <2>1. u = [tm EXCEPT !.force_cancel = FALSE]
    BY <1>4, Zenon DEF Timer!Checked
  <2> QED
    BY <1>1, <1>4, <2>1 DEF Timerfd
<1> QED
  BY <1>2, <1>3, <1>4

\* One event of ident 0, at a time.
OneEvent(K, time) == \E e \in K : {f \in K : f.ident = 0} = {e} /\ e.at = time

\* Registering replaces the event of ident 0 and leaves that of ident 1.
LEMMA Registered ==
  ASSUME NEW K \in SUBSET TimerEvents, NEW v \in Nat, NEW c \in Nat, now \in Nat,
         NEW L, L = Timer!register_event(K, v, c)
  PROVE  /\ L \in SUBSET TimerEvents /\ {e \in L : e.ident = 1} = {e \in K : e.ident = 1}
         /\ OneEvent(L, IF v > c THEN now + (v - c) ELSE now)
<1> DEFINE e == [ident |-> 0, at |-> IF v > c THEN now + (v - c) ELSE now]
<1>1. L = {f \in K : f.ident # 0} \cup {e}
  BY Zenon DEF Timer!register_event, Timer!Without
<1>2. e \in TimerEvents /\ e.ident = 0 /\ e.at = IF v > c THEN now + (v - c) ELSE now
  BY DEF TimerEvents
<1> HIDE DEF e
<1>3. L \in SUBSET TimerEvents /\ e \in L
  BY <1>1, <1>2
<1>4. {f \in L : f.ident = 0} = {e}
  BY <1>1, <1>2
<1>5. {f \in L : f.ident = 1} = {f \in K : f.ident = 1}
  BY <1>1, <1>2
<1> QED
  BY <1>2, <1>3, <1>4, <1>5 DEF OneEvent

\* The clock ticks or is stepped, a caller goes on, and nothing else happens.
LEMMA QuietInv ==
  ASSUME TimerInv, now' \in Nat, now <= now', offset' \in Nat,
         UNCHANGED <<exists, timer, kq, inside, lost>>,
         reader' \in [Readers -> {"idle", "reading", "polling"}],
         inside \in Reading => reader'[inside.by] = "reading"
  PROVE  TimerInv'
<1>1. TimerTypes /\ TimerTypes'
  BY DEF TimerInv, TimerTypes
<1>2. now \in Nat /\ timer \in Timerfd /\ kq \in SUBSET TimerEvents /\ \A e \in kq : e.at \in Int
  BY <1>1 DEF TimerTypes, TimerEvents
<1>3. /\ Armed' = Armed /\ Jumps' = Jumps /\ Ident(0)' = Ident(0) /\ Ident(1)' = Ident(1)
      /\ Timer!Deadline' = Timer!Deadline
  BY DEF Armed, Jumps, Ident, Timer!can_jump, Timer!Deadline
<1>4. Timer!Deadline \in Int /\ timer.it_value \in Int /\ timer.it_interval \in Int
  BY <1>2 DEF Timer!Deadline, Timer!can_jump, Timerfd
<1>5. Timer!Readable => Timer!Readable'
  BY <1>2 DEF Timer!Readable, Timer!Fired
<1>6. TimerBasics'
  BY <1>2, <1>3 DEF TimerInv, TimerBasics, Ident
<1>7. Settled'
  BY <1>2, <1>3, <1>4 DEF TimerInv, Settled
<1>8. InSettime'
  <2> SUFFICES ASSUME (inside \in Setting /\ Armed)' PROVE InSettime'
    BY DEF InSettime
  <2> DEFINE d == IF Jumps THEN timer.it_value - inside.offset ELSE timer.it_value
  <2>1. PICK e \in kq : Ident(0) = {e} /\ DueAt(e, d)
    BY <1>3 DEF TimerInv, InSettime
  <2>2. d' = d /\ d \in Int
    BY <1>3, <1>4 DEF Setting
  <2> HIDE DEF d
  <2>3. DueAt(e, d)'
    BY <1>2, <2>1, <2>2 DEF DueAt
  <2> QED
    BY <1>3, <2>1, <2>3 DEF InSettime, d
<1>9. InRead'
  BY <1>2, <1>3, <1>4 DEF TimerInv, InRead
<1>10. InChange'
  BY <1>3 DEF TimerInv, InChange
<1>11. ArmedEvent'
  <2> SUFFICES ASSUME (inside = Nobody /\ Armed /\ ~lost)'
               PROVE  (\E e \in kq : Ident(0) = {e} /\ OnTime(e))'
    BY DEF ArmedEvent
  <2>1. PICK e \in kq : Ident(0) = {e} /\ OnTime(e)
    BY <1>3 DEF TimerInv, ArmedEvent, Nobody, Timer!Nobody
  <2>2. OnTime(e)'
    BY <1>2, <1>3, <1>4, <1>5, <2>1 DEF OnTime
  <2> QED
    BY <1>3, <2>1, <2>2
<1> QED
  BY <1>1, <1>6, <1>7, <1>8, <1>9, <1>10, <1>11 DEF TimerInv

\* A new timer, and one that is not in use.
Fresh ==
  /\ inside = Nobody /\ kq = {} /\ now \in Nat /\ offset \in Nat
  /\ exists \in BOOLEAN /\ lost \in BOOLEAN
  /\ reader \in [Readers -> {"idle", "reading", "polling"}]
  /\ \E clockid \in Clocks : timer = Timer!timerfd_ctx_init(clockid)

LEMMA FreshInv == Fresh => TimerInv
<1> SUFFICES ASSUME Fresh PROVE TimerInv
  OBVIOUS
<1>1. /\ timer \in Timerfd /\ timer.it_value = 0 /\ timer.timer_type = "UNSPECIFIED"
      /\ timer.force_cancel = FALSE
  BY DEF Fresh, Clocks, Types, Timer!timerfd_ctx_init, Timerfd
<1>2. TimerTypes
  BY <1>1 DEF Fresh, TimerTypes
<1>3. ~Armed /\ Ident(1) = {}
  BY <1>1 DEF Fresh, Armed, Ident
<1>4. inside = Nobody /\ inside \notin Setting /\ inside \notin Reading /\ inside # Changing
  BY <1>2, InsideIs DEF Fresh
<1>5. TimerBasics
  BY <1>1, <1>3 DEF Fresh, TimerBasics
<1>6. Settled /\ InSettime /\ InRead /\ InChange /\ ArmedEvent
  BY <1>1, <1>3, <1>4 DEF Settled, InSettime, InRead, InChange, ArmedEvent
<1> QED
  BY <1>2, <1>5, <1>6 DEF TimerInv

LEMMA ClockIs ==
  ASSUME TimerTypes
  PROVE  /\ Timer!Clock \in Nat /\ Timer!Clock = IF Jumps THEN now + offset ELSE now
         /\ Timer!Deadline \in Int
BY DEF TimerTypes, Timerfd, Timer!Clock, Timer!get_clocktime, Jumps, Timer!can_jump, Timer!Deadline

\* Whatever a call leaves a timer that is not armed in, nothing is expected of it.
LEMMA DisarmedInv ==
  ASSUME TimerInv, TimerTypes', ~Armed', timer'.timer_type = "UNSPECIFIED",
         inside' = Nobody \/ inside' \in Setting, exists,
         timer'.clockid = timer.clockid, timer'.force_cancel = timer.force_cancel,
         Ident(1)' = Ident(1), UNCHANGED <<now, exists>>
  PROVE  TimerInv'
<1>1. inside' \notin Reading /\ inside' # Changing
  <2>1. \A x \in Reading : x.op = "read"
    BY DEF Reading
  <2>2. \A x \in Setting : x.op = "settime"
    BY DEF Setting
  <2>3. Nobody.op = "nobody" /\ Changing.op = "change"
    BY DEF Nobody, Timer!Nobody, Changing
  <2> QED
    BY <2>1, <2>2, <2>3
<1>2. TimerBasics'
  BY DEF TimerInv, TimerBasics, Armed
<1>3. Settled'
  BY DEF Settled
<1>4. InSettime'
  BY DEF InSettime
<1>5. InRead'
  BY <1>1 DEF InRead
<1>6. InChange'
  BY <1>1 DEF InChange, Changing
<1>7. ArmedEvent'
  BY DEF ArmedEvent
<1> QED
  BY <1>2, <1>3, <1>4, <1>5, <1>6, <1>7 DEF TimerInv

\* settime, up to the registration of the event.
LEMMA SettimeInv ==
  ASSUME TimerInv, NEW is_abstime \in BOOLEAN, NEW cancel_on_set \in BOOLEAN,
         NEW wants_old \in BOOLEAN, NEW v \in Values, NEW interval \in Intervals,
         Timer!timerfd_settime(is_abstime, cancel_on_set, v, interval, wants_old)
  PROVE  TimerInv'
<1> DEFINE type == IF is_abstime THEN "ABSOLUTE" ELSE "RELATIVE"
           time == Timer!get_clocktime(timer.clockid, type)
           jumping == timer.clockid = "REALTIME" /\ type = "ABSOLUTE"
           old  == IF wants_old /\ timer.timer_type # "UNSPECIFIED"
                   THEN Timer!update_to_current_time(timer, Timer!Clock) ELSE timer
           it_value == IF is_abstime THEN v ELSE time + v
           cancels == cancel_on_set /\ is_abstime /\ timer.clockid = "REALTIME"
<1>0. TimerTypes /\ now \in Nat /\ offset \in Nat /\ timer \in Timerfd /\ kq \in SUBSET TimerEvents
  BY DEF TimerInv, TimerTypes
<1>1. v \in Nat /\ interval \in Nat
  BY EventSourcesAssumption DEF EventSourcesAssumption
<1>2. /\ time \in Nat /\ it_value \in Nat /\ type \in Types /\ type # "UNSPECIFIED"
      /\ time = IF jumping THEN now + offset ELSE now
      /\ v # 0 => it_value # 0
  BY <1>0, <1>1 DEF Timer!get_clocktime, Types
<1>3. old \in Timerfd /\ SameSettings(timer, old)
  <2>1. CASE wants_old /\ timer.timer_type # "UNSPECIFIED"
    BY <1>0, <2>1, ClockIs, Updates
  <2>2. CASE ~(wants_old /\ timer.timer_type # "UNSPECIFIED")
    BY <1>0, <2>2 DEF SameSettings
  <2> QED
    BY <2>1, <2>2
<1>4. /\ exists /\ inside = Nobody /\ inside' = [op |-> "settime", offset |-> offset]
      /\ UNCHANGED <<now, offset, exists, nonblock, reader, lost>>
      /\ Timer!settime(is_abstime, cancel_on_set, v, interval, wants_old)
  BY DEF Timer!timerfd_settime, Nobody
<1>5. inside' \in Setting /\ inside'.offset = offset
  BY <1>0, <1>4 DEF Setting
<1>6. CASE v = 0
  <2>1. /\ kq' = {e \in kq : e.ident # 0}
        /\ timer' = [Timer!disarm(old) EXCEPT !.is_cancel_on_set = FALSE, !.is_abstime = FALSE]
    BY <1>4, <1>6, Zenon DEF Timer!settime, Timer!Without
  <2> HIDE DEF old
  <2>2. /\ timer' \in Timerfd /\ timer'.it_value = 0 /\ timer'.timer_type = "UNSPECIFIED"
        /\ timer'.clockid = old.clockid /\ timer'.force_cancel = old.force_cancel
    BY <1>3, <2>1 DEF Timer!disarm, Timerfd, Types
  <2>3. Ident(1)' = Ident(1)
    BY <2>1 DEF Ident
  <2>4. TimerTypes'
    BY <1>0, <1>4, <1>5, <2>1, <2>2 DEF TimerTypes
  <2>5. ~Armed'
    BY <2>2 DEF Armed
  <2> QED
    BY <1>3, <1>4, <1>5, <2>2, <2>3, <2>4, <2>5, DisarmedInv DEF SameSettings
<1>7. CASE v # 0
  <2>1. /\ kq' = Timer!register_event(kq, it_value, time)
        /\ timer' = [old EXCEPT !.it_value = it_value, !.it_interval = interval,
             !.timer_type = type, !.is_cancel_on_set = cancels, !.is_abstime = is_abstime]
    BY <1>4, <1>7, Zenon DEF Timer!settime
  <2>2. cancels \in BOOLEAN
    OBVIOUS
  <2> HIDE DEF old, it_value, type, cancels, time
  <2>3. /\ timer' \in Timerfd /\ timer'.it_value = it_value /\ timer'.timer_type = type
        /\ timer'.clockid = old.clockid /\ timer'.force_cancel = old.force_cancel
    BY <1>1, <1>2, <1>3, <2>1, <2>2 DEF Timerfd
  <2>4. kq' \in SUBSET TimerEvents /\ Ident(1)' = Ident(1)
    BY <1>0, <1>2, <2>1, Registered DEF Ident
  <2> DEFINE registered == IF it_value > time THEN now + (it_value - time) ELSE now
  <2>a. OneEvent(kq', registered)
    BY <1>0, <1>2, <2>1, Registered
  <2>5. PICK e \in kq' : Ident(0)' = {e} /\ e.at = registered
    BY <2>a, Zenon DEF OneEvent, Ident
  <2>6. TimerTypes'
    BY <1>0, <1>4, <1>5, <2>3, <2>4 DEF TimerTypes
  <2>7. TimerBasics'
    BY <1>2, <1>3, <1>4, <1>7, <2>3, <2>4 DEF TimerInv, TimerBasics, SameSettings, Armed
  <2>8. /\ inside' # Nobody /\ inside' \notin Reading /\ inside' # Changing
    BY <1>4 DEF Nobody, Timer!Nobody, Reading, Changing
  <2>9. Jumps' = jumping
    BY <1>3, <2>3 DEF Jumps, Timer!can_jump, SameSettings
  <2>10. InSettime'
    <3>1. PICK d : d = IF jumping THEN it_value - offset ELSE it_value
      OBVIOUS
    <3>2. DueAt(e, d)'
      BY <1>0, <1>2, <1>4, <2>5, <3>1 DEF DueAt
    <3>3. d = (IF Jumps THEN timer.it_value - inside.offset ELSE timer.it_value)'
      BY <1>5, <2>3, <2>9, <3>1
    <3> QED
      BY <2>5, <3>2, <3>3 DEF InSettime
  <2>11. Settled' /\ InRead' /\ InChange' /\ ArmedEvent'
    BY <2>8 DEF Settled, InRead, InChange, ArmedEvent, Nobody, Timer!Nobody, Changing
  <2> QED
    BY <2>6, <2>7, <2>10, <2>11 DEF TimerInv
<1> QED
  BY <1>6, <1>7

\* The end of settime: the clock is looked at, a cancellation is forgotten.
LEMMA SettimeEndsInv == ASSUME TimerInv, Timer!SettimeEnds PROVE TimerInv'
<1> DEFINE zero == [timer EXCEPT !.nr_expirations = 0]
<1>0. TimerTypes /\ now \in Nat /\ offset \in Nat /\ timer \in Timerfd /\ kq \in SUBSET TimerEvents
  BY DEF TimerInv, TimerTypes
<1>1. /\ inside \in Setting /\ inside' = Nobody
      /\ UNCHANGED <<now, offset, exists, nonblock, reader>>
      /\ timer' = Timer!Checked(zero)
      /\ kq' = Timer!clear_force_cancel(timer, kq)
      /\ lost' = (Jumps /\ inside.offset # offset)
  BY <1>0, InsideIs, Zenon DEF Timer!SettimeEnds, Nobody, Jumps
<1>2. /\ inside # Nobody /\ inside' \notin Setting /\ inside' \notin Reading /\ inside' # Changing
  BY <1>1 DEF Setting, Reading, Changing, Nobody, Timer!Nobody
<1>3. /\ zero \in Timerfd /\ zero.clockid = timer.clockid /\ zero.timer_type = timer.timer_type
      /\ zero.it_value = timer.it_value /\ zero.nr_expirations = 0
      /\ zero.force_cancel = timer.force_cancel
  BY <1>0 DEF Timerfd
<1> HIDE DEF zero
<1>4. /\ timer' \in Timerfd /\ timer'.clockid = timer.clockid
      /\ timer'.timer_type = timer.timer_type /\ timer'.it_value = timer.it_value
      /\ timer'.nr_expirations = 0 /\ (Jumps => timer'.monotonic_offset = offset)
      /\ timer.clockid = "REALTIME" => timer'.force_cancel = FALSE
      /\ timer.clockid # "REALTIME" => timer'.force_cancel = timer.force_cancel
  <2>1. Timer!can_jump(zero) <=> Jumps
    BY <1>3 DEF Jumps, Timer!can_jump
  <2>2. /\ timer' \in Timerfd /\ timer'.clockid = zero.clockid
        /\ timer'.timer_type = zero.timer_type /\ timer'.it_value = zero.it_value
        /\ timer'.nr_expirations = zero.nr_expirations
        /\ timer'.monotonic_offset = IF Timer!can_jump(zero) THEN offset ELSE zero.monotonic_offset
        /\ timer'.clockid = "REALTIME" => timer'.force_cancel = FALSE
        /\ timer'.clockid # "REALTIME" => timer' = zero
    BY <1>0, <1>1, <1>3, Checks
  <2> QED
    BY <1>3, <2>1, <2>2
<1>5. timer'.force_cancel = FALSE
  BY <1>0, <1>4 DEF TimerInv, TimerBasics, Timerfd
<1>6. Armed' = Armed /\ Jumps' = Jumps
  BY <1>4 DEF Armed, Jumps, Timer!can_jump
<1>7. kq' \in SUBSET kq /\ Ident(0)' = Ident(0) /\ Ident(1)' = {}
  <2>1. CASE timer.clockid = "REALTIME" /\ timer.force_cancel
    <3>1. kq' = {e \in kq : e.ident # 1}
      BY <1>1, <2>1, Zenon DEF Timer!clear_force_cancel, Timer!Without
    <3> QED
      BY <3>1 DEF Ident
  <2>2. CASE ~(timer.clockid = "REALTIME" /\ timer.force_cancel)
    <3>1. kq' = kq
      BY <1>1, <2>2, Zenon DEF Timer!clear_force_cancel
    <3>2. Ident(1) = {}
      BY <2>2 DEF TimerInv, TimerBasics
    <3> QED
      BY <3>1, <3>2 DEF Ident
  <2> QED
    BY <2>1, <2>2
<1>8. TimerTypes'
  BY <1>0, <1>1, <1>4, <1>7 DEF TimerTypes
<1>9. TimerBasics'
  BY <1>1, <1>2, <1>4, <1>5, <1>6, <1>7 DEF TimerInv, TimerBasics
<1>10. Settled' /\ InSettime' /\ InRead' /\ InChange'
  <2>1. lost' => Jumps'
    BY <1>1, <1>6, Zenon
  <2>2. ~timer'.force_cancel /\ ~(timer'.nr_expirations > 0)
    BY <1>4, <1>5
  <2>3. Settled'
    BY <2>1, <2>2, Zenon DEF Settled
  <2> QED
    BY <1>2, <2>3, Zenon DEF InSettime, InRead, InChange
<1>11. ArmedEvent'
  <2> SUFFICES ASSUME Armed, ~lost' PROVE \E e \in kq' : Ident(0)' = {e} /\ OnTime(e)'
    BY <1>6 DEF ArmedEvent
  <2> DEFINE d == IF Jumps THEN timer.it_value - inside.offset ELSE timer.it_value
  <2>1. PICK e \in kq : Ident(0) = {e} /\ DueAt(e, d)
    BY <1>1 DEF TimerInv, InSettime
  <2>2. d = Timer!Deadline'
    BY <1>1, <1>4, <1>6 DEF Timer!Deadline, Jumps
  <2> HIDE DEF d
  <2>3. e.at = Timer!Deadline' \/ (e.at <= now /\ Timer!Deadline' <= now)
    BY <2>1, <2>2 DEF DueAt
  <2>4. OnTime(e)'
    BY <1>1, <1>4, <1>5, <2>3 DEF OnTime
  <2>5. e \in kq'
    BY <1>7, <2>1 DEF Ident
  <2> QED
    BY <1>7, <2>1, <2>4, <2>5
<1> QED
  BY <1>8, <1>9, <1>10, <1>11 DEF TimerInv

\* gettime counts what has expired.
LEMMA GettimeInv == ASSUME TimerInv, Timer!timerfd_gettime PROVE TimerInv'
<1>0. /\ TimerTypes /\ now \in Nat /\ offset \in Nat /\ timer \in Timerfd /\ kq \in SUBSET TimerEvents
      /\ Timer!Clock \in Nat /\ Timer!Clock = IF Jumps THEN now + offset ELSE now
  BY ClockIs DEF TimerInv, TimerTypes
<1>1. /\ exists /\ inside = Nobody /\ timer' = Timer!timerfd_ctx_gettime(timer)
      /\ UNCHANGED <<now, offset, exists, nonblock, kq, reader, inside, lost>>
  BY DEF Timer!timerfd_gettime, Nobody
<1>2. CASE timer' = timer
  BY <1>0, <1>1, <1>2, QuietInv DEF TimerInv, TimerTypes, Nobody, Timer!Nobody, Reading
<1>3. CASE timer' # timer
  <2>1. /\ timer' \in Timerfd /\ SameSettings(timer, timer')
        /\ Once(timer, timer', Timer!Clock) \/ Periods(timer, timer', Timer!Clock)
    BY <1>0, <1>1, <1>3, Updates DEF Timer!timerfd_ctx_gettime, NotYet
  <2>2. TimerTypes' /\ Ident(1)' = Ident(1) /\ Ident(0)' = Ident(0)
    BY <1>0, <1>1, <2>1 DEF TimerTypes, Ident
  <2>3. CASE Once(timer, timer', Timer!Clock)
    BY <1>1, <2>1, <2>2, <2>3, DisarmedInv DEF Once, Armed, SameSettings
  <2>4. CASE Periods(timer, timer', Timer!Clock)
    <3>1. /\ Armed /\ Armed' /\ Jumps' = Jumps /\ timer'.timer_type = timer.timer_type
          /\ timer'.nr_expirations > 0
      BY <1>0, <2>1, <2>4 DEF Periods, Armed, Jumps, Timer!can_jump, SameSettings, Timerfd
    <3>2. TimerBasics'
      BY <1>1, <2>1, <2>2, <3>1 DEF TimerInv, TimerBasics, SameSettings
    <3>3. inside' \notin Setting /\ inside' \notin Reading /\ inside' # Changing
      BY <1>1, <2>2 DEF Setting, Reading, Changing, Nobody, Timer!Nobody
    <3>4. ~Jumps => timer'.it_interval > 0 /\ timer'.it_value - timer'.it_interval <= now
      BY <1>0, <2>1, <2>4 DEF Periods, SameSettings
    <3>5. Settled'
      BY <1>1, <2>1, <3>1, <3>3, <3>4 DEF TimerInv, Settled, SameSettings
    <3>6. InSettime' /\ InRead' /\ InChange'
      BY <3>3 DEF InSettime, InRead, InChange, Changing
    <3>7. ArmedEvent'
      <4> SUFFICES ASSUME ~lost PROVE \E e \in kq' : Ident(0)' = {e} /\ OnTime(e)'
        BY <1>1 DEF ArmedEvent
      <4>1. PICK e \in kq : Ident(0) = {e} /\ OnTime(e)
        BY <1>1, <3>1 DEF TimerInv, ArmedEvent
      <4>2. timer'.force_cancel = timer.force_cancel /\ Timer!Readable' = Timer!Readable
        BY <1>1, <2>1 DEF SameSettings, Timer!Readable, Timer!Fired
      <4>3. ~Jumps => Timer!Deadline = timer.it_value /\ timer.it_value <= now
        BY <1>0, <2>4 DEF Timer!Deadline, Jumps, Periods
      <4>4. OnTime(e)'
        BY <1>0, <1>1, <3>1, <4>1, <4>2, <4>3 DEF OnTime
      <4> QED
        BY <1>1, <2>2, <4>1, <4>4
    <3> QED
      BY <2>2, <3>2, <3>5, <3>6, <3>7 DEF TimerInv
  <2> QED
    BY <2>1, <2>3, <2>4
<1> QED
  BY <1>2, <1>3

\* A read takes the events that have fired and notes the clock.
LEMMA DrainsInv == ASSUME TimerInv, NEW t \in Readers, Timer!ReadDrains(t) PROVE TimerInv'
<1> DEFINE idents == {e.ident : e \in Timer!Fired}
           cancelled == Timer!check_for_cancel(timer)
           taken == [op |-> "read", by |-> t, got |-> idents, cancelled |-> cancelled,
                     stepped |-> Timer!SteppedSince]
<1>0. TimerTypes /\ now \in Nat /\ offset \in Nat /\ timer \in Timerfd /\ kq \in SUBSET TimerEvents
  BY DEF TimerInv, TimerTypes
<1>1. /\ reader[t] = "reading" /\ inside = Nobody /\ timer.timer_type # "UNSPECIFIED"
      /\ timer' = Timer!Checked(timer)
      /\ kq' = Timer!clear_force_cancel(timer, kq \ Timer!Fired)
      /\ UNCHANGED <<now, offset, exists, nonblock>>
      /\ \/ /\ cancelled /\ 0 \in idents /\ lost' = TRUE /\ inside' = inside
            /\ reader' = [reader EXCEPT ![t] = "idle"]
         \/ ~(cancelled /\ 0 \in idents) /\ inside' = taken /\ UNCHANGED <<reader, lost>>
  BY Zenon DEF Timer!ReadDrains, Nobody
<1>2. Armed /\ exists
  BY <1>0, <1>1 DEF TimerInv, TimerBasics, TimerTypes
<1>4. /\ timer' \in Timerfd /\ timer'.clockid = timer.clockid
      /\ timer'.timer_type = timer.timer_type /\ timer'.it_value = timer.it_value
      /\ timer'.it_interval = timer.it_interval
      /\ timer'.nr_expirations = timer.nr_expirations
      /\ timer'.monotonic_offset = IF Jumps THEN offset ELSE timer.monotonic_offset
      /\ timer'.clockid = "REALTIME" => timer'.force_cancel = FALSE
      /\ timer'.clockid # "REALTIME" => timer' = timer
  BY <1>0, <1>1, Checks DEF Jumps
<1>5. timer'.force_cancel = FALSE
  BY <1>0, <1>4 DEF TimerInv, TimerBasics, Timerfd
<1>6. Armed' = Armed /\ Jumps' = Jumps
  BY <1>4 DEF Armed, Jumps, Timer!can_jump
<1>7. \A e \in kq : e \notin Timer!Fired => e.ident # 1
  BY DEF TimerInv, TimerBasics, Ident, Timer!Fired
<1>8. kq' = kq \ Timer!Fired
  <2>1. \A e \in kq : e \notin Timer!Fired => e \in Timer!Without(1, kq \ Timer!Fired)
    BY <1>7 DEF Timer!Without
  <2>2. Timer!Without(1, kq \ Timer!Fired) \in SUBSET (kq \ Timer!Fired)
    BY DEF Timer!Without
  <2> QED
    BY <1>1, <2>1, <2>2 DEF Timer!clear_force_cancel
<1>9. kq' \in SUBSET kq /\ Ident(1)' = {}
  BY <1>7, <1>8 DEF Ident
<1>10. TimerBasics'
  BY <1>1, <1>2, <1>4, <1>5, <1>6, <1>9 DEF TimerInv, TimerBasics
<1>11. (cancelled => Jumps) /\ (Timer!SteppedSince <=> Jumps /\ timer.monotonic_offset # offset)
  BY DEF Timer!check_for_cancel, Timer!SteppedSince, Jumps
<1>12. CASE inside' = inside /\ lost' = TRUE /\ cancelled /\ reader' = [reader EXCEPT ![t] = "idle"]
  <2>1. TimerTypes'
    BY <1>0, <1>1, <1>4, <1>9, <1>12 DEF TimerTypes
  <2>2. inside' = Nobody /\ inside' \notin Setting /\ inside' \notin Reading /\ inside' # Changing
    BY <1>0, <1>1, <1>12, InsideIs
  <2>3. Settled'
    BY <1>6, <1>11, <1>12, Zenon DEF Settled
  <2>4. InSettime' /\ InRead' /\ InChange' /\ ArmedEvent'
    BY <1>12, <2>2, Zenon DEF InSettime, InRead, InChange, ArmedEvent
  <2> QED
    BY <1>10, <2>1, <2>3, <2>4 DEF TimerInv
<1>13. CASE inside' = taken /\ UNCHANGED <<reader, lost>>
  <2>1. idents \in SUBSET {0, 1}
    BY <1>0 DEF Timer!Fired, TimerEvents
  <2>2. cancelled \in BOOLEAN /\ Timer!SteppedSince \in BOOLEAN
    BY DEF Timer!check_for_cancel, Timer!SteppedSince
  <2>3. inside' \in Reading
    BY <1>13, <2>1, <2>2 DEF Reading
  <2>4. /\ inside'.by = t /\ inside'.got = idents /\ inside'.cancelled = cancelled
        /\ inside'.stepped = Timer!SteppedSince
    BY <1>13
  <2>5. inside' # Nobody /\ inside' \notin Setting /\ inside' # Changing
    BY <2>3 DEF Setting, Reading, Changing, Nobody, Timer!Nobody
  <2>6. TimerTypes'
    BY <1>0, <1>1, <1>4, <1>9, <1>13, <2>3 DEF TimerTypes
  <2>7. Settled'
    BY <1>1, <1>4, <1>5, <1>6, <1>13 DEF TimerInv, Settled
  <2>8. InSettime' /\ InChange' /\ ArmedEvent'
    BY <2>5, Zenon DEF InSettime, InChange, ArmedEvent
  <2>9. InRead'
    <3>1. inside'.got = {} /\ ~inside'.stepped /\ ~lost /\ timer.nr_expirations = 0 =>
            \E e \in kq' : Ident(0)' = {e} /\ e.at = Timer!Deadline'
      <4> SUFFICES ASSUME idents = {}, ~Timer!SteppedSince, ~lost, timer.nr_expirations = 0
                   PROVE  \E e \in kq' : Ident(0)' = {e} /\ e.at = Timer!Deadline'
        BY <2>4
      <4>1. Timer!Fired = {} /\ ~Timer!Readable /\ kq' = kq
        BY <1>8 DEF Timer!Readable
      <4>2. PICK e \in kq : Ident(0) = {e} /\ OnTime(e)
        BY <1>1, <1>2 DEF TimerInv, ArmedEvent
      <4>3. ~(e.at <= now)
        BY <4>1 DEF Timer!Fired
      <4>4. e.at = Timer!Deadline
        BY <4>1, <4>2, <4>3 DEF OnTime
      <4>5. Timer!Deadline' = Timer!Deadline
        BY <1>4, <1>6, <1>11 DEF Timer!Deadline, Jumps
      <4> QED
        BY <4>1, <4>2, <4>4, <4>5 DEF Ident
    <3>2. inside'.got # {} /\ ~Jumps /\ timer.nr_expirations = 0 => timer.it_value <= now
      <4> SUFFICES ASSUME idents # {}, ~Jumps, timer.nr_expirations = 0 PROVE timer.it_value <= now
        BY <2>4
      <4>1. ~lost /\ ~timer.force_cancel
        BY <1>0, <1>1, <1>2 DEF TimerInv, Settled, TimerTypes
      <4>2. PICK e \in kq : Ident(0) = {e} /\ OnTime(e)
        BY <1>1, <1>2, <4>1 DEF TimerInv, ArmedEvent
      <4>3. PICK f \in kq : f.at <= now
        BY DEF Timer!Fired
      <4>4. f = e
        <5>1. Ident(1) = {}
          BY <4>1 DEF TimerInv, TimerBasics
        <5>2. f \in Ident(0)
          BY <1>0, <5>1 DEF Ident, TimerEvents
        <5> QED
          BY <4>2, <5>2
      <4>5. Timer!Deadline = timer.it_value
        BY DEF Timer!Deadline, Jumps
      <4> QED
        BY <1>0, <4>1, <4>2, <4>3, <4>4, <4>5 DEF OnTime
    <3> QED
      BY <1>1, <1>2, <1>4, <1>5, <1>6, <1>11, <1>13, <2>4, <3>1, <3>2 DEF InRead
  <2> QED
    BY <1>10, <2>6, <2>7, <2>8, <2>9 DEF TimerInv
<1> QED
  BY <1>1, <1>12, <1>13

\* Nothing has expired: the event the read found is the one the timer needs.
LEMMA FindsNothingInv ==
  ASSUME TimerInv, NEW t \in Readers, Timer!ReadFindsNothing(t) PROVE TimerInv'
<1>0. /\ TimerTypes /\ now \in Nat /\ offset \in Nat /\ timer \in Timerfd /\ kq \in SUBSET TimerEvents
      /\ Timer!Clock \in Nat
  BY ClockIs DEF TimerInv, TimerTypes
<1>1. /\ inside \in Reading /\ inside.got = {} /\ inside' = Nobody
      /\ Timer!Counted(timer).nr_expirations = 0
      /\ UNCHANGED <<now, offset, exists, nonblock, timer, kq>>
      /\ lost' = (lost \/ inside.stepped)
      /\ Timer!Again(t)
  BY <1>0, InsideIs, Zenon DEF Timer!ReadFindsNothing, Nobody
<1>2. reader' \in [Readers -> {"idle", "reading", "polling"}]
  BY <1>0, <1>1 DEF TimerTypes, Timer!Again
<1>3. inside' \notin Setting /\ inside' \notin Reading /\ inside' # Changing
  BY <1>1 DEF Setting, Reading, Changing, Nobody, Timer!Nobody
<1>4. timer.nr_expirations = 0
  <2>1. PICK u : u = Timer!update_to_current_time(timer, Timer!Clock)
    OBVIOUS
  <2>2. /\ u.nr_expirations = 0
        /\ \/ NotYet(timer, u, Timer!Clock) \/ Once(timer, u, Timer!Clock)
           \/ Periods(timer, u, Timer!Clock)
    BY <1>0, <1>1, <2>1, Updates DEF Timer!Counted
  <2>3. timer.nr_expirations \in Nat
    BY <1>0 DEF Timerfd
  <2>4. ~Once(timer, u, Timer!Clock) /\ ~Periods(timer, u, Timer!Clock)
    BY <2>2, <2>3 DEF Once, Periods
  <2> QED
    BY <2>2, <2>4 DEF NotYet
<1>5. /\ Armed' = Armed /\ Jumps' = Jumps /\ Ident(0)' = Ident(0) /\ Ident(1)' = Ident(1)
      /\ Timer!Deadline' = Timer!Deadline
  BY <1>1 DEF Armed, Jumps, Ident, Timer!can_jump, Timer!Deadline
<1>6. reader[inside.by] = "reading" /\ Armed /\ ~timer.force_cancel /\ (inside.stepped => Jumps)
      /\ (lost => Jumps) /\ inside # Nobody
  BY <1>0, <1>1, InsideIs DEF TimerInv, InRead, Settled
<1>7. TimerTypes'
  BY <1>0, <1>1, <1>2 DEF TimerTypes, Reading
<1>8. TimerBasics'
  BY <1>1, <1>5, <1>6 DEF TimerInv, TimerBasics
<1>9. Settled'
  <2>1. lost' => Jumps'
    BY <1>1, <1>5, <1>6, Zenon
  <2> QED
    BY <1>1, <1>4, <1>6, <2>1 DEF Settled
<1>10. InSettime' /\ InRead' /\ InChange'
  BY <1>3, Zenon DEF InSettime, InRead, InChange
<1>11. ArmedEvent'
  <2> SUFFICES ASSUME ~lost' PROVE \E e \in kq' : Ident(0)' = {e} /\ OnTime(e)'
    BY DEF ArmedEvent
  <2>1. ~lost /\ ~inside.stepped
    BY <1>1, Zenon
  <2>2. PICK e \in kq : Ident(0) = {e} /\ e.at = Timer!Deadline
    BY <1>1, <1>4, <2>1 DEF TimerInv, InRead
  <2>3. OnTime(e)'
    BY <1>1, <1>4, <1>5, <1>6, <2>2 DEF OnTime
  <2> QED
    BY <1>1, <1>5, <2>2, <2>3
<1> QED
  BY <1>7, <1>8, <1>9, <1>10, <1>11 DEF TimerInv

\* The end of a section that sets the event anew for what the timer is then.
LEMMA RearmedInv ==
  ASSUME TimerInv, exists, inside # Nobody, Ident(1) = {},
         UNCHANGED <<now, offset, exists>>, inside' = Nobody,
         reader' \in [Readers -> {"idle", "reading", "polling"}],
         timer' \in Timerfd, timer'.clockid = timer.clockid, timer'.force_cancel = FALSE,
         timer'.monotonic_offset = timer.monotonic_offset,
         Armed' <=> timer'.timer_type # "UNSPECIFIED",
         Armed' => timer'.timer_type = timer.timer_type,
         Armed' /\ timer'.nr_expirations > 0 => Jumps,
         NEW need_delete \in BOOLEAN,
         kq' = Timer!rearm_kevent(timer', kq, Timer!Clock, need_delete),
         lost' = Timer!SteppedSince
  PROVE  TimerInv'
<1>0. /\ TimerTypes /\ now \in Nat /\ offset \in Nat /\ timer \in Timerfd /\ kq \in SUBSET TimerEvents
      /\ Timer!Clock \in Nat /\ Timer!Clock = IF Jumps THEN now + offset ELSE now
  BY ClockIs DEF TimerInv, TimerTypes
<1>1. inside' \notin Setting /\ inside' \notin Reading /\ inside' # Changing
  BY DEF Setting, Reading, Changing, Nobody, Timer!Nobody
<1>2. Armed' => Jumps' = Jumps
  BY DEF Jumps, Timer!can_jump
<1>3. lost' <=> Jumps /\ timer.monotonic_offset # offset
  BY Zenon DEF Timer!SteppedSince, Jumps
<1>4. lost' \in BOOLEAN
  BY DEF Timer!SteppedSince
<1>5. CASE ~Armed'
  <2>1. kq' = kq \/ kq' = Timer!Without(0, kq)
    BY <1>5, Zenon DEF Timer!rearm_kevent, Timer!is_disarmed, Armed
  <2>2. kq' \in SUBSET kq /\ Ident(1)' = {}
    BY <2>1 DEF Timer!Without, Ident
  <2>3. TimerTypes'
    BY <1>0, <1>4, <2>2 DEF TimerTypes
  <2>4. timer'.timer_type = "UNSPECIFIED"
    BY <1>5
  <2>5. TimerBasics'
    BY <1>5, <2>2, <2>4 DEF TimerBasics
  <2>6. Settled' /\ ArmedEvent'
    BY <1>5 DEF Settled, ArmedEvent
  <2> QED
    BY <1>1, <2>3, <2>5, <2>6 DEF TimerInv, InSettime, InRead, InChange, Nobody, Timer!Nobody, Changing
<1>6. CASE Armed'
  <2>1. kq' = Timer!register_event(kq, timer'.it_value, Timer!Clock)
    BY <1>6, Zenon DEF Timer!rearm_kevent, Timer!is_disarmed, Armed
  <2>2. PICK v : v = timer'.it_value
    OBVIOUS
  <2>3. v \in Nat
    BY <2>2 DEF Timerfd
  <2> DEFINE c == Timer!Clock
             registered == IF v > c THEN now + (v - c) ELSE now
  <2>3a. kq' = Timer!register_event(kq, v, c)
    BY <2>1, <2>2
  <2>3b. OneEvent(kq', registered)
    BY <1>0, <2>3, <2>3a, Registered
  <2>4. kq' \in SUBSET TimerEvents /\ Ident(1)' = {} /\ OneEvent(kq', registered)
    BY <1>0, <2>3, <2>3a, <2>3b, Registered DEF Ident
  <2>5. PICK e \in kq' : Ident(0)' = {e} /\ e.at = registered
    BY <2>4, Zenon DEF OneEvent, Ident
  <2>6. TimerTypes'
    BY <1>0, <1>4, <2>4 DEF TimerTypes
  <2>7. TimerBasics'
    BY <1>6, <2>4 DEF TimerBasics
  <2>8. Settled'
    <3>1. lost' => Jumps'
      BY <1>2, <1>3, <1>6, Zenon
    <3> QED
      BY <1>2, <1>6, <3>1 DEF Settled
  <2>9. ArmedEvent'
    <3> SUFFICES ASSUME ~lost' PROVE OnTime(e)'
      BY <2>5 DEF ArmedEvent
    <3>1. Jumps => timer.monotonic_offset = offset
      BY <1>3
    <3>2. Timer!Deadline' = IF Jumps THEN v - offset ELSE v
      BY <1>2, <1>6, <2>2, <3>1 DEF Timer!Deadline, Jumps
    <3>3. e.at = Timer!Deadline' \/ (e.at <= now /\ Timer!Deadline' <= now)
      BY <1>0, <2>3, <2>5, <3>2
    <3>4. timer'.nr_expirations > 0 => Jumps'
      BY <1>2, <1>6
    <3> QED
      BY <3>3, <3>4 DEF OnTime
  <2>10. InSettime' /\ InRead' /\ InChange'
    BY <1>1, Zenon DEF InSettime, InRead, InChange
  <2> QED
    BY <2>6, <2>7, <2>8, <2>9, <2>10 DEF TimerInv
<1> QED
  BY <1>5, <1>6

\* A read returns: what is expired is counted, and the event set for what is left.
LEMMA ReadCountsInv == ASSUME TimerInv, NEW t \in Readers, Timer!ReadCounts(t) PROVE TimerInv'
<1> DEFINE up       == IF inside.cancelled THEN timer ELSE Timer!Counted(timer)
           early    == ~inside.cancelled /\ up.nr_expirations = 0
           canceled == inside.cancelled \/ (early /\ up.is_cancel_on_set)
           over     == early /\ ~canceled /\ ~Timer!is_interval_timer(up)
           left     == IF inside.cancelled THEN up ELSE [up EXCEPT !.nr_expirations = 0]
<1>0. /\ TimerTypes /\ now \in Nat /\ offset \in Nat /\ timer \in Timerfd /\ kq \in SUBSET TimerEvents
      /\ Timer!Clock \in Nat
  BY ClockIs DEF TimerInv, TimerTypes
<1>1. /\ inside \in Reading /\ inside' = Nobody
      /\ UNCHANGED <<now, offset, exists, nonblock>>
      /\ timer' = (IF over THEN Timer!disarm(left) ELSE left)
      /\ kq' = Timer!rearm_kevent(timer', kq, Timer!Clock, 0 \notin inside.got)
      /\ lost' = Timer!SteppedSince
      /\ reader' = [reader EXCEPT ![t] = "idle"]
  BY <1>0, InsideIs, Zenon DEF Timer!ReadCounts, Nobody
<1>2. /\ reader' \in [Readers -> {"idle", "reading", "polling"}]
      /\ inside.cancelled \in BOOLEAN
  BY <1>0, <1>1 DEF TimerTypes, Reading
<1>3. /\ exists /\ Armed /\ ~timer.force_cancel /\ (inside.cancelled => Jumps)
      /\ inside # Nobody /\ Ident(1) = {} /\ timer.timer_type # "UNSPECIFIED"
  BY <1>0, <1>1, InsideIs DEF TimerInv, InRead, TimerBasics, TimerTypes
<1>4. /\ up \in Timerfd /\ SameSettings(timer, up)
      /\ up.it_value # 0 => up.timer_type = timer.timer_type
      /\ up.it_value # 0 <=> up.timer_type # "UNSPECIFIED"
  <2>1. CASE inside.cancelled
    BY <1>0, <1>3, <2>1 DEF SameSettings, Armed
  <2>2. CASE ~inside.cancelled
    <3>1. up = Timer!update_to_current_time(timer, Timer!Clock)
      BY <2>2 DEF Timer!Counted
    <3> HIDE DEF up
    <3>2. /\ up \in Timerfd /\ SameSettings(timer, up)
          /\ NotYet(timer, up, Timer!Clock) \/ Once(timer, up, Timer!Clock)
             \/ Periods(timer, up, Timer!Clock)
      BY <1>0, <3>1, Updates
    <3>3. CASE NotYet(timer, up, Timer!Clock)
      BY <1>3, <3>2, <3>3 DEF NotYet, Armed
    <3>4. CASE Once(timer, up, Timer!Clock)
      BY <3>2, <3>4 DEF Once
    <3>5. CASE Periods(timer, up, Timer!Clock)
      BY <1>0, <1>3, <3>2, <3>5 DEF Periods, Timerfd
    <3> QED
      BY <3>2, <3>3, <3>4, <3>5
  <2> QED
    BY <2>1, <2>2
<1>5. /\ left \in Timerfd /\ SameSettings(timer, left)
      /\ left.it_value = up.it_value /\ left.timer_type = up.timer_type
      /\ ~inside.cancelled => left.nr_expirations = 0
  <2> HIDE DEF up
  <2>1. CASE inside.cancelled
    BY <1>4, <2>1
  <2>2. CASE ~inside.cancelled
    <3>1. left = [up EXCEPT !.nr_expirations = 0]
      BY <2>2
    <3> HIDE DEF left
    <3> QED
      BY <1>4, <2>2, <3>1 DEF SameSettings, Timerfd
  <2> QED
    BY <2>1, <2>2
<1> HIDE DEF left, up
<1>6. CASE over
  <2>1. timer' = Timer!disarm(left)
    BY <1>1, <1>6
  <2>2. /\ timer' \in Timerfd /\ timer'.clockid = left.clockid
        /\ timer'.force_cancel = left.force_cancel
        /\ timer'.monotonic_offset = left.monotonic_offset
        /\ timer'.it_value = 0 /\ timer'.timer_type = "UNSPECIFIED"
    BY <1>5, <2>1 DEF Timer!disarm, Timerfd, Types
  <2>3. ~Armed' /\ timer'.force_cancel = FALSE
    BY <1>3, <1>5, <2>2 DEF Armed, SameSettings, Timerfd
  <2> QED
    BY <1>1, <1>2, <1>3, <1>5, <2>2, <2>3, RearmedInv DEF SameSettings
<1>7. CASE ~over
  <2>1. timer' = left
    BY <1>1, <1>7
  <2>2. /\ Armed' <=> timer'.timer_type # "UNSPECIFIED"
        /\ Armed' => timer'.timer_type = timer.timer_type
    BY <1>4, <1>5, <2>1 DEF Armed
  <2>3. Armed' /\ timer'.nr_expirations > 0 => Jumps
    BY <1>2, <1>3, <1>5, <2>1
  <2>4. timer'.force_cancel = FALSE
    BY <1>3, <1>5, <2>1 DEF SameSettings, Timerfd
  <2> QED
    BY <1>1, <1>2, <1>3, <1>5, <2>1, <2>2, <2>3, <2>4, RearmedInv DEF SameSettings
<1> QED
  BY <1>6, <1>7

\* A timer told of a step of the clock sets the event anew.
LEMMA ChangeRearmsInv == ASSUME TimerInv, Timer!ChangeRearms PROVE TimerInv'
<1>0. TimerTypes
  BY DEF TimerInv
<1>1. /\ inside = Changing /\ inside' = Nobody /\ inside # Nobody
      /\ kq' = Timer!rearm_kevent(timer, kq, Timer!Clock, TRUE)
      /\ lost' = Timer!SteppedSince
      /\ UNCHANGED <<now, offset, exists, nonblock, timer, reader>>
  BY <1>0, InsideIs DEF Timer!ChangeRearms, Nobody
<1>2. exists /\ Jumps /\ timer.force_cancel = FALSE /\ Ident(1) = {}
      /\ (Armed <=> timer.timer_type # "UNSPECIFIED")
  BY <1>0, <1>1 DEF TimerInv, TimerBasics, InChange, TimerTypes, Timerfd
<1>3. Armed' = Armed
  BY <1>1 DEF Armed
<1>4. timer' \in Timerfd /\ reader' \in [Readers -> {"idle", "reading", "polling"}]
  BY <1>0, <1>1 DEF TimerTypes
<1> QED
  BY <1>1, <1>2, <1>3, <1>4, RearmedInv

\* A timer looks at the clock after a step: it is cancelled, or its event set anew.
LEMMA RealtimeChangedInv == ASSUME TimerInv, Timer!RealtimeChanged PROVE TimerInv'
<1>0. TimerTypes /\ now \in Nat /\ offset \in Nat /\ timer \in Timerfd /\ kq \in SUBSET TimerEvents
  BY DEF TimerInv, TimerTypes
<1>1. /\ exists /\ inside = Nobody /\ Jumps
      /\ UNCHANGED <<now, offset, exists, nonblock, reader, lost>>
  BY DEF Timer!RealtimeChanged, Timer!LooksAtClock, Timer!SteppedSince, Nobody, Jumps
<1>2. timer.clockid = "REALTIME"
  BY <1>1 DEF Jumps, Timer!can_jump
<1>3. CASE timer.is_cancel_on_set
  <2> DEFINE x == [ident |-> 1, at |-> now]
  <2>1. /\ timer' = [timer EXCEPT !.monotonic_offset = offset, !.force_cancel = TRUE]
        /\ kq' = {e \in kq : e.ident # 1} \cup {x}
        /\ inside' = Nobody
    BY <1>1, <1>3, Zenon DEF Timer!RealtimeChanged, Timer!Without
  <2>2. /\ timer' \in Timerfd /\ timer'.clockid = timer.clockid /\ timer'.force_cancel = TRUE
        /\ timer'.timer_type = timer.timer_type /\ timer'.it_value = timer.it_value
    BY <1>0, <2>1 DEF Timerfd
  <2>3. x \in TimerEvents /\ x.ident = 1 /\ x.at = now
    BY <1>0 DEF TimerEvents
  <2> HIDE DEF x
  <2>4. kq' \in SUBSET TimerEvents /\ x \in kq'
    BY <1>0, <2>1, <2>3
  <2>5. Ident(0)' = Ident(0) /\ Ident(1)' = {x}
    BY <2>1, <2>3 DEF Ident
  <2>6. Armed' = Armed /\ Jumps'
    BY <1>1, <2>2 DEF Armed, Jumps, Timer!can_jump
  <2>7. inside' \notin Setting /\ inside' \notin Reading /\ inside' # Changing
    BY <2>1 DEF Setting, Reading, Changing, Nobody, Timer!Nobody
  <2>8. TimerTypes'
    BY <1>0, <1>1, <2>1, <2>2, <2>4 DEF TimerTypes
  <2>9. \A e \in Ident(1)' : e.at <= now'
    BY <1>0, <1>1, <2>3, <2>5
  <2>10. TimerBasics'
    BY <1>1, <1>2, <2>2, <2>5, <2>6, <2>9 DEF TimerInv, TimerBasics
  <2>11. Settled'
    BY <2>6 DEF Settled
  <2>12. InSettime' /\ InRead' /\ InChange'
    BY <2>7, Zenon DEF InSettime, InRead, InChange
  <2>13. ArmedEvent'
    <3> SUFFICES ASSUME Armed, ~lost PROVE \E e \in kq' : Ident(0)' = {e} /\ OnTime(e)'
      BY <1>1, <2>6 DEF ArmedEvent
    <3>1. PICK e \in kq : Ident(0) = {e}
      BY <1>1 DEF TimerInv, ArmedEvent
    <3>2. Timer!Readable'
      BY <1>0, <1>1, <2>3, <2>4 DEF Timer!Readable, Timer!Fired
    <3>3. OnTime(e)'
      BY <2>2, <3>2 DEF OnTime
    <3> QED
      BY <2>5, <3>1, <3>3 DEF Ident
  <2> QED
    BY <2>8, <2>10, <2>11, <2>12, <2>13 DEF TimerInv
<1>4. CASE ~timer.is_cancel_on_set
  <2>1. /\ timer' = [timer EXCEPT !.monotonic_offset = offset]
        /\ inside' = (IF Timer!Readable THEN Nobody ELSE Changing)
        /\ kq' = kq
    BY <1>1, <1>4 DEF Timer!RealtimeChanged, Changing
  <2>2. /\ timer' \in Timerfd /\ timer'.clockid = timer.clockid
        /\ timer'.force_cancel = timer.force_cancel /\ timer'.nr_expirations = timer.nr_expirations
        /\ timer'.timer_type = timer.timer_type /\ timer'.it_value = timer.it_value
    BY <1>0, <2>1 DEF Timerfd
  <2>3. /\ Ident(0)' = Ident(0) /\ Ident(1)' = Ident(1) /\ Armed' = Armed /\ Jumps'
        /\ Timer!Readable' = Timer!Readable
    BY <1>1, <2>1, <2>2 DEF Ident, Armed, Jumps, Timer!can_jump, Timer!Readable, Timer!Fired
  <2>4. TimerTypes'
    BY <1>0, <1>1, <2>1, <2>2 DEF TimerTypes
  <2>5. TimerBasics'
    BY <1>1, <2>1, <2>2, <2>3 DEF TimerInv, TimerBasics
  <2>6. Settled'
    BY <2>3 DEF Settled
  <2>7. inside' \notin Setting /\ inside' \notin Reading
    BY <2>1 DEF Setting, Reading, Changing, Nobody, Timer!Nobody
  <2>8. timer.force_cancel => Timer!Readable
    <3> SUFFICES ASSUME timer.force_cancel PROVE Timer!Readable
      OBVIOUS
    <3>1. PICK e \in Ident(1) : e.at <= now
      BY DEF TimerInv, TimerBasics
    <3> QED
      BY <3>1 DEF Ident, Timer!Readable, Timer!Fired
  <2>9. InSettime' /\ InRead' /\ InChange'
    <3>1. InChange'
      BY <2>1, <2>2, <2>3, <2>8 DEF InChange, Changing, Nobody, Timer!Nobody
    <3> QED
      BY <2>7, <3>1, Zenon DEF InSettime, InRead
  <2>10. ArmedEvent'
    <3> SUFFICES ASSUME inside' = Nobody, Armed, ~lost
                 PROVE  \E e \in kq' : Ident(0)' = {e} /\ OnTime(e)'
      BY <1>1, <2>3 DEF ArmedEvent
    <3>1. Timer!Readable
      BY <2>1 DEF Changing, Nobody, Timer!Nobody
    <3>2. PICK e \in kq : Ident(0) = {e} /\ OnTime(e)
      BY <1>1 DEF TimerInv, ArmedEvent
    <3>3. ~timer.force_cancel => e.at <= now
      <4> SUFFICES ASSUME ~timer.force_cancel PROVE e.at <= now
        OBVIOUS
      <4>1. PICK f \in kq : f.at <= now
        BY <3>1 DEF Timer!Readable, Timer!Fired
      <4>2. Ident(1) = {}
        BY DEF TimerInv, TimerBasics
      <4>3. f \in Ident(0)
        BY <1>0, <4>2 DEF Ident, TimerEvents
      <4> QED
        BY <3>2, <4>1, <4>3
    <3>4. OnTime(e)'
      BY <1>1, <2>2, <2>3, <3>1, <3>3 DEF OnTime
    <3> QED
      BY <2>1, <2>3, <3>2, <3>4
  <2> QED
    BY <2>4, <2>5, <2>6, <2>9, <2>10 DEF TimerInv
<1> QED
  BY <1>3, <1>4

LEMMA TimerNextInv ==
  ASSUME TimerInv, Timer!Next, Offsets \subseteq Nat
  PROVE  TimerInv'
<1>0. /\ TimerTypes /\ now \in Nat /\ offset \in Nat /\ exists \in BOOLEAN
      /\ inside \in Reading => reader[inside.by] = "reading" /\ inside.by \in Readers
      /\ reader \in [Readers -> {"idle", "reading", "polling"}]
  BY DEF TimerInv, TimerTypes, InRead, Reading
<1>1. CASE Timer!Tick
  BY <1>0, <1>1, QuietInv DEF Timer!Tick
<1>2. CASE Timer!Step
  BY <1>0, <1>2, QuietInv DEF Timer!Step
<1>3. ASSUME NEW clockid \in Clocks, NEW block \in BOOLEAN, Timer!timerfd_create(clockid, block)
      PROVE  TimerInv'
  <2>1. Fresh'
    BY <1>0, <1>3 DEF Timer!timerfd_create, TimerInv, TimerBasics, Fresh, TimerTypes, Nobody,
       Timer!Nobody
  <2> QED
    BY <2>1, FreshInv, PTL
<1>4. CASE \E is_abstime, cancel_on_set, wants_old \in BOOLEAN, v \in Values, i \in Intervals :
             Timer!timerfd_settime(is_abstime, cancel_on_set, v, i, wants_old)
  BY <1>4, SettimeInv
<1>5. CASE Timer!SettimeEnds \/ Timer!timerfd_gettime
  BY <1>5, SettimeEndsInv, GettimeInv
<1>6. ASSUME NEW t \in Readers,
             \/ Timer!StartRead(t) \/ Timer!ReadDisarmed(t)
             \/ Timer!PollReturns(t) \/ Timer!PollInterrupted(t)
      PROVE  TimerInv'
  <2>1. /\ UNCHANGED <<now, offset, exists, timer, kq, inside, lost>>
        /\ reader[t] \in {"idle", "polling"} \/ inside = Nobody
        /\ \E place \in {"idle", "reading", "polling"} : reader' = [reader EXCEPT ![t] = place]
    BY <1>6 DEF Timer!StartRead, Timer!ReadDisarmed, Timer!Again, Timer!PollReturns,
       Timer!PollInterrupted, Nobody, Timer!Nobody
  <2>2. inside \in Reading => reader'[inside.by] = "reading"
    BY <1>0, <2>1, InsideIs
  <2>3. reader' \in [Readers -> {"idle", "reading", "polling"}]
    BY <1>0, <2>1
  <2> QED
    BY <1>0, <2>1, <2>2, <2>3, QuietInv
<1>7. CASE \E t \in Readers : Timer!ReadDrains(t)
  BY <1>7, DrainsInv
<1>8. CASE \E t \in Readers : Timer!ReadFindsNothing(t)
  BY <1>8, FindsNothingInv
<1>9. CASE \E t \in Readers : Timer!ReadCounts(t)
  BY <1>9, ReadCountsInv
<1>10. CASE Timer!RealtimeChanged \/ Timer!ChangeRearms
  BY <1>10, RealtimeChangedInv, ChangeRearmsInv
<1>11. CASE \E block \in BOOLEAN : Timer!epoll_shim_fcntl(block)
  BY <1>0, <1>11, QuietInv DEF Timer!epoll_shim_fcntl
<1>12. CASE Timer!timerfd_close
  <2>1. Fresh'
    BY <1>0, <1>12 DEF Timer!timerfd_close, Fresh, TimerTypes, Clocks, Nobody, Timer!Nobody
  <2> QED
    BY <2>1, FreshInv, PTL
<1> QED
  BY <1>1, <1>2, <1>3, <1>4, <1>5, <1>6, <1>7, <1>8, <1>9, <1>10, <1>11, <1>12
  DEF Timer!Next, Clocks

\* Of a timer that was set: its next expiration comes after as many periods as the reads
\* have returned and as are counted, and the last of those has ended.
Tallied(tm, n) ==
  IF tm.it_interval # 0
  THEN tm.it_value = tally.first + (n + tm.nr_expirations) * tm.it_interval
  ELSE tm.it_value = tally.first /\ n = 0 /\ tm.nr_expirations = 0
Begun(tm, n, time) == n + tm.nr_expirations > 0 => tm.it_value - tm.it_interval <= time

TallyInv ==
  /\ tally \in [first : Nat, returned : Nat]
  /\ inside \in Setting /\ Armed => tally.first = timer.it_value /\ tally.returned = 0
  /\ inside \notin Setting /\ Armed =>
       Tallied(timer, tally.returned) /\ (~Jumps => Begun(timer, tally.returned, now))

\* Counting keeps the sum.
LEMMA CountingTallies ==
  ASSUME NEW tm \in Timerfd, NEW u \in Timerfd, NEW time \in Nat, NEW n \in Nat, tally.first \in Nat,
         SameSettings(tm, u), NotYet(tm, u, time) \/ Periods(tm, u, time), Tallied(tm, n)
  PROVE  Tallied(u, n) /\ (Begun(tm, n, time) => Begun(u, n, time))
<1>1. CASE NotYet(tm, u, time)
  BY <1>1 DEF NotYet
<1>2. CASE Periods(tm, u, time)
  <2> DEFINE i == tm.it_interval
             a == n + tm.nr_expirations
             b == u.nr_expirations - tm.nr_expirations
  <2>1. /\ a \in Int /\ b \in Int /\ i \in Int /\ i # 0 /\ u.it_interval = i
        /\ n + u.nr_expirations = a + b
    BY <1>2 DEF Timerfd, Periods, SameSettings
  <2>2. tm.it_value = tally.first + a * i /\ u.it_value = tm.it_value + b * i
    BY <1>2, <2>1 DEF Tallied, Periods
  <2>3. u.it_value - u.it_interval <= time
    BY <1>2 DEF Periods, SameSettings
  <2> HIDE DEF a, b, i
  <2>4. u.it_value = tally.first + (a + b) * i
    <3>1. (a + b) * i = a * i + b * i /\ a * i \in Int /\ b * i \in Int
      BY <2>1
    <3> HIDE <2>1
    <3> QED
      BY <2>2, <3>1
  <2>5. u.it_value = tally.first + (n + u.nr_expirations) * u.it_interval
    BY <2>1, <2>4
  <2> QED
    BY <2>1, <2>3, <2>5 DEF Tallied, Begun
<1> QED
  BY <1>1, <1>2

\* A step that counts nothing and sets nothing.
LEMMA TallyKept ==
  ASSUME TimerTypes, TallyInv, tally' = tally, now' \in Nat, now <= now', timer' \in Timerfd,
         inside' \in Setting <=> inside \in Setting,
         timer'.clockid = timer.clockid, timer'.timer_type = timer.timer_type,
         timer'.it_value = timer.it_value, timer'.it_interval = timer.it_interval,
         timer'.nr_expirations = timer.nr_expirations
  PROVE  TallyInv'
<1>1. Armed' = Armed /\ Jumps' = Jumps /\ tally'.returned = tally.returned
  BY DEF Armed, Jumps, Timer!can_jump
<1>2. Tallied(timer, tally.returned) => Tallied(timer, tally.returned)'
  BY DEF Tallied
<1>3. Begun(timer, tally.returned, now) => Begun(timer, tally.returned, now)'
  BY DEF Begun, TimerTypes, Timerfd, TallyInv
<1> QED
  BY <1>1, <1>2, <1>3 DEF TallyInv

LEMMA TallySettime ==
  ASSUME TimerInv', TallyInv, NEW is_abstime, NEW cancel_on_set, NEW v, NEW i, NEW wants_old,
         Timer!timerfd_settime(is_abstime, cancel_on_set, v, i, wants_old)
  PROVE  TallyInv'
<1>1. tally' = [first |-> timer'.it_value, returned |-> 0] /\ inside' = [op |-> "settime", offset |-> offset]
      /\ offset' = offset
  BY DEF Timer!timerfd_settime
<1>2. TimerTypes' /\ timer'.it_value \in Nat /\ offset' \in Nat
  BY DEF TimerInv, TimerTypes, Timerfd
<1>3. inside' \in Setting
  BY <1>1, <1>2 DEF Setting
<1> QED
  BY <1>1, <1>2, <1>3 DEF TallyInv

LEMMA TallySettimeEnds == ASSUME TimerInv, TallyInv, Timer!SettimeEnds PROVE TallyInv'
<1> DEFINE tm == [timer EXCEPT !.nr_expirations = 0]
<1>0. TimerTypes /\ timer \in Timerfd /\ offset \in Nat
  BY DEF TimerInv, TimerTypes
<1>1. /\ inside \in Setting /\ timer' = Timer!Checked(tm) /\ inside' = Nobody
      /\ UNCHANGED <<now, tally>>
  BY <1>0, InsideIs DEF Timer!SettimeEnds, Nobody
<1>2. /\ tm \in Timerfd /\ tm.nr_expirations = 0 /\ tm.it_value = timer.it_value
  BY <1>0 DEF Timerfd
<1> HIDE DEF tm
<1>3. timer' \in Timerfd /\ timer'.nr_expirations = 0 /\ timer'.it_value = timer.it_value
  BY <1>0, <1>1, <1>2, Checks
<1>4. inside' \notin Setting
  BY <1>1 DEF Setting, Nobody, Timer!Nobody
<1>5. ASSUME Armed' PROVE tally.first = timer'.it_value /\ tally.returned = 0
  BY <1>1, <1>3, <1>5 DEF TallyInv, Armed
<1>6. ASSUME Armed' PROVE Tallied(timer, tally.returned)' /\ Begun(timer, tally.returned, now)'
  <2>1. (0 + 0) * timer'.it_interval = 0
    BY <1>3 DEF Timerfd
  <2> QED
    BY <1>1, <1>3, <1>5, <1>6, <2>1 DEF Tallied, Begun, Timerfd
<1> QED
  BY <1>1, <1>4, <1>6 DEF TallyInv

LEMMA TallyGettime == ASSUME TimerInv, TallyInv, Timer!timerfd_gettime PROVE TallyInv'
<1>0. /\ TimerTypes /\ timer \in Timerfd /\ now \in Nat /\ Timer!Clock \in Nat
      /\ ~Jumps => Timer!Clock = now
  BY ClockIs DEF TimerInv, TimerTypes
<1>1. /\ inside = Nobody /\ timer' = Timer!timerfd_ctx_gettime(timer)
      /\ UNCHANGED <<now, inside, tally>>
  BY DEF Timer!timerfd_gettime, Nobody
<1>2. CASE timer' = timer
  BY <1>0, <1>1, <1>2, TallyKept
<1>3. CASE timer' # timer
  <2>1. /\ timer' \in Timerfd /\ SameSettings(timer, timer')
        /\ Once(timer, timer', Timer!Clock) \/ Periods(timer, timer', Timer!Clock)
    BY <1>0, <1>1, <1>3, Updates DEF Timer!timerfd_ctx_gettime, NotYet
  <2>2. CASE Once(timer, timer', Timer!Clock)
    BY <1>1, <2>2 DEF Once, TallyInv, Armed
  <2>3. CASE Periods(timer, timer', Timer!Clock)
    <3>1. /\ inside \notin Setting /\ Armed /\ Jumps' = Jumps
      BY <1>0, <1>1, <2>1, <2>3, InsideIs DEF Periods, Armed, Jumps, Timer!can_jump, SameSettings
    <3>2. Tallied(timer', tally.returned)
          /\ (Begun(timer, tally.returned, Timer!Clock) => Begun(timer', tally.returned, Timer!Clock))
      BY <1>0, <2>1, <2>3, <3>1, CountingTallies DEF TallyInv
    <3>3. Tallied(timer, tally.returned)'
      BY <1>1, <3>2 DEF Tallied
    <3>4. ~Jumps => Begun(timer, tally.returned, now)'
      BY <1>0, <1>1, <3>1, <3>2 DEF TallyInv, Begun
    <3> QED
      BY <1>1, <3>1, <3>3, <3>4 DEF TallyInv
  <2> QED
    BY <2>1, <2>2, <2>3
<1> QED
  BY <1>2, <1>3

\* What a read has counted when it ends.
LEMMA ReadCounted ==
  ASSUME TimerInv, TallyInv, inside \in Reading, ~Jumps, NEW up, up = Timer!Counted(timer)
  PROVE  /\ up \in Timerfd /\ SameSettings(timer, up)
         /\ \/ /\ NotYet(timer, up, now) /\ now < timer.it_value
            \/ Once(timer, up, now) \/ Periods(timer, up, now)
         /\ timer \in Timerfd /\ now \in Nat /\ Tallied(timer, tally.returned)
         /\ Begun(timer, tally.returned, now)
         /\ up.nr_expirations = 0 => NotYet(timer, up, now) /\ inside.got = {}
<1>0. TimerTypes /\ timer \in Timerfd /\ now \in Nat /\ Timer!Clock = now
  BY ClockIs DEF TimerInv, TimerTypes
<1>1. /\ up \in Timerfd /\ SameSettings(timer, up)
      /\ NotYet(timer, up, now) \/ Once(timer, up, now) \/ Periods(timer, up, now)
  BY <1>0, Updates DEF Timer!Counted
<1>2. Armed /\ inside \notin Setting
      /\ (inside.got # {} /\ timer.nr_expirations = 0 => timer.it_value <= now)
  BY <1>0, InsideIs DEF TimerInv, InRead
<1>3. Tallied(timer, tally.returned) /\ Begun(timer, tally.returned, now)
  BY <1>2 DEF TallyInv
<1>4. NotYet(timer, up, now) => now < timer.it_value
  BY <1>2 DEF NotYet, Armed
<1>5. ASSUME up.nr_expirations = 0 PROVE NotYet(timer, up, now) /\ inside.got = {}
  <2>1. NotYet(timer, up, now)
    BY <1>0, <1>1, <1>5 DEF Once, Periods, Timerfd
  <2> QED
    BY <1>0, <1>2, <1>4, <1>5, <2>1 DEF NotYet, Timerfd
<1> QED
  BY <1>0, <1>1, <1>3, <1>4, <1>5

LEMMA TallyReadCounts ==
  ASSUME TimerInv, TallyInv, NEW t \in Readers, Timer!ReadCounts(t) PROVE TallyInv'
<1> DEFINE up       == IF inside.cancelled THEN timer ELSE Timer!Counted(timer)
           early    == ~inside.cancelled /\ up.nr_expirations = 0
           canceled == inside.cancelled \/ (early /\ up.is_cancel_on_set)
           over     == early /\ ~canceled /\ ~Timer!is_interval_timer(up)
           left     == IF inside.cancelled THEN up ELSE [up EXCEPT !.nr_expirations = 0]
           val      == IF canceled THEN 0 ELSE IF over THEN 1 ELSE up.nr_expirations
<1>0. /\ TimerTypes /\ timer \in Timerfd /\ now \in Nat /\ Timer!Clock \in Nat
      /\ ~Jumps => Timer!Clock = now
  BY ClockIs DEF TimerInv, TimerTypes
<1>1. /\ inside \in Reading /\ inside' = Nobody /\ now' = now
      /\ timer' = (IF over THEN Timer!disarm(left) ELSE left)
      /\ tally' = [tally EXCEPT !.returned = @ + val]
  BY <1>0, InsideIs, Zenon DEF Timer!ReadCounts, Nobody
<1>2. /\ inside \notin Setting /\ inside' \notin Setting /\ Armed /\ inside.cancelled \in BOOLEAN
      /\ tally \in [first : Nat, returned : Nat]
  BY <1>0, <1>1, InsideIs DEF TimerInv, InRead, TallyInv, Reading, Setting, Nobody, Timer!Nobody
<1>3. CASE inside.cancelled
  <2>1. up = timer /\ ~early /\ canceled /\ ~over /\ left = timer /\ val = 0
    BY <1>3
  <2> HIDE DEF up, early, canceled, over, left, val
  <2>2. tally' = tally /\ timer' = timer
    BY <1>1, <1>2, <2>1
  <2> QED
    BY <1>0, <1>1, <1>2, <2>2, TallyKept
<1>4. CASE ~inside.cancelled
  <2>1. up = Timer!update_to_current_time(timer, Timer!Clock) /\ left = [up EXCEPT !.nr_expirations = 0]
    BY <1>4 DEF Timer!Counted
  <2>2. val = (IF over THEN 1 ELSE up.nr_expirations)
    BY <1>4
  <2> HIDE DEF up, early, canceled, over, left, val
  <2>3. /\ up \in Timerfd /\ SameSettings(timer, up)
        /\ NotYet(timer, up, Timer!Clock) \/ Once(timer, up, Timer!Clock)
           \/ Periods(timer, up, Timer!Clock)
    BY <1>0, <2>1, Updates
  <2>4. /\ val \in Nat /\ tally' \in [first : Nat, returned : Nat]
        /\ tally'.first = tally.first /\ tally'.returned = tally.returned + val
    BY <1>1, <1>2, <2>2, <2>3 DEF Timerfd
  <2>5. /\ left \in Timerfd /\ left.nr_expirations = 0 /\ left.it_value = up.it_value
        /\ left.it_interval = up.it_interval /\ left.clockid = up.clockid
        /\ left.timer_type = up.timer_type
    BY <2>1, <2>3 DEF Timerfd
  <2>6. CASE over
    <3>1. timer' = Timer!disarm(left)
      BY <1>1, <2>6
    <3>2. ~Armed'
      BY <2>5, <3>1 DEF Armed, Timer!disarm, Timerfd
    <3> QED
      BY <1>2, <2>4, <3>2 DEF TallyInv
  <2>7. CASE ~over /\ Once(timer, up, Timer!Clock)
    BY <1>1, <1>2, <2>4, <2>5, <2>7 DEF TallyInv, Armed, Once
  <2>8. CASE ~over /\ (NotYet(timer, up, Timer!Clock) \/ Periods(timer, up, Timer!Clock))
    <3>1. timer' = left /\ val = up.nr_expirations
      BY <1>1, <2>2, <2>8
    <3>2. Jumps' = Jumps
      BY <2>3, <2>5, <2>8, <3>1
      DEF Jumps, Timer!can_jump, SameSettings, NotYet, Periods
    <3>3. /\ Tallied(up, tally.returned)
          /\ Begun(timer, tally.returned, Timer!Clock) => Begun(up, tally.returned, Timer!Clock)
      BY <1>0, <1>2, <2>3, <2>8, CountingTallies DEF TallyInv
    <3>4. Tallied(timer, tally.returned)'
      BY <1>2, <2>3, <2>4, <2>5, <3>1, <3>3 DEF Tallied, Timerfd
    <3>5. ~Jumps => Begun(timer, tally.returned, now)'
      <4> SUFFICES ASSUME ~Jumps PROVE Begun(timer, tally.returned, now)'
        OBVIOUS
      <4>1. Begun(up, tally.returned, now)
        BY <1>0, <1>2, <3>3 DEF TallyInv
      <4> QED
        BY <1>1, <1>2, <2>3, <2>4, <2>5, <3>1, <4>1 DEF Begun, Timerfd
    <3> QED
      BY <1>2, <2>4, <3>2, <3>4, <3>5 DEF TallyInv
  <2> QED
    BY <2>3, <2>6, <2>7, <2>8
<1> QED
  BY <1>2, <1>3, <1>4

LEMMA TallyNextInv ==
  ASSUME TimerInv, TimerInv', TallyInv, Timer!Next PROVE TallyInv'
<1>0. TimerTypes /\ now \in Nat /\ timer \in Timerfd /\ timer' \in Timerfd /\ now' \in Nat /\ offset \in Nat
  BY DEF TimerInv, TimerTypes
<1>1. Nobody \notin Setting /\ Changing \notin Setting /\ Reading \cap Setting = {}
  BY DEF Nobody, Timer!Nobody, Changing, Reading, Setting
<1>2. CASE Timer!Tick \/ Timer!Step
  BY <1>0, <1>2, TallyKept DEF Timer!Tick, Timer!Step
<1>3. ASSUME NEW clockid, NEW block, Timer!timerfd_create(clockid, block) PROVE TallyInv'
  <2>1. ~Armed' /\ tally' = tally
    BY <1>3 DEF Timer!timerfd_create, Timer!timerfd_ctx_init, Armed
  <2> QED
    BY <2>1 DEF TallyInv
<1>4. CASE \E is_abstime, cancel_on_set, wants_old \in BOOLEAN, v \in Values, i \in Intervals :
             Timer!timerfd_settime(is_abstime, cancel_on_set, v, i, wants_old)
  BY <1>4, TallySettime
<1>5. CASE Timer!SettimeEnds \/ Timer!timerfd_gettime
  BY <1>5, TallySettimeEnds, TallyGettime
<1>6. ASSUME NEW t \in Readers,
             \/ Timer!StartRead(t) \/ Timer!ReadDisarmed(t)
             \/ Timer!PollReturns(t) \/ Timer!PollInterrupted(t)
      PROVE  TallyInv'
  BY <1>0, <1>6, TallyKept DEF Timer!StartRead, Timer!ReadDisarmed, Timer!PollReturns,
     Timer!PollInterrupted
<1>7. ASSUME NEW t \in Readers, Timer!ReadDrains(t) PROVE TallyInv'
  <2>1. /\ timer' = Timer!Checked(timer) /\ inside = Nobody /\ tally' = tally /\ now' = now
        /\ inside' = inside \/ inside'.op = "read"
    BY <1>7 DEF Timer!ReadDrains, Nobody
  <2>2. inside' \notin Setting
    BY <1>1, <2>1 DEF Setting
  <2>3. /\ timer'.clockid = timer.clockid /\ timer'.timer_type = timer.timer_type
        /\ timer'.it_value = timer.it_value /\ timer'.it_interval = timer.it_interval
        /\ timer'.nr_expirations = timer.nr_expirations
    BY <1>0, <2>1, Checks
  <2> QED
    BY <1>0, <1>1, <2>1, <2>2, <2>3, TallyKept
<1>8. ASSUME NEW t \in Readers, Timer!ReadFindsNothing(t) PROVE TallyInv'
  <2>1. inside \in Reading /\ inside' = Nobody /\ UNCHANGED <<now, timer, tally>>
    BY <1>0, <1>8, InsideIs DEF Timer!ReadFindsNothing, Nobody
  <2> QED
    BY <1>0, <1>1, <2>1, TallyKept
<1>9. CASE \E t \in Readers : Timer!ReadCounts(t)
  BY <1>9, TallyReadCounts
<1>10. CASE Timer!RealtimeChanged
  <2>1. /\ inside = Nobody /\ inside' \in {Nobody, Changing} /\ UNCHANGED <<now, tally>>
        /\ \/ timer' = [timer EXCEPT !.monotonic_offset = offset, !.force_cancel = TRUE]
           \/ timer' = [timer EXCEPT !.monotonic_offset = offset]
    BY <1>10 DEF Timer!RealtimeChanged, Timer!LooksAtClock, Nobody, Changing
  <2>2. /\ timer'.clockid = timer.clockid /\ timer'.timer_type = timer.timer_type
        /\ timer'.it_value = timer.it_value /\ timer'.it_interval = timer.it_interval
        /\ timer'.nr_expirations = timer.nr_expirations
    BY <1>0, <2>1 DEF Timerfd
  <2> QED
    BY <1>0, <1>1, <2>1, <2>2, TallyKept
<1>11. CASE Timer!ChangeRearms
  <2>1. inside = Changing /\ inside' = Nobody /\ UNCHANGED <<now, timer, tally>>
    BY <1>0, <1>11, InsideIs DEF Timer!ChangeRearms, Nobody
  <2> QED
    BY <1>0, <1>1, <2>1, TallyKept
<1>12. ASSUME NEW block, Timer!epoll_shim_fcntl(block) PROVE TallyInv'
  BY <1>0, <1>12, TallyKept DEF Timer!epoll_shim_fcntl
<1>13. CASE Timer!timerfd_close
  <2>1. ~Armed' /\ tally' = [first |-> 0, returned |-> 0]
    BY <1>13 DEF Timer!timerfd_close, Timer!timerfd_ctx_init, Armed
  <2> QED
    BY <2>1 DEF TallyInv
<1> QED
  BY <1>2, <1>3, <1>4, <1>5, <1>6, <1>7, <1>8, <1>9, <1>10, <1>11, <1>12, <1>13 DEF Timer!Next

\* What ExpirationsExact says of a step.
Exact ==
  inside.op = "read" /\ ~inside.cancelled /\ inside' = Nobody /\ ~Jumps =>
    /\ Timer!Ended(tally'.returned)
    /\ reader'[inside.by] = "idle" /\ ~nonblock => tally'.returned > tally.returned

\* The sum the timer keeps is the number of periods that have ended.
LEMMA PeriodsEnded ==
  ASSUME NEW tm \in Timerfd, NEW n \in Nat, tally.first \in Nat, now \in Nat, timer \in Timerfd,
         tm.it_interval = timer.it_interval, Tallied(tm, n), Begun(tm, n, now), now < tm.it_value
  PROVE  Timer!Ended(n + tm.nr_expirations)
<1> DEFINE k == n + tm.nr_expirations
           i == timer.it_interval
<1>1. k \in Nat /\ i \in Nat /\ tm.it_value \in Nat
  BY DEF Timerfd
<1>2. CASE i # 0
  <2>1. tm.it_value = tally.first + k * i /\ (k > 0 => tm.it_value - i <= now)
    BY <1>2 DEF Tallied, Begun
  <2> HIDE DEF k, i
  <2>2. (k - 1) * i = k * i - i /\ k * i \in Int
    BY <1>1
  <2>3. /\ k > 0 => tally.first + (k - 1) * i <= now
        /\ now < tally.first + k * i
    BY <1>1, <2>1, <2>2
  <2> QED
    BY <1>2, <2>3 DEF Timer!Ended, Timer!is_interval_timer, k, i
<1>3. CASE i = 0
  <2>1. k = 0 /\ now < tally.first
    BY <1>3 DEF Tallied, Timerfd
  <2> QED
    BY <1>3, <2>1 DEF Timer!Ended, Timer!is_interval_timer, k, i
<1> QED
  BY <1>2, <1>3

LEMMA NextExact == ASSUME TimerInv, TallyInv, Timer!Next PROVE Exact
<1> SUFFICES ASSUME inside.op = "read", ~inside.cancelled, inside' = Nobody, ~Jumps
    PROVE  /\ Timer!Ended(tally'.returned)
           /\ reader'[inside.by] = "idle" /\ ~nonblock => tally'.returned > tally.returned
  BY DEF Exact
<1>0. /\ TimerTypes /\ reader \in [Readers -> {"idle", "reading", "polling"}]
      /\ tally \in [first : Nat, returned : Nat]
  BY DEF TimerInv, TimerTypes, TallyInv
<1>1. inside \in Reading /\ inside # Nobody /\ inside.op # "settime" /\ inside.op # "change"
  BY <1>0, InsideIs
<1>2. PICK up : up = Timer!Counted(timer)
  OBVIOUS
<1>3. /\ up \in Timerfd /\ SameSettings(timer, up)
      /\ \/ /\ NotYet(timer, up, now) /\ now < timer.it_value
         \/ Once(timer, up, now) \/ Periods(timer, up, now)
      /\ timer \in Timerfd /\ now \in Nat /\ Tallied(timer, tally.returned)
      /\ Begun(timer, tally.returned, now)
      /\ up.nr_expirations = 0 => NotYet(timer, up, now) /\ inside.got = {}
  BY <1>1, <1>2, ReadCounted
<1>4. PICK t \in Readers : Timer!ReadFindsNothing(t) \/ Timer!ReadCounts(t)
  BY <1>1 DEF Timer!Next, Timer!Tick, Timer!Step, Timer!timerfd_create, Timer!timerfd_settime,
     Timer!SettimeEnds, Timer!timerfd_gettime, Timer!RealtimeChanged, Timer!LooksAtClock,
     Timer!ChangeRearms, Timer!epoll_shim_fcntl, Timer!timerfd_close, Timer!StartRead,
     Timer!ReadDisarmed, Timer!ReadDrains, Timer!PollReturns, Timer!PollInterrupted, Nobody
<1>5. Once(timer, up, now) \/ Timer!Ended(tally.returned + up.nr_expirations)
  <2>1. CASE NotYet(timer, up, now) /\ now < timer.it_value
    BY <1>0, <1>3, <2>1, PeriodsEnded DEF NotYet
  <2>2. CASE Periods(timer, up, now)
    <3>1. Tallied(up, tally.returned) /\ Begun(up, tally.returned, now) /\ now < up.it_value
      BY <1>0, <1>3, <2>2, CountingTallies DEF Periods
    <3> QED
      BY <1>0, <1>3, <3>1, PeriodsEnded DEF SameSettings
  <2> QED
    BY <1>3, <2>1, <2>2
<1>6. ASSUME Once(timer, up, now) PROVE Timer!Ended(tally.returned + up.nr_expirations)
  <2>1. /\ tally.returned = 0 /\ up.nr_expirations = 1 /\ tally.first = timer.it_value
        /\ timer.it_value <= now /\ timer.it_interval = 0
    BY <1>3, <1>6 DEF Once, Tallied
  <2>2. tally.first + (1 - 1) * timer.it_interval <= now
    BY <1>0, <1>3, <2>1
  <2> QED
    BY <2>1, <2>2 DEF Timer!Ended, Timer!is_interval_timer
<1>7. CASE Timer!ReadFindsNothing(t)
  <2>1. up.nr_expirations = 0 /\ tally' = tally /\ inside.by = t /\ Timer!Again(t)
    BY <1>2, <1>7 DEF Timer!ReadFindsNothing
  <2>2. tally.returned + up.nr_expirations = tally'.returned
    BY <1>0, <2>1
  <2>3. reader'[inside.by] = "idle" => nonblock
    BY <1>0, <2>1 DEF Timer!Again
  <2> QED
    BY <1>5, <1>6, <2>2, <2>3
<1>8. CASE Timer!ReadCounts(t)
  <2>1. up.nr_expirations # 0
    BY <1>2, <1>3, <1>8 DEF Timer!ReadCounts
  <2>2. tally' = [tally EXCEPT !.returned = @ + up.nr_expirations]
    BY <1>2, <1>8, <2>1, Zenon DEF Timer!ReadCounts
  <2>3. tally'.returned = tally.returned + up.nr_expirations /\ up.nr_expirations > 0
    BY <1>0, <1>3, <2>1, <2>2 DEF Timerfd
  <2> QED
    BY <1>0, <1>3, <1>5, <1>6, <2>3 DEF Timerfd
<1> QED
  BY <1>4, <1>7, <1>8

\* The timerfd of a behaviour that is about something else.
TimerRest ==
  /\ now = 1 /\ exists = FALSE /\ timer = Timer!timerfd_ctx_init("MONOTONIC") /\ kq = {}
  /\ reader = [t \in Readers |-> "idle"] /\ inside = Nobody /\ lost = FALSE
  /\ tally = [first |-> 0, returned |-> 0]

LEMMA TimerAtRest == ASSUME TimerRest, offset \in Nat PROVE TimerInv /\ TallyInv
<1>1. Fresh
  BY DEF TimerRest, Fresh, Clocks
<1>2. ~Armed /\ tally \in [first : Nat, returned : Nat]
  BY DEF TimerRest, Armed, Timer!timerfd_ctx_init
<1> QED
  BY <1>1, <1>2, FreshInv DEF TallyInv
-----------------------------------------------------------------------------
(* The detector of clock steps *)

Detectors == [generation : Nat, offset : Nat, sampled : Nat, tell : SUBSET Timers]

\* The timers that count in nr_fds: those that have joined and not yet left.
Joined == {f \in Timers : change[f] = -1 \/ (change[f] = 0 /\ f \in abstime)}

\* The threads that do not end when they next look.
Current == {d \in detectors : d.generation = generation}

DetectorTypes ==
  /\ offset \in Nat /\ open \in SUBSET Timers /\ abstime \in SUBSET Timers
  /\ change \in [Timers -> {-1, 0, 1}]
  /\ generation \in Nat /\ detectors \in SUBSET Detectors

\* The counter counts those who joined; a thread is of this generation or an earlier one,
\* and of this one is there exactly the thread that is needed.
DetectorInv ==
  /\ DetectorTypes
  /\ \A f \in Timers : (change[f] = 1 => f \in abstime) /\ (change[f] = -1 => f \notin abstime)
  /\ nr_fds = Cardinality(Joined)
  /\ \A d \in detectors : d.generation <= generation
  /\ IF nr_fds > 0 /\ ~failed THEN \E d \in detectors : Current = {d} ELSE Current = {}

DetectorRest ==
  /\ open = {} /\ abstime = {}
  /\ known = [f \in Timers |-> 0] /\ change = [f \in Timers |-> 0]
  /\ nr_fds = 0 /\ generation = 0
  /\ detectors = {} /\ failed = FALSE /\ missed = {}

LEMMA DetectorAtRest == DetectorRest /\ offset \in Nat => DetectorInv
<1> SUFFICES ASSUME DetectorRest, offset \in Nat PROVE DetectorInv
  OBVIOUS
<1> USE DEF DetectorRest
<1>1. Joined = {} /\ Cardinality({}) = 0
  BY FS_EmptySet DEF Joined
<1>2. Current = {} /\ nr_fds = 0
  BY DEF Current
<1>3. DetectorTypes
  BY DEF DetectorTypes
<1> QED
  BY <1>1, <1>2, <1>3 DEF DetectorInv

LEMMA JoinedFinite == Joined \in SUBSET Timers /\ IsFiniteSet(Joined) /\ Cardinality(Joined) \in Nat
<1>1. Joined \in SUBSET Timers
  BY DEF Joined
<1> QED
  BY <1>1, EventSourcesAssumption, FS_Subset, FS_CardinalityType

\* Steps of the timers up to the report: who has joined stays the same.
LEMMA TimersInv ==
  ASSUME DetectorInv,
         \/ Detector!Step
         \/ \E f \in Timers : \/ Detector!timerfd_create(f) \/ Detector!timerfd_close(f)
                              \/ \E abs \in BOOLEAN : Detector!settime(f, abs)
  PROVE  DetectorInv'
<1> DEFINE Same == UNCHANGED <<nr_fds, generation, detectors, failed>>
<1>0. ASSUME Same, DetectorTypes', Joined' = Joined,
             \A f \in Timers : (change'[f] = 1 => f \in abstime') /\ (change'[f] = -1 => f \notin abstime')
      PROVE  DetectorInv'
  BY <1>0 DEF DetectorInv, Current
<1>1. CASE Detector!Step
  BY <1>0, <1>1 DEF Detector!Step, DetectorInv, DetectorTypes, Joined
<1>2. ASSUME NEW f \in Timers, Detector!timerfd_create(f) PROVE DetectorInv'
  BY <1>0, <1>2 DEF Detector!timerfd_create, DetectorInv, DetectorTypes, Joined
\* A change of f's setting, which f has yet to report.
<1>3. ASSUME NEW f \in Timers, change[f] = 0, Same, offset' = offset, open' \in SUBSET Timers,
             NEW is_abstime \in BOOLEAN,
             abstime' = IF is_abstime THEN abstime \cup {f} ELSE abstime \ {f},
             NEW c \in {-1, 0, 1}, change' = [change EXCEPT ![f] = c],
             c = IF is_abstime THEN (IF f \in abstime THEN 0 ELSE 1)
                 ELSE (IF f \in abstime THEN -1 ELSE 0)
      PROVE  DetectorInv'
  <2>1. /\ change'[f] = c /\ \A g \in Timers \ {f} : change'[g] = change[g]
        /\ change' \in [Timers -> {-1, 0, 1}]
    BY <1>3 DEF DetectorInv, DetectorTypes
  <2>2. \A g \in Timers \ {f} : g \in abstime' <=> g \in abstime
    BY <1>3
  <2>3. DetectorTypes'
    BY <1>3, <2>1 DEF DetectorInv, DetectorTypes
  <2>4. f \in Joined' <=> f \in Joined
    BY <1>3, <2>1 DEF Joined
  <2>5. Joined' = Joined
    BY <2>1, <2>2, <2>4 DEF Joined
  <2>6. (change'[f] = 1 => f \in abstime') /\ (change'[f] = -1 => f \notin abstime')
    BY <1>3, <2>1
  <2> QED
    BY <1>0, <1>3, <2>1, <2>2, <2>3, <2>5, <2>6 DEF DetectorInv
<1>4. ASSUME NEW f \in Timers, Detector!timerfd_close(f) PROVE DetectorInv'
  <2>1. PICK c \in {-1, 0} : c = IF f \in abstime THEN -1 ELSE 0
    OBVIOUS
  <2>2. /\ change[f] = 0 /\ Same /\ offset' = offset /\ open' \in SUBSET Timers
        /\ abstime' = abstime \ {f} /\ change' = [change EXCEPT ![f] = c]
    BY <1>4, <2>1 DEF Detector!timerfd_close, DetectorInv, DetectorTypes
  <2> QED
    BY <1>3, <2>1, <2>2
<1>5. ASSUME NEW f \in Timers, NEW abs \in BOOLEAN, Detector!settime(f, abs) PROVE DetectorInv'
  <2>1. PICK c \in {-1, 0, 1} : c = IF abs THEN (IF f \in abstime THEN 0 ELSE 1)
                                    ELSE (IF f \in abstime THEN -1 ELSE 0)
    OBVIOUS
  <2>2. /\ change[f] = 0 /\ Same /\ offset' = offset /\ open' \in SUBSET Timers
        /\ abstime' = IF abs THEN abstime \cup {f} ELSE abstime \ {f}
        /\ change' = [change EXCEPT ![f] = c]
    BY <1>5, <2>1 DEF Detector!settime, DetectorInv, DetectorTypes
  <2> QED
    BY <1>3, <2>1, <2>2
<1> QED
  BY <1>1, <1>2, <1>4, <1>5

\* The first timer that joins starts a thread of the current generation, and there is
\* none of it then; the last one that leaves ends the generation.
LEMMA ReportsInv ==
  ASSUME DetectorInv, NEW f \in Timers, Detector!Joins(f) \/ Detector!Leaves(f)
  PROVE  DetectorInv'
<1>1. /\ change'[f] = 0 /\ \A g \in Timers \ {f} : change'[g] = change[g]
      /\ change' \in [Timers -> {-1, 0, 1}] /\ abstime' = abstime
      /\ offset' = offset /\ open' = open
  BY DEF Detector!Joins, Detector!Leaves, DetectorInv, DetectorTypes
<1>2. nr_fds \in Nat /\ nr_fds = Cardinality(Joined)
  BY JoinedFinite DEF DetectorInv
<1>3. CASE Detector!Joins(f)
  <2>1. f \notin Joined /\ Joined' = Joined \cup {f}
    BY <1>1, <1>3 DEF Detector!Joins, Joined, DetectorInv
  <2>2. nr_fds' = nr_fds + 1 /\ nr_fds' = Cardinality(Joined')
    <3>1. Cardinality(Joined \cup {f}) = Cardinality(Joined) + 1
      BY <2>1, JoinedFinite, FS_AddElement
    <3> QED
      BY <1>2, <1>3, <2>1, <3>1 DEF Detector!Joins
  <2>3. generation' = generation /\ generation \in Nat /\ offset \in Nat
    BY <1>3 DEF Detector!Joins, DetectorInv, DetectorTypes
  <2>4. CASE nr_fds > 0 \/ (failed' = TRUE /\ UNCHANGED detectors)
    <3>1. detectors' = detectors /\ Current' = Current
      BY <1>3, <2>3, <2>4 DEF Detector!Joins, Current
    <3>2. failed' = failed \/ (failed' /\ ~(nr_fds > 0))
      BY <1>3, <2>4 DEF Detector!Joins
    <3>3. nr_fds' > 0 /\ (nr_fds > 0 <=> nr_fds # 0)
      BY <1>2, <2>2
    <3>4. CASE nr_fds > 0
      BY <1>1, <1>3, <2>2, <2>3, <3>1, <3>3, <3>4 DEF Detector!Joins, DetectorInv, DetectorTypes
    <3>5. CASE ~(nr_fds > 0)
      BY <1>1, <2>2, <2>3, <2>4, <3>1, <3>5 DEF DetectorInv, DetectorTypes
    <3> QED
      BY <3>4, <3>5
  <2>5. CASE nr_fds = 0 /\ detectors' = detectors \cup {Detector!Started} /\ failed' = FALSE
    <3>1. Detector!Started \in Detectors /\ Detector!Started.generation = generation
      BY <2>3 DEF Detector!Started, Detectors
    <3>2. Current = {}
      BY <2>5 DEF DetectorInv
    <3>3. Current' = {Detector!Started}
      BY <2>3, <2>5, <3>1, <3>2 DEF Current
    <3>4. nr_fds' > 0
      BY <1>2, <2>2
    <3> QED
      BY <1>1, <2>2, <2>3, <2>5, <3>1, <3>3, <3>4 DEF DetectorInv, DetectorTypes
  <2>6. \/ nr_fds > 0 \/ (failed' = TRUE /\ UNCHANGED detectors)
        \/ ~(nr_fds > 0) /\ detectors' = detectors \cup {Detector!Started} /\ failed' = FALSE
    BY <1>3, Zenon DEF Detector!Joins
  <2>7. nr_fds > 0 <=> nr_fds # 0
    BY <1>2
  <2> QED
    BY <2>4, <2>5, <2>6, <2>7, Zenon
<1>4. CASE Detector!Leaves(f)
  <2>1. f \in Joined /\ Joined' = Joined \ {f}
    BY <1>1, <1>4 DEF Detector!Leaves, Joined, DetectorInv
  <2>2. nr_fds' = nr_fds - 1 /\ nr_fds' = Cardinality(Joined') /\ nr_fds' \in Nat /\ nr_fds > 0
    <3>1. Cardinality(Joined \ {f}) = Cardinality(Joined) - 1
      BY <2>1, JoinedFinite, FS_RemoveElement
    <3>2. IsFiniteSet(Joined \ {f})
      BY JoinedFinite, FS_Subset
    <3>3. Cardinality(Joined \ {f}) \in Nat
      BY <3>2, FS_CardinalityType
    <3> QED
      BY <1>2, <1>4, <2>1, <3>1, <3>3 DEF Detector!Leaves
  <2>3. UNCHANGED <<detectors, failed>> /\ generation \in Nat
    BY <1>4 DEF Detector!Leaves, DetectorInv, DetectorTypes
  <2>4. CASE nr_fds' = 0
    <3>1. generation' = generation + 1
      BY <1>4, <2>4 DEF Detector!Leaves
    <3>2. \A d \in detectors : d.generation \in Nat /\ d.generation <= generation
      BY DEF DetectorInv, DetectorTypes, Detectors
    <3>3. \A d \in detectors : d.generation <= generation' /\ d.generation # generation'
      BY <2>3, <3>1, <3>2
    <3>4. Current' = {} /\ ~(nr_fds' > 0) /\ generation' \in Nat
      BY <2>3, <2>4, <3>1, <3>3 DEF Current
    <3> QED
      BY <1>1, <2>2, <2>3, <3>3, <3>4 DEF DetectorInv, DetectorTypes
  <2>5. CASE nr_fds' # 0
    <3>0. nr_fds' > 0
      <4>1. \A n \in Nat : n # 0 => n > 0
        OBVIOUS
      <4> QED
        BY <2>2, <2>5, <4>1, Zenon
    <3>1. generation' = generation /\ nr_fds' > 0
      <4>1. generation' = generation
        BY <1>4, <2>5 DEF Detector!Leaves
      <4> QED
        BY <3>0, <4>1
    <3>2. Current' = Current
      BY <2>3, <3>1 DEF Current
    <3> QED
      BY <1>1, <2>2, <2>3, <3>1, <3>2 DEF DetectorInv, DetectorTypes
  <2> QED
    BY <2>4, <2>5
<1> QED
  BY <1>3, <1>4

\* A thread that goes on keeps its generation, and only one of an earlier one ends.
LEMMA DetectsInv ==
  ASSUME DetectorInv, NEW d \in detectors,
         \/ Detector!Samples(d) \/ Detector!Ends(d) \/ Detector!Compares(d)
         \/ \E f \in Timers : Detector!Tells(d, f)
  PROVE  DetectorInv'
<1>0. d \in Detectors /\ d.generation <= generation
  BY DEF DetectorInv, DetectorTypes
<1>1. UNCHANGED <<offset, open, abstime, change, nr_fds, generation, failed>>
  BY DEF Detector!Samples, Detector!Ends, Detector!Compares, Detector!Tells
<1>2. Joined' = Joined
  BY <1>1 DEF Joined
<1>3. ASSUME NEW e \in Detectors, e.generation = d.generation, Detector!Becomes(d, e)
      PROVE  DetectorInv'
  <2>1. detectors' = (detectors \ {d}) \cup {e}
    BY <1>3 DEF Detector!Becomes
  <2>2. CASE d.generation = generation
    <3>1. d \in Current
      BY <2>2 DEF Current
    <3>2. (nr_fds > 0 /\ ~failed) /\ Current = {d}
      BY <3>1 DEF DetectorInv
    <3>3. Current' = {e}
      BY <1>1, <1>3, <2>1, <2>2, <3>2 DEF Current
    <3>4. \E c \in detectors' : Current' = {c}
      BY <2>1, <3>3
    <3> QED
      BY <1>0, <1>1, <1>2, <1>3, <2>1, <3>2, <3>4 DEF DetectorInv, DetectorTypes
  <2>3. CASE d.generation # generation
    <3>1. Current' = Current
      BY <1>1, <1>3, <2>1, <2>3 DEF Current
    <3>2. \A c \in detectors : Current = {c} => c \in detectors'
      BY <2>1, <2>3 DEF Current
    <3> QED
      BY <1>0, <1>1, <1>2, <1>3, <2>1, <3>1, <3>2 DEF DetectorInv, DetectorTypes
  <2> QED
    BY <2>2, <2>3
<1>4. CASE Detector!Samples(d)
  <2>1. [d EXCEPT !.sampled = offset] \in Detectors
        /\ [d EXCEPT !.sampled = offset].generation = d.generation
    BY <1>0 DEF Detectors, DetectorInv, DetectorTypes
  <2> QED
    BY <1>3, <1>4, <2>1 DEF Detector!Samples
<1>5. CASE Detector!Ends(d)
  <2>1. detectors' = detectors \ {d} /\ d.generation # generation
    BY <1>5 DEF Detector!Ends
  <2>2. Current' = Current /\ \A c \in detectors : Current = {c} => c \in detectors'
    BY <1>1, <2>1 DEF Current
  <2> QED
    BY <1>1, <1>2, <2>1, <2>2 DEF DetectorInv, DetectorTypes
<1>6. CASE Detector!Compares(d)
  <2>1. PICK told \in SUBSET Timers :
          Detector!Becomes(d, [d EXCEPT !.offset = d.sampled, !.sampled = 0, !.tell = told])
    BY <1>6 DEF Detector!Compares, Detector!Told, DetectorInv, DetectorTypes
  <2> DEFINE e == [d EXCEPT !.offset = d.sampled, !.sampled = 0, !.tell = told]
  <2>2. e \in Detectors /\ e.generation = d.generation
    BY <1>0 DEF Detectors
  <2> QED
    BY <1>3, <2>1, <2>2
<1>7. ASSUME NEW f \in Timers, Detector!Tells(d, f) PROVE DetectorInv'
  <2> DEFINE e == [d EXCEPT !.tell = @ \ {f}]
  <2>1. e \in Detectors /\ e.generation = d.generation
    BY <1>0 DEF Detectors
  <2> QED
    BY <1>3, <1>7, <2>1 DEF Detector!Tells
<1> QED
  BY <1>4, <1>5, <1>6, <1>7

LEMMA DetectorNextInv == DetectorInv /\ Detector!Next => DetectorInv'
BY TimersInv, ReportsInv, DetectsInv DEF Detector!Next, Detector!Reports, Detector!Detects

LEMMA OneCurrent == DetectorInv => OneDetector
<1> DEFINE Needed == nr_fds > 0 /\ ~failed
<1>0. OneDetector <=> Cardinality(Current) = IF Needed THEN 1 ELSE 0
  <2>1. \A S : Detector!Cardinality(S) = Cardinality(S)
    BY DEF Detector!Cardinality, Cardinality
  <2> QED
    BY <2>1, Zenon DEF OneDetector, Detector!OneDetector, Current
<1>1. DetectorInv => IF Needed THEN \E d \in detectors : Current = {d} ELSE Current = {}
  BY Zenon DEF DetectorInv
<1> HIDE DEF Needed
<1>2. ASSUME DetectorInv, Needed PROVE Cardinality(Current) = 1
  BY <1>1, <1>2, FS_Singleton
<1>3. ASSUME DetectorInv, ~Needed PROVE Cardinality(Current) = 0
  <2>1. Current = {}
    BY <1>1, <1>3
  <2> QED
    BY <2>1, FS_EmptySet
<1> QED
  BY <1>0, <1>2, <1>3, Zenon
-----------------------------------------------------------------------------
(* ppoll *)

Places == {"kqueue", "pending", "mask", "polling", "asleep", "restore"}

PpollCalls == [at : Places, mask : SUBSET Ppoll!All, timeout : {"zero", "finite", "infinite"},
          watched : SUBSET Ppoll!All, origmask : SUBSET Ppoll!All]

\* From its registration on the kqueue has the signals that are watched, or was told.
Watching == call.at = "pending" => fired \/ call.watched \subseteq kqueued

\* From the look at the pending ones on none of them is pending untold.
Remembered ==
  call.at \in {"mask", "polling", "asleep"} =>
    fired \/ (call.watched \subseteq kqueued /\ posted \cap call.watched = {})

\* The mask is made of signals, also the one that is put back.
Masks == blocked \in SUBSET Ppoll!All

\* Handlers are of interest from the change of the mask to the end of the call.
Unhandled == call.at \notin {"polling", "asleep", "restore"} => handled = {}

\* A handler that has run before the sleep has made the kqueue readable.
Told == call.at \in {"polling", "asleep"} /\ handled \cap call.watched # {} => fired

PpollInv ==
  Masks /\ (call = Ppoll!NoCall \/ call \in PpollCalls) /\ Watching /\ Remembered /\ Unhandled /\ Told
-----------------------------------------------------------------------------
\* A call changes its place and nothing else of what is on its stack.
LEMMA Going ==
  ASSUME call \in PpollCalls, NEW place \in Places, Ppoll!Goto(place)
  PROVE  /\ call' \in PpollCalls /\ call'.at = place
         /\ call'.watched = call.watched
BY DEF PpollCalls, Ppoll!Goto

LEMMA NoPlace == Ppoll!NoCall.at = "none" /\ \A c \in PpollCalls : c.at \in Places
BY DEF Ppoll!NoCall, PpollCalls

\* The call of a behaviour that is about something else.
PpollRest ==
  /\ blocked = {} /\ call = Ppoll!NoCall /\ fired = FALSE /\ handled = {}

LEMMA PpollAtRest == PpollRest => PpollInv
BY NoPlace DEF PpollRest, PpollInv, Masks, Watching, Remembered, Unhandled, Told, Places

LEMMA KernelInv ==
  ASSUME PpollInv, NEW s \in Ppoll!All, Ppoll!Post(s) \/ Ppoll!Takes(s) \/ Ppoll!Handle(s)
  PROVE  PpollInv'
<1> USE DEF PpollInv, Masks, Watching, Remembered, Unhandled, Told
<1>1. CASE Ppoll!Post(s)
  BY <1>1 DEF Ppoll!Post
<1>2. CASE Ppoll!Takes(s)
  BY <1>2 DEF Ppoll!Takes
<1>3. CASE Ppoll!Handle(s)
  <2>1. CASE call.at = "asleep" /\ s \in Caught
    <3>1. call \in PpollCalls
      BY <2>1, NoPlace DEF PpollInv
    <3>2. call' \in PpollCalls /\ call'.at = "restore" /\ blocked' = blocked
      BY <1>3, <2>1, <3>1, Going DEF Ppoll!Handle, Places
    <3> QED
      BY <3>2
  <2>2. CASE ~(call.at = "asleep" /\ s \in Caught)
    <3>1. posted' = posted \ {s} /\ UNCHANGED <<call, blocked, kqueued, fired>>
      BY <1>3, <2>2, Zenon DEF Ppoll!Handle
    <3>2. CASE call.at = "polling"
      <4>1. s \in posted /\ handled' = handled \cup {s}
        BY <1>3, <3>2 DEF Ppoll!Handle
      <4> QED
        BY <3>1, <3>2, <4>1
    <3>3. CASE call.at # "polling"
      BY <1>3, <3>1, <3>3 DEF Ppoll!Handle
    <3> QED
      BY <3>2, <3>3
  <2> QED
    BY <2>1, <2>2
<1> QED
  BY <1>1, <1>2, <1>3

LEMMA OthersInv ==
  ASSUME PpollInv, Ppoll!ReadinessChanges \/ \E mask \in SUBSET Ppoll!All : Ppoll!pthread_sigmask(mask)
  PROVE  PpollInv'
BY DEF PpollInv, Masks, Watching, Remembered, Unhandled, Told, Ppoll!ReadinessChanges, Ppoll!pthread_sigmask

\* A call that watches nothing has nothing to remember.
LEMMA CallInv ==
  ASSUME PpollInv, NEW mask \in SUBSET Ppoll!All, NEW timeout \in {"zero", "finite", "infinite"},
         Ppoll!compat_ppoll(mask, timeout)
  PROVE  PpollInv'
<1>1. Ppoll!Watched(mask, timeout) \subseteq Ppoll!All
  BY DEF Ppoll!Watched, Ppoll!All
<1>2. call' \in PpollCalls /\ call'.watched = Ppoll!Watched(mask, timeout)
  BY <1>1 DEF Ppoll!compat_ppoll, PpollCalls, Places, PpollInv, Masks
<1>3. call'.at = IF Ppoll!Watched(mask, timeout) = {} THEN "mask" ELSE "kqueue"
  BY DEF Ppoll!compat_ppoll
<1>4. handled' = {} /\ UNCHANGED <<blocked, posted, kqueued, fired>>
  BY NoPlace DEF Ppoll!compat_ppoll, PpollInv, Unhandled
<1> QED
  BY <1>2, <1>3, <1>4 DEF PpollInv, Masks, Watching, Remembered, Unhandled, Told

LEMMA ReturnInv == Ppoll!Returns /\ blocked' \in SUBSET Ppoll!All => PpollInv'
BY NoPlace DEF Ppoll!Returns, PpollInv, Masks, Watching, Remembered, Unhandled, Told

LEMMA StepInv ==
  ASSUME PpollInv,
         Ppoll!Registers \/ Ppoll!LooksForPending \/ Ppoll!SetsMask \/ Ppoll!CallsPoll \/ Ppoll!PollEnds
  PROVE  PpollInv'
<1>1. call \in PpollCalls
  BY NoPlace DEF PpollInv, Ppoll!Registers, Ppoll!LooksForPending, Ppoll!SetsMask, Ppoll!CallsPoll, Ppoll!PollEnds
<1> USE DEF PpollInv, Masks, Watching, Remembered, Unhandled, Told
<1>2. CASE Ppoll!Registers
  <2>1. call' \in PpollCalls /\ call'.at = "pending" /\ call'.watched = call.watched
    BY <1>1, <1>2, Going DEF Ppoll!Registers, Places
  <2> QED
    BY <1>2, <2>1 DEF Ppoll!Registers
<1>3. CASE Ppoll!LooksForPending
  <2>1. call' \in PpollCalls /\ call'.at = "mask" /\ call'.watched = call.watched
    BY <1>1, <1>3, Going DEF Ppoll!LooksForPending, Places
  <2> QED
    BY <1>3, <2>1 DEF Ppoll!LooksForPending
<1>4. CASE Ppoll!SetsMask
  <2>1. /\ call' \in PpollCalls /\ call'.at = "polling" /\ call'.watched = call.watched
        /\ blocked' \in SUBSET Ppoll!All
    BY <1>1, <1>4, Going DEF Ppoll!SetsMask, Places, PpollCalls
  <2> QED
    BY <1>4, <2>1 DEF Ppoll!SetsMask
<1>5. CASE Ppoll!CallsPoll
  <2>1. PICK place \in {"restore", "asleep"} : Ppoll!Goto(place)
    BY <1>5 DEF Ppoll!CallsPoll
  <2>2. call' \in PpollCalls /\ call'.at \in {"restore", "asleep"} /\ call'.watched = call.watched
    BY <1>1, <2>1, Going DEF Places
  <2> QED
    BY <1>5, <2>2 DEF Ppoll!CallsPoll
<1>6. CASE Ppoll!PollEnds
  <2>1. call' \in PpollCalls /\ call'.at = "restore"
    BY <1>1, <1>6, Going DEF Ppoll!PollEnds, Places
  <2> QED
    BY <1>6, <2>1 DEF Ppoll!PollEnds
<1> QED
  BY <1>2, <1>3, <1>4, <1>5, <1>6

\* The mask the thread had is put back, or was not yet changed.
LEMMA EndInv == PpollInv /\ (Ppoll!Fails \/ Ppoll!RestoresMask) => PpollInv'
<1>1. PpollInv /\ Ppoll!Fails => PpollInv'
  BY ReturnInv DEF Ppoll!Fails, PpollInv, Masks
<1>2. PpollInv /\ Ppoll!RestoresMask => PpollInv'
  BY ReturnInv, NoPlace DEF Ppoll!RestoresMask, PpollInv, PpollCalls
<1> QED
  BY <1>1, <1>2

LEMMA PpollNextInv == PpollInv /\ Ppoll!Next => PpollInv'
BY KernelInv, OthersInv, CallInv, StepInv, EndInv DEF Ppoll!Next

LEMMA WaitEnds == PpollInv => SignalEndsWait
BY DEF PpollInv, Told, SignalEndsWait, Ppoll!SignalEndsWait
-----------------------------------------------------------------------------
(* A node of an epoll instance *)

Bits == {"IN", "OUT", "RDHUP"}

FileRecords ==
  [kind : Kinds \cup {"none"}, data : BOOLEAN, room : BOOLEAN, ended : SUBSET Node!Filters, error : BOOLEAN]

\* What a file can be, by its kind.
FileOk(fl) ==
  /\ fl \in FileRecords
  /\ fl.error => fl.kind = "socket" /\ fl.ended = Node!Filters
  /\ fl.kind = "none" => ~fl.data /\ fl.ended = {}
  /\ fl.kind = "in" => ~fl.room /\ "WRITE" \notin fl.ended
  /\ fl.kind = "out" => ~fl.data /\ "READ" \notin fl.ended
  /\ fl.kind = "inout" => fl.ended = {}
  /\ fl.kind \notin Node!Fifos \cup {"socket"} => fl.ended = {} \/ fl.ended = Node!Filters

NodeRecords ==
  [mode : {"none", "level", "edge", "oneshot"}, events : SUBSET Bits, eof_state : SUBSET Node!Filters]

\* The registration, and where epoll_wait is.
NodeTypes ==
  /\ node \in NodeRecords
  /\ knote \in [Node!Filters -> {"none", "level", "clear", "fired"}]
  /\ at \in {"out", "kevent", "feed", "edge", "complete", "report"}
  /\ file.kind = "none" => node.mode = "none"
  /\ file.kind # "socket" => "RDHUP" \notin node.events
  /\ node.mode = "none" => at = "out" /\ node.eof_state = {} /\ \A f \in Node!Filters : knote[f] = "none"
  /\ user => file.kind = "out" /\ node.mode # "none"

FileEvents == [filter : Node!Filters, eof : BOOLEAN, error : BOOLEAN, some : BOOLEAN]

PassTypes ==
  /\ kevs \subseteq FileEvents \cup {Node!UserEvent}
  /\ Node!UserEvent \in kevs => file.kind = "out"
  /\ \A kev1, kev2 \in kevs : kev1.filter = kev2.filter => kev1 = kev2
  /\ at \in {"out", "kevent", "edge", "report"} => kevs = {}
  /\ at \in {"out", "kevent"} => revents = {}
  /\ at \in {"edge", "complete"} => Node!EdgeTriggered(node)
  /\ got_evfilt \subseteq Node!Filters

\* What is known of a socket's ends is so, and stays so.
KevKnown(kev) ==
  /\ kev.eof => kev.filter \in file.ended
  /\ kev.error => file.error
  /\ kev.filter \in node.eof_state => kev.eof

Known ==
  file.kind = "socket" =>
    node.eof_state \subseteq file.ended /\ \A kev \in kevs : KevKnown(kev)

NodeBasics == FileOk(file) /\ NodeTypes /\ PassTypes /\ Known

LEMMA NodeBasicsInit == Node!Init => NodeBasics
<1> SUFFICES ASSUME Node!Init PROVE NodeBasics
  OBVIOUS
<1>1. FileOk(file)
  BY DEF Node!Init, FileOk, FileRecords, Node!Fifos
<1>2. NodeTypes
  BY DEF Node!Init, NodeTypes, NodeRecords, Node!NoNode, Node!Filters
<1>3. PassTypes /\ Known
  BY DEF Node!Init, PassTypes, Known
<1> QED
  BY <1>1, <1>2, <1>3 DEF NodeBasics

\* How a file changes: with it the filters fs wake, and the events es come up anew.
Follows(fl, fs, es) ==
  /\ FileOk(fl) /\ fl.kind = file.kind /\ file.kind # "none"
  /\ fl.kind = "socket" => file.ended \subseteq fl.ended /\ (file.error => fl.error)
  /\ fl.ended \ file.ended \subseteq fs /\ fs \subseteq Node!Filters
  /\ fl.error => file.error \/ fs = Node!Filters

\* Every event that comes up wakes a filter that shows it.
Brings(fl, fs, es) ==
  \A e \in Node!Events(fl) : e \in es \/ e \notin Node!Events(file) =>
    /\ e \in {"IN", "RDHUP"} => "READ" \in fs
    /\ e = "OUT" => "WRITE" \in fs
    /\ fl.kind = "socket" => file.ended # Node!Filters
                             /\ (e \notin {"IN", "OUT", "RDHUP"} => fl.ended = Node!Filters)
    /\ fl.kind \in Node!Fifos => (e = "HUP" => "READ" \in fs) /\ (e = "ERR" => "WRITE" \in fs)
    /\ fl.kind \notin Node!Fifos \cup {"socket"} /\ e \in {"HUP", "ERR"} => fs = Node!Filters

\* A file changes so.
Wakes(fl, fs, es) == Follows(fl, fs, es) /\ Brings(fl, fs, es)

LEMMA EventsOf ==
  ASSUME NEW fl \in FileRecords
  PROVE  /\ fl.kind = "socket" => \A e :
              e \in Node!Events(fl) <=>
                \/ e = "IN" /\ (fl.data \/ "READ" \in fl.ended)
                \/ e = "RDHUP" /\ "READ" \in fl.ended
                \/ e = "OUT" /\ (fl.room \/ "WRITE" \in fl.ended)
                \/ e = "HUP" /\ fl.ended = Node!Filters
                \/ e = "ERR" /\ fl.error
         /\ fl.kind \in Node!Fifos => \A e :
              e \in Node!Events(fl) <=>
                \/ e = "IN" /\ fl.data
                \/ e = "HUP" /\ "READ" \in fl.ended
                \/ e = "OUT" /\ fl.room /\ "WRITE" \notin fl.ended
                \/ e = "ERR" /\ "WRITE" \in fl.ended
         /\ fl.kind \notin Node!Fifos \cup {"socket"} => \A e :
              e \in Node!Events(fl) <=>
                \/ e = "IN" /\ (fl.data \/ fl.ended # {})
                \/ e = "OUT" /\ (fl.room \/ fl.ended # {})
                \/ e = "HUP" /\ fl.ended # {}
BY DEF Node!Events, Node!When, Node!Fifos

LEMMA ArrivesFollows ==
  ASSUME FileOk(file), Node!Arrives
  PROVE  \E fl, woken, es : Node!Changes(fl, woken, es) /\ Wakes(fl, woken, es)
<1> DEFINE fl == [file EXCEPT !.data = TRUE]
           woken == {"READ"}
           es == {"IN"}
<1>1. Node!Changes(fl, woken, es)
  BY DEF Node!Arrives
<1>2. Follows(fl, woken, es) /\ fl \in FileRecords /\ file \in FileRecords /\ fl.kind = file.kind
  BY DEF FileOk, FileRecords, Node!Arrives, Node!Changes, Follows, Node!Filters
<1>3. Brings(fl, woken, es)
  <2>1. CASE file.kind = "socket"
    BY <1>2, <2>1, EventsOf DEF Brings, FileOk, FileRecords, Node!Arrives, Node!Changes, Node!Filters, Node!Fifos
  <2>2. CASE file.kind \in Node!Fifos
    BY <1>2, <2>2, EventsOf DEF Brings, FileOk, FileRecords, Node!Arrives, Node!Changes, Node!Filters, Node!Fifos
  <2>3. CASE file.kind \notin Node!Fifos \cup {"socket"}
    BY <1>2, <2>3, EventsOf DEF Brings, FileOk, FileRecords, Node!Arrives, Node!Changes, Node!Filters, Node!Fifos
  <2> QED
    BY <2>1, <2>2, <2>3
<1> HIDE DEF fl, woken, es
<1> QED
  BY <1>1, <1>2, <1>3 DEF Wakes

LEMMA IsReadFollows ==
  ASSUME FileOk(file), Node!IsRead
  PROVE  \E fl, woken, es : Node!Changes(fl, woken, es) /\ Wakes(fl, woken, es)
<1> DEFINE fl == [file EXCEPT !.data = FALSE]
           woken == {}
           es == {}
<1>1. Node!Changes(fl, woken, es)
  BY DEF Node!IsRead
<1>2. Follows(fl, woken, es) /\ fl \in FileRecords /\ file \in FileRecords /\ fl.kind = file.kind
  BY DEF FileOk, FileRecords, Node!IsRead, Node!Changes, Follows, Node!Filters
<1>3. Brings(fl, woken, es)
  <2>1. CASE file.kind = "socket"
    BY <1>2, <2>1, EventsOf DEF Brings, FileOk, FileRecords, Node!IsRead, Node!Changes, Node!Filters, Node!Fifos
  <2>2. CASE file.kind \in Node!Fifos
    BY <1>2, <2>2, EventsOf DEF Brings, FileOk, FileRecords, Node!IsRead, Node!Changes, Node!Filters, Node!Fifos
  <2>3. CASE file.kind \notin Node!Fifos \cup {"socket"}
    BY <1>2, <2>3, EventsOf DEF Brings, FileOk, FileRecords, Node!IsRead, Node!Changes, Node!Filters, Node!Fifos
  <2> QED
    BY <2>1, <2>2, <2>3
<1> HIDE DEF fl, woken, es
<1> QED
  BY <1>1, <1>2, <1>3 DEF Wakes

LEMMA FillsUpFollows ==
  ASSUME FileOk(file), Node!FillsUp
  PROVE  \E fl, woken, es : Node!Changes(fl, woken, es) /\ Wakes(fl, woken, es)
<1> DEFINE fl == [file EXCEPT !.room = FALSE]
           woken == {}
           es == {}
<1>1. Node!Changes(fl, woken, es)
  BY DEF Node!FillsUp
<1>2. Follows(fl, woken, es) /\ fl \in FileRecords /\ file \in FileRecords /\ fl.kind = file.kind
  BY DEF FileOk, FileRecords, Node!FillsUp, Node!Changes, Follows, Node!Filters
<1>3. Brings(fl, woken, es)
  <2>1. CASE file.kind = "socket"
    BY <1>2, <2>1, EventsOf DEF Brings, FileOk, FileRecords, Node!FillsUp, Node!Changes, Node!Filters, Node!Fifos
  <2>2. CASE file.kind \in Node!Fifos
    BY <1>2, <2>2, EventsOf DEF Brings, FileOk, FileRecords, Node!FillsUp, Node!Changes, Node!Filters, Node!Fifos
  <2>3. CASE file.kind \notin Node!Fifos \cup {"socket"}
    BY <1>2, <2>3, EventsOf DEF Brings, FileOk, FileRecords, Node!FillsUp, Node!Changes, Node!Filters, Node!Fifos
  <2> QED
    BY <2>1, <2>2, <2>3
<1> HIDE DEF fl, woken, es
<1> QED
  BY <1>1, <1>2, <1>3 DEF Wakes

LEMMA MakesRoomFollows ==
  ASSUME FileOk(file), Node!MakesRoom
  PROVE  \E fl, woken, es : Node!Changes(fl, woken, es) /\ Wakes(fl, woken, es)
<1> DEFINE fl == [file EXCEPT !.room = TRUE]
           woken == {"WRITE"}
           es == {}
<1>1. Node!Changes(fl, woken, es)
  BY DEF Node!MakesRoom
<1>2. Follows(fl, woken, es) /\ fl \in FileRecords /\ file \in FileRecords /\ fl.kind = file.kind
  BY DEF FileOk, FileRecords, Node!MakesRoom, Node!Changes, Follows, Node!Filters
<1>3. Brings(fl, woken, es)
  <2>1. CASE file.kind = "socket"
    BY <1>2, <2>1, EventsOf DEF Brings, FileOk, FileRecords, Node!MakesRoom, Node!Changes, Node!Filters, Node!Fifos
  <2>2. CASE file.kind \in Node!Fifos
    BY <1>2, <2>2, EventsOf DEF Brings, FileOk, FileRecords, Node!MakesRoom, Node!Changes, Node!Filters, Node!Fifos
  <2>3. CASE file.kind \notin Node!Fifos \cup {"socket"}
    BY <1>2, <2>3, EventsOf DEF Brings, FileOk, FileRecords, Node!MakesRoom, Node!Changes, Node!Filters, Node!Fifos
  <2> QED
    BY <2>1, <2>2, <2>3
<1> HIDE DEF fl, woken, es
<1> QED
  BY <1>1, <1>2, <1>3 DEF Wakes

LEMMA EndsFollows ==
  ASSUME FileOk(file), NEW fs \in SUBSET Node!Filters, NEW error \in BOOLEAN, Node!Ends(fs, error)
  PROVE  \E fl, woken, es : Node!Changes(fl, woken, es) /\ Wakes(fl, woken, es)
<1> DEFINE fl == [file EXCEPT !.ended = @ \cup fs, !.error = @ \/ error]
           woken == fs
           es == {}
<1>1. Node!Changes(fl, woken, es)
  BY DEF Node!Ends
<1>2. Follows(fl, woken, es) /\ fl \in FileRecords /\ file \in FileRecords /\ fl.kind = file.kind
  BY DEF FileOk, FileRecords, Node!Ends, Node!Changes, Follows, Node!Filters, Node!Fifos
<1>3. Brings(fl, woken, es)
  <2>0. /\ fl.kind = file.kind /\ fl.data = file.data /\ fl.room = file.room
        /\ fl.ended = file.ended \cup fs /\ fl.error = (file.error \/ error)
        /\ fs \subseteq Node!Filters /\ file.ended \subseteq Node!Filters /\ ~(fs \subseteq file.ended)
    BY <1>2 DEF FileRecords, Node!Ends
  <2>1. CASE file.kind = "socket"
    <3>1. (error => fs = Node!Filters) /\ (file.error => file.ended = Node!Filters)
      BY <2>1 DEF FileOk, Node!Ends
    <3>2. fs # {} /\ file.ended # Node!Filters
      BY <2>0
    <3> HIDE DEF fl
    <3> SUFFICES ASSUME NEW e \in Node!Events(fl), e \notin Node!Events(file)
                 PROVE  /\ e \in {"IN", "RDHUP"} => "READ" \in fs
                        /\ e = "OUT" => "WRITE" \in fs
                        /\ e \notin {"IN", "OUT", "RDHUP"} => fl.ended = Node!Filters
      BY <2>0, <2>1, <3>2 DEF Brings, Node!Fifos
    <3>3. \/ e = "IN" /\ (fl.data \/ "READ" \in fl.ended)
          \/ e = "RDHUP" /\ "READ" \in fl.ended
          \/ e = "OUT" /\ (fl.room \/ "WRITE" \in fl.ended)
          \/ e = "HUP" /\ fl.ended = Node!Filters
          \/ e = "ERR" /\ fl.error
      BY <1>2, <2>0, <2>1, EventsOf
    <3>4. /\ e = "IN" => ~(file.data \/ "READ" \in file.ended)
          /\ e = "RDHUP" => "READ" \notin file.ended
          /\ e = "OUT" => ~(file.room \/ "WRITE" \in file.ended)
          /\ e = "ERR" => ~file.error
      BY <1>2, <2>1, EventsOf
    <3> QED
      BY <2>0, <3>1, <3>3, <3>4
  <2>2. CASE file.kind \in Node!Fifos
    <3>1. "READ" \in Node!Filters /\ "WRITE" \in Node!Filters
      BY DEF Node!Filters
    <3> HIDE DEF fl
    <3> SUFFICES ASSUME NEW e \in Node!Events(fl), e \notin Node!Events(file)
                 PROVE  /\ e \in {"IN", "RDHUP"} => "READ" \in fs
                        /\ e = "OUT" => "WRITE" \in fs
                        /\ (e = "HUP" => "READ" \in fs) /\ (e = "ERR" => "WRITE" \in fs)
      BY <2>0, <2>2 DEF Brings, Node!Fifos
    <3>3. \/ e = "IN" /\ fl.data
          \/ e = "HUP" /\ "READ" \in fl.ended
          \/ e = "OUT" /\ fl.room /\ "WRITE" \notin fl.ended
          \/ e = "ERR" /\ "WRITE" \in fl.ended
      BY <1>2, <2>0, <2>2, EventsOf
    <3>4. /\ e = "IN" => ~file.data
          /\ e = "HUP" => "READ" \notin file.ended
          /\ e = "OUT" => ~(file.room /\ "WRITE" \notin file.ended)
          /\ e = "ERR" => "WRITE" \notin file.ended
      BY <1>2, <2>2, EventsOf
    <3> QED
      BY <2>0, <3>1, <3>3, <3>4
  <2>3. CASE file.kind \notin Node!Fifos \cup {"socket"}
    BY <1>2, <2>3, EventsOf DEF Brings, FileOk, FileRecords, Node!Ends, Node!Changes, Node!Filters, Node!Fifos
  <2> QED
    BY <2>1, <2>2, <2>3
<1> HIDE DEF fl, woken, es
<1> QED
  BY <1>1, <1>2, <1>3 DEF Wakes

LEMMA ReturnsFollows ==
  ASSUME FileOk(file), Node!Returns
  PROVE  \E fl, woken, es : Node!Changes(fl, woken, es) /\ Wakes(fl, woken, es)
<1> DEFINE fl == [file EXCEPT !.ended = {}]
           woken == Node!When(file.kind = "out" /\ file.room, "WRITE")
           es == {}
<1>1. Node!Changes(fl, woken, es)
  BY DEF Node!Returns
<1>2. Follows(fl, woken, es) /\ fl \in FileRecords /\ file \in FileRecords /\ fl.kind = file.kind
  BY DEF FileOk, FileRecords, Node!Returns, Node!Changes, Follows, Node!Filters, Node!When, Node!Fifos
<1>3. Brings(fl, woken, es)
  <2>1. CASE file.kind = "socket"
    BY <1>2, <2>1, EventsOf DEF Brings, FileOk, FileRecords, Node!Returns, Node!Changes, Node!Filters, Node!Fifos, Node!When
  <2>2. CASE file.kind \in Node!Fifos
    BY <1>2, <2>2, EventsOf DEF Brings, FileOk, FileRecords, Node!Returns, Node!Changes, Node!Filters, Node!Fifos, Node!When
  <2>3. CASE file.kind \notin Node!Fifos \cup {"socket"}
    BY <1>2, <2>3, EventsOf DEF Brings, FileOk, FileRecords, Node!Returns, Node!Changes, Node!Filters, Node!Fifos, Node!When
  <2> QED
    BY <2>1, <2>2, <2>3
<1> HIDE DEF fl, woken, es
<1> QED
  BY <1>1, <1>2, <1>3 DEF Wakes

LEMMA EnvironmentIs ==
  ASSUME FileOk(file), Node!Environment
  PROVE  \/ \E kind \in Kinds : Node!Opens(kind)
         \/ \E fl, woken, es : Node!Changes(fl, woken, es) /\ Wakes(fl, woken, es)
BY ArrivesFollows, IsReadFollows, FillsUpFollows, MakesRoomFollows, EndsFollows, ReturnsFollows
   DEF Node!Environment

\* What changes of a file leave alone.
LEMMA ChangesBasics ==
  ASSUME NodeBasics, NEW fl, NEW fs, NEW es, Node!Changes(fl, fs, es), Wakes(fl, fs, es)
  PROVE  NodeBasics'
<1>1. /\ file' = fl /\ UNCHANGED <<node, user>> /\ UNCHANGED <<kevs, revents, got_evfilt, at>>
      /\ knote' = [f \in Node!Filters |-> IF f \in fs /\ knote[f] = "clear" THEN "fired" ELSE knote[f]]
  BY DEF Node!Changes, Node!passvars
<1>2. FileOk(file)' /\ file'.kind = file.kind
  BY <1>1 DEF Wakes, Follows, FileOk
<1>3. NodeTypes'
  BY <1>1, <1>2 DEF NodeBasics, NodeTypes, Wakes, Follows
<1>4. PassTypes'
  BY <1>1, <1>2 DEF NodeBasics, PassTypes, Node!EdgeTriggered
<1>5. Known'
  BY <1>1, <1>2 DEF NodeBasics, Known, KevKnown, Wakes, Follows
<1> QED
  BY <1>2, <1>3, <1>4, <1>5 DEF NodeBasics

LEMMA OpensBasics ==
  ASSUME NodeBasics, NEW kind \in Kinds, Node!Opens(kind)
  PROVE  NodeBasics'
<1>1. /\ file.kind = "none" /\ file' = [file EXCEPT !.kind = kind, !.room = kind # "in"]
      /\ UNCHANGED <<node, knote, user>> /\ UNCHANGED <<kevs, revents, got_evfilt, at>>
  BY DEF Node!Opens, Node!passvars
<1>2. FileOk(file)'
  BY <1>1 DEF NodeBasics, FileOk, FileRecords, Node!Fifos
<1>3. NodeTypes'
  BY <1>1 DEF NodeBasics, NodeTypes
<1>4. node.mode = "none" /\ at = "out" /\ node.eof_state = {} /\ kevs = {}
  BY <1>1 DEF NodeBasics, NodeTypes, PassTypes
<1>5. PassTypes'
  BY <1>1, <1>4 DEF NodeBasics, PassTypes, Node!EdgeTriggered
<1>6. Known'
  BY <1>1, <1>4 DEF Known
<1> QED
  BY <1>2, <1>3, <1>5, <1>6 DEF NodeBasics

LEMMA EnvironmentBasics == NodeBasics /\ Node!Environment => NodeBasics'
<1> SUFFICES ASSUME NodeBasics, Node!Environment PROVE NodeBasics'
  OBVIOUS
<1>1. FileOk(file)
  BY DEF NodeBasics
<1> QED
  BY <1>1, EnvironmentIs, OpensBasics, ChangesBasics

\* Which filters are needed for an edge-triggered node does not say how they trigger.
LEMMA NeededType ==
  ASSUME NEW n
  PROVE  Node!get_needed_filters(n) \in [Node!Filters -> {"none", "level", "clear"}]
<1>1. Node!Level(n) \in [Node!Filters -> {"none", "level", "clear"}]
  BY DEF Node!Level
<1>2. \A ended : Node!Watch(ended) \in {"none", "level", "clear"}
  BY DEF Node!Watch
<1>3. \A f, how : how \in {"level", "clear"} =>
                    Node!NothingBut(f, how) \in [Node!Filters -> {"none", "level", "clear"}]
  BY DEF Node!NothingBut
<1>4. Node!FifoFilters(n) \in [Node!Filters -> {"none", "level", "clear"}]
  BY <1>2 DEF Node!FifoFilters
<1>5. Node!SocketFilters(n) \in [Node!Filters -> {"none", "level", "clear"}]
  <2>1. Node!Level(n)["READ"] \in {"none", "level", "clear"} /\ Node!Level(n)["WRITE"] \in {"none", "level", "clear"}
    BY <1>1 DEF Node!Filters
  <2> DEFINE read == IF Node!Level(n)["READ"] = "none" /\ "RDHUP" \in n.events
                     THEN Node!Watch("READ" \in n.eof_state) ELSE Node!Level(n)["READ"]
  <2>2. read \in {"none", "level", "clear"}
    BY <2>1, <1>2
  <2>3. CASE n.eof_state = Node!Filters
    BY <2>3, <1>3 DEF Node!SocketFilters
  <2>4. CASE n.eof_state # Node!Filters
    BY <2>1, <2>2, <2>4 DEF Node!SocketFilters, Node!Filters
  <2> QED
    BY <2>3, <2>4
<1>6. Node!OtherFilters(n) \in [Node!Filters -> {"none", "level", "clear"}]
  BY <1>1, <1>2, <1>3 DEF Node!OtherFilters, Node!Watch
<1> HIDE DEF Node!Level
<1> QED
  BY <1>4, <1>5, <1>6 DEF Node!get_needed_filters

Knotes == [Node!Filters -> {"none", "level", "clear", "fired"}]

\* What registering does to the node.
LEMMA Registering ==
  ASSUME NEW n \in NodeRecords, Node!register_events(n)
  PROVE  /\ node' \in NodeRecords /\ node'.mode = n.mode /\ node'.events = n.events
         /\ node' = n \/ (file.kind = "out" /\ node'.eof_state = Node!Filters)
         /\ knote' \in Knotes /\ user' \in BOOLEAN /\ (user' => file.kind = "out")
<1>1. /\ node' = n \/ (file.kind = "out" /\ node' = [n EXCEPT !.eof_state = Node!Filters])
      /\ user' \in BOOLEAN /\ (user' => file.kind = "out")
  BY DEF Node!register_events
<1>2. \A f \in Node!Filters :
        Node!Knote(f, Node!get_needed_filters(n)[f]) \in {"none", "level", "clear", "fired"}
  BY NeededType DEF Node!Knote
<1>3. knote' \in Knotes
  BY <1>2 DEF Node!register_events, Knotes
<1> QED
  BY <1>1, <1>3 DEF NodeRecords

LEMMA UpdateFlags ==
  ASSUME NodeBasics, NEW events \in SUBSET Bits, NEW mode \in {"level", "edge", "oneshot"}
  PROVE  LET n == Node!update_flags(events, mode) IN
         /\ n \in NodeRecords /\ n.mode = mode /\ n.eof_state = node.eof_state
         /\ n.events = events \ Node!When(file.kind # "socket", "RDHUP")
         /\ file.kind # "socket" => "RDHUP" \notin n.events
BY DEF NodeBasics, NodeTypes, NodeRecords, Node!update_flags, Node!When

LEMMA AddModBasics ==
  ASSUME NodeBasics, NEW events \in SUBSET Bits, NEW mode \in {"level", "edge", "oneshot"},
         Node!epoll_ctl_add_mod(events, mode)
  PROVE  NodeBasics'
<1> DEFINE n == Node!update_flags(events, mode)
<1>1. /\ n \in NodeRecords /\ n.mode = mode /\ n.eof_state = node.eof_state
      /\ file.kind # "socket" => "RDHUP" \notin n.events
  BY UpdateFlags
<1>2. /\ at = "out" /\ file.kind # "none" /\ Node!register_events(n)
      /\ UNCHANGED <<file, kevs, revents, got_evfilt, at>>
  BY DEF Node!epoll_ctl_add_mod, Node!passvars
<1> HIDE DEF n
<1>3. /\ node' \in NodeRecords /\ node'.mode = mode /\ node'.events = n.events
      /\ node' = n \/ (file.kind = "out" /\ node'.eof_state = Node!Filters)
      /\ knote' \in Knotes /\ (user' => file.kind = "out")
  BY <1>1, <1>2, Registering
<1>4. FileOk(file)'
  BY <1>2 DEF NodeBasics
<1>5. NodeTypes'
  BY <1>1, <1>2, <1>3 DEF NodeBasics, NodeTypes, Knotes
<1>6. PassTypes'
  BY <1>2 DEF NodeBasics, PassTypes
<1>7. Known'
  BY <1>1, <1>2, <1>3 DEF NodeBasics, Known, KevKnown, PassTypes
<1> QED
  BY <1>4, <1>5, <1>6, <1>7 DEF NodeBasics

LEMMA DelBasics ==
  ASSUME NodeBasics, Node!epoll_ctl_del
  PROVE  NodeBasics'
<1>1. /\ at = "out" /\ node' = Node!NoNode /\ knote' = [f \in Node!Filters |-> "none"] /\ user' = FALSE
      /\ UNCHANGED <<file, kevs, revents, got_evfilt, at>>
  BY DEF Node!epoll_ctl_del, Node!passvars, Node!remove_node_from_kq
<1>2. NodeTypes'
  BY <1>1 DEF NodeBasics, NodeTypes, NodeRecords, Node!NoNode
<1>3. PassTypes'
  BY <1>1 DEF NodeBasics, PassTypes
<1>4. Known'
  BY <1>1 DEF NodeBasics, Known, PassTypes, Node!NoNode
<1> QED
  BY <1>1, <1>2, <1>3, <1>4 DEF NodeBasics

LEMMA WaitBasics ==
  ASSUME NodeBasics, Node!epoll_wait
  PROVE  NodeBasics'
<1>1. /\ at = "out" /\ Node!KqReadable /\ at' = "kevent"
      /\ UNCHANGED <<file, node, knote, user, kevs, revents, got_evfilt>>
  BY DEF Node!epoll_wait
<1>2. node.mode # "none"
  BY <1>1 DEF NodeBasics, NodeTypes, Node!KqReadable, Node!Active
<1>3. NodeTypes'
  BY <1>1, <1>2 DEF NodeBasics, NodeTypes
<1>4. PassTypes'
  BY <1>1 DEF NodeBasics, PassTypes
<1> QED
  BY <1>1, <1>3, <1>4 DEF NodeBasics, Known, KevKnown

\* A kevent that the kernel makes says how the file is.
LEMMA KeventIs ==
  ASSUME FileOk(file), NEW f \in Node!Filters
  PROVE  /\ Node!Kevent(f) \in FileEvents /\ Node!Kevent(f).filter = f
         /\ Node!Kevent(f).eof = (f \in file.ended) /\ Node!Kevent(f).error = file.error
         /\ Node!Kevent(f).some = IF f = "READ" THEN file.data ELSE file.room
<1>1. file.data \in BOOLEAN /\ file.room \in BOOLEAN /\ file.error \in BOOLEAN
  BY DEF FileOk, FileRecords
<1>2. (f \in file.ended) \in BOOLEAN /\ (IF f = "READ" THEN file.data ELSE file.room) \in BOOLEAN
  BY <1>1
<1> QED
  BY <1>1, <1>2 DEF Node!Kevent, FileEvents

LEMMA KeventKnown ==
  ASSUME FileOk(file), NEW f \in Node!Filters, node.eof_state \subseteq file.ended
  PROVE  KevKnown(Node!Kevent(f))
<1> DEFINE kev == Node!Kevent(f)
<1>1. kev.filter = f /\ kev.eof = (f \in file.ended) /\ kev.error = file.error
  BY KeventIs
<1> HIDE DEF kev
<1>2. KevKnown(kev)
  BY <1>1 DEF KevKnown
<1> QED
  BY <1>2 DEF kev

LEMMA UserIsNone ==
  /\ Node!UserEvent.filter = "USER" /\ "USER" \notin Node!Filters
  /\ \A kev \in FileEvents : kev.filter \in Node!Filters /\ kev # Node!UserEvent
BY DEF Node!UserEvent, Node!Filters, FileEvents

LEMMA RetrievesIs ==
  ASSUME NodeBasics, Node!Retrieves
  PROVE  /\ at = "kevent" /\ kevs = {} /\ revents = {}
         /\ at' \in {"feed", "out"} /\ (at' = "out" => kevs' = {})
         /\ \A kev : kev \in kevs' <=> \/ kev = Node!UserEvent /\ user
                                       \/ \E f \in Node!Filters : Node!Active(f) /\ kev = Node!Kevent(f)
         /\ knote' = [f \in Node!Filters |-> IF knote[f] = "fired" THEN "clear" ELSE knote[f]]
         /\ user' = FALSE /\ UNCHANGED <<file, node, revents, got_evfilt, unseen>>
         /\ held' = IF at' = "feed" THEN held ELSE {}
<1>1. /\ at = "kevent" /\ knote' = [f \in Node!Filters |-> IF knote[f] = "fired" THEN "clear" ELSE knote[f]]
      /\ user' = FALSE /\ UNCHANGED <<file, node, revents, got_evfilt, unseen>>
      /\ kevs = {} /\ revents = {}
  BY DEF Node!Retrieves, NodeBasics, PassTypes
<1>2. \A kev : kev \in kevs' <=> \/ kev = Node!UserEvent /\ user
                                 \/ \E f \in Node!Filters : Node!Active(f) /\ kev = Node!Kevent(f)
  BY DEF Node!Retrieves, Node!When
<1>3. at' \in {"feed", "out"} /\ (at' = "out" => kevs' = {})
  BY <1>2 DEF Node!Retrieves, Node!KqReadable
<1>4. held' = IF at' = "feed" THEN held ELSE {}
  BY DEF Node!Retrieves
<1> QED
  BY <1>1, <1>2, <1>3, <1>4

LEMMA RetrievesBasics ==
  ASSUME NodeBasics, Node!Retrieves
  PROVE  NodeBasics'
<1>1. /\ at = "kevent" /\ at' \in {"feed", "out"} /\ (at' = "out" => kevs' = {})
      /\ knote' = [f \in Node!Filters |-> IF knote[f] = "fired" THEN "clear" ELSE knote[f]]
      /\ user' = FALSE /\ UNCHANGED <<file, node, revents, got_evfilt>>
  BY RetrievesIs
<1>2. \A kev : kev \in kevs' <=> \/ kev = Node!UserEvent /\ user
                                 \/ \E f \in Node!Filters : Node!Active(f) /\ kev = Node!Kevent(f)
  BY RetrievesIs
<1>3. NodeTypes'
  BY <1>1 DEF NodeBasics, NodeTypes
<1>4. PassTypes'
  <2>1. (kevs \subseteq FileEvents \cup {Node!UserEvent})'
    BY <1>2, KeventIs DEF NodeBasics
  <2>2. (Node!UserEvent \in kevs => file.kind = "out")'
    BY <1>1, <1>2, KeventIs, UserIsNone DEF NodeBasics, NodeTypes
  <2>3. (\A kev1, kev2 \in kevs : kev1.filter = kev2.filter => kev1 = kev2)'
    BY <1>2, KeventIs, UserIsNone DEF NodeBasics
  <2>4. node.mode # "none" /\ revents = {} /\ got_evfilt \subseteq Node!Filters
    BY <1>1 DEF NodeBasics, NodeTypes, PassTypes
  <2> QED
    BY <1>1, <2>1, <2>2, <2>3, <2>4 DEF PassTypes
<1>5. Known'
  <2> SUFFICES ASSUME file.kind = "socket" PROVE Known'
    BY <1>1 DEF Known
  <2>1. node.eof_state \subseteq file.ended /\ ~user
    BY DEF NodeBasics, Known, NodeTypes
  <2>2. ASSUME NEW kev \in kevs' PROVE KevKnown(kev)'
    <3>1. PICK f \in Node!Filters : kev = Node!Kevent(f)
      BY <1>2, <2>1
    <3>2. KevKnown(kev)
      BY <2>1, <3>1, KeventKnown DEF NodeBasics
    <3> QED
      BY <1>1, <3>2 DEF KevKnown
  <2> QED
    BY <1>1, <2>1, <2>2 DEF Known
<1> QED
  BY <1>1, <1>3, <1>4, <1>5 DEF NodeBasics

LEMMA CompletionBasics ==
  ASSUME NodeBasics, Node!register_for_completion
  PROVE  NodeBasics'
<1>1. /\ at = "edge" /\ at' = IF kevs' = {} THEN "report" ELSE "complete"
      /\ UNCHANGED <<file, node, knote, user, revents, got_evfilt>>
      /\ kevs' = {Node!Kevent(f) : f \in {g \in Node!Filters \ got_evfilt :
                                            knote[g] # "none" /\ Node!Occurs(g, file)}}
  BY DEF Node!register_for_completion
<1>2. \A kev \in kevs' : \E f \in Node!Filters : kev = Node!Kevent(f)
  BY <1>1
<1>3. NodeTypes'
  BY <1>1 DEF NodeBasics, NodeTypes
<1>4. PassTypes'
  <2>1. (kevs \subseteq FileEvents \cup {Node!UserEvent})'
    BY <1>2, KeventIs DEF NodeBasics
  <2>2. (Node!UserEvent \in kevs => file.kind = "out")'
    BY <1>2, KeventIs, UserIsNone DEF NodeBasics
  <2>3. (\A kev1, kev2 \in kevs : kev1.filter = kev2.filter => kev1 = kev2)'
    BY <1>2, KeventIs DEF NodeBasics
  <2> QED
    BY <1>1, <2>1, <2>2, <2>3 DEF PassTypes, NodeBasics, Node!EdgeTriggered
<1>5. Known'
  <2> SUFFICES ASSUME file.kind = "socket" PROVE Known'
    BY <1>1 DEF Known
  <2>1. node.eof_state \subseteq file.ended
    BY DEF NodeBasics, Known
  <2>2. ASSUME NEW kev \in kevs' PROVE KevKnown(kev)'
    <3>1. PICK f \in Node!Filters : kev = Node!Kevent(f)
      BY <1>2
    <3>2. KevKnown(kev)
      BY <2>1, <3>1, KeventKnown DEF NodeBasics
    <3> QED
      BY <1>1, <3>2 DEF KevKnown
  <2> QED
    BY <1>1, <2>1, <2>2 DEF Known
<1> QED
  BY <1>1, <1>3, <1>4, <1>5 DEF NodeBasics

LEMMA ReportsBasics ==
  ASSUME NodeBasics, Node!Reports
  PROVE  NodeBasics'
<1>1. /\ at = "report" /\ at' = "out" /\ revents' = {} /\ got_evfilt' = {}
      /\ UNCHANGED <<file, node, kevs>> /\ kevs = {}
      /\ \/ knote' = [f \in Node!Filters |-> "none"] /\ user' = FALSE
         \/ UNCHANGED <<knote, user>>
  BY DEF Node!Reports, Node!remove_node_from_kq, NodeBasics, PassTypes
<1>2. NodeTypes'
  BY <1>1 DEF NodeBasics, NodeTypes
<1>3. PassTypes'
  BY <1>1 DEF NodeBasics, PassTypes
<1> QED
  BY <1>1, <1>2, <1>3 DEF NodeBasics, Known, KevKnown

\* An event is fed: the node's own, or a filter's.
FedOwn(kev) ==
  /\ kev = Node!UserEvent /\ UNCHANGED <<node, got_evfilt>> /\ file.kind = "out"
  /\ knote' \in Knotes /\ (user' => file.kind = "out")
  /\ \/ /\ file.ended # {} /\ revents' = {"ERR", "OUT"} \cap Node!Asked(node)
        /\ user' = ~Node!EdgeTriggered(node) /\ knote' = knote
     \/ /\ file.ended = {} /\ UNCHANGED <<revents, user>>
        /\ knote' = [knote EXCEPT !["WRITE"] = Node!Knote("WRITE", Node!get_needed_filters(node)["WRITE"])]

Learnt(kev) == [node EXCEPT !.eof_state = Node!EofState(node, kev)]

\* Nothing is registered anew: the same filters are needed, or the end is known.
NoneAnew(kev) ==
  \/ Node!get_needed_filters(Learnt(kev)) = Node!get_needed_filters(node)
  \/ Node!EdgeTriggered(node) /\ Node!EofState(node, kev) = Node!Filters /\ file.kind \notin Node!Fifos

FedFilter(kev) ==
  /\ kev \in FileEvents
  /\ revents' = (revents \cup Node!EventBits(kev, Node!EofState(node, kev))) \cap Node!Asked(node)
  /\ got_evfilt' = got_evfilt \cup (IF revents' # {} THEN {kev.filter} ELSE {})
  /\ \/ node' = Learnt(kev) /\ UNCHANGED <<knote, user>> /\ (at = "feed" => NoneAnew(kev))
     \/ at = "feed" /\ Node!register_events(Learnt(kev)) /\ ~NoneAnew(kev)

LEMMA FeedsIs ==
  ASSUME NodeBasics, Node!Feeds
  PROVE  /\ at \in {"feed", "complete"} /\ UNCHANGED <<file, unseen, held>>
         /\ at' = (IF kevs' # {} THEN at
                   ELSE IF revents' = {} THEN "kevent"
                   ELSE IF at = "feed" /\ Node!EdgeTriggered(node) THEN "edge" ELSE "report")
         /\ \E kev \in kevs : kevs' = kevs \ {kev} /\ (FedOwn(kev) \/ FedFilter(kev))
<1>1. /\ at \in {"feed", "complete"} /\ UNCHANGED <<file, unseen, held>>
      /\ at' = (IF kevs' # {} THEN at
                ELSE IF revents' = {} THEN "kevent"
                ELSE IF at = "feed" /\ Node!EdgeTriggered(node) THEN "edge" ELSE "report")
  BY DEF Node!Feeds
<1>2. PICK kev \in kevs :
        /\ kevs' = kevs \ {kev}
        /\ IF kev = Node!UserEvent THEN Node!feed_user_event /\ UNCHANGED <<node, got_evfilt>>
                                   ELSE Node!feed_event(kev)
  BY DEF Node!Feeds
<1>3. CASE kev = Node!UserEvent
  <2>1. file.kind = "out" /\ knote \in Knotes /\ "WRITE" \in Node!Filters
    BY <1>3 DEF NodeBasics, PassTypes, NodeTypes, Knotes, Node!Filters
  <2>2. Node!Knote("WRITE", Node!get_needed_filters(node)["WRITE"]) \in {"none", "level", "clear", "fired"}
    BY <2>1, NeededType DEF Node!Knote
  <2>3. FedOwn(kev)
    BY <1>2, <1>3, <2>1, <2>2 DEF FedOwn, Node!feed_user_event, Knotes
  <2> QED
    BY <1>1, <1>2, <2>3
<1>4. CASE kev # Node!UserEvent
  <2>1. kev \in FileEvents
    BY <1>4 DEF NodeBasics, PassTypes
  <2>2. /\ revents' = (revents \cup Node!EventBits(kev, Learnt(kev).eof_state)) \cap Node!Asked(Learnt(kev))
        /\ got_evfilt' = got_evfilt \cup Node!When(revents' # {}, kev.filter)
        /\ IF at = "feed" THEN Node!RegistersAnew(Learnt(kev)) ELSE node' = Learnt(kev) /\ UNCHANGED <<knote, user>>
    BY <1>2, <1>4 DEF Node!feed_event, Learnt
  <2>3. /\ Learnt(kev).eof_state = Node!EofState(node, kev) /\ Node!Asked(Learnt(kev)) = Node!Asked(node)
        /\ Node!EdgeTriggered(Learnt(kev)) = Node!EdgeTriggered(node)
    BY DEF Learnt, Node!Asked, Node!EdgeTriggered, NodeBasics, NodeTypes, NodeRecords
  <2>4. \/ node' = Learnt(kev) /\ UNCHANGED <<knote, user>> /\ (at = "feed" => NoneAnew(kev))
        \/ at = "feed" /\ Node!register_events(Learnt(kev)) /\ ~NoneAnew(kev)
    BY <2>2, <2>3 DEF Node!RegistersAnew, NoneAnew
  <2>5. FedFilter(kev)
    BY <2>1, <2>2, <2>3, <2>4 DEF FedFilter, Node!When
  <2> QED
    BY <1>1, <1>2, <2>5
<1> QED
  BY <1>3, <1>4

\* What an event of a filter says of the file's ends.
LEMMA LearntIs ==
  ASSUME NodeBasics, NEW kev \in FileEvents
  PROVE  /\ Learnt(kev) \in NodeRecords /\ Learnt(kev).mode = node.mode /\ Learnt(kev).events = node.events
         /\ Learnt(kev).eof_state = Node!EofState(node, kev)
         /\ \A f : f # kev.filter /\ f \in Node!EofState(node, kev) =>
                     IF file.kind = "socket" THEN f \in node.eof_state ELSE kev.eof
         /\ file.kind = "socket" => (kev.filter \in Node!EofState(node, kev) <=> kev.eof)
<1>1. kev.filter \in Node!Filters /\ node.eof_state \subseteq Node!Filters /\ node \in NodeRecords
  BY DEF FileEvents, NodeBasics, NodeTypes, NodeRecords
<1>2. Node!EofState(node, kev) \subseteq Node!Filters
  BY <1>1 DEF Node!EofState
<1>3. \A f : f # kev.filter /\ f \in Node!EofState(node, kev) =>
               IF file.kind = "socket" THEN f \in node.eof_state ELSE kev.eof
  BY DEF Node!EofState
<1>4. file.kind = "socket" => (kev.filter \in Node!EofState(node, kev) <=> kev.eof)
  BY DEF Node!EofState
<1> QED
  BY <1>1, <1>2, <1>3, <1>4 DEF Learnt, NodeRecords

LEMMA FeedsBasics ==
  ASSUME NodeBasics, Node!Feeds
  PROVE  NodeBasics'
<1>1. /\ at \in {"feed", "complete"} /\ UNCHANGED file
      /\ at' = (IF kevs' # {} THEN at
                ELSE IF revents' = {} THEN "kevent"
                ELSE IF at = "feed" /\ Node!EdgeTriggered(node) THEN "edge" ELSE "report")
  BY FeedsIs
<1>2. PICK kev \in kevs : kevs' = kevs \ {kev} /\ (FedOwn(kev) \/ FedFilter(kev))
  BY FeedsIs
<1>3. node.mode # "none" /\ file.kind # "none"
  BY <1>1 DEF NodeBasics, NodeTypes
<1>4. /\ node' \in NodeRecords /\ node'.mode = node.mode /\ node'.events = node.events
      /\ knote' \in Knotes /\ (user' => file.kind = "out") /\ got_evfilt' \subseteq Node!Filters
  <2>1. CASE FedOwn(kev)
    BY <2>1 DEF FedOwn, NodeBasics, NodeTypes, PassTypes
  <2>2. CASE FedFilter(kev)
    <3>1. /\ Learnt(kev) \in NodeRecords /\ Learnt(kev).mode = node.mode /\ Learnt(kev).events = node.events
          /\ kev.filter \in Node!Filters
      BY <2>2, LearntIs DEF FedFilter, FileEvents
    <3>2. CASE node' = Learnt(kev) /\ UNCHANGED <<knote, user>>
      BY <2>2, <3>1, <3>2 DEF FedFilter, NodeBasics, NodeTypes, PassTypes, Knotes
    <3>3. CASE Node!register_events(Learnt(kev))
      BY <2>2, <3>1, <3>3, Registering DEF FedFilter, NodeBasics, PassTypes
    <3> QED
      BY <2>2, <3>2, <3>3 DEF FedFilter
  <2> QED
    BY <1>2, <2>1, <2>2
<1>5. NodeTypes'
  BY <1>1, <1>3, <1>4 DEF NodeBasics, NodeTypes, Knotes
<1>6. PassTypes'
  BY <1>1, <1>2, <1>4 DEF NodeBasics, PassTypes, Node!EdgeTriggered
<1>7. Known'
  <2> SUFFICES ASSUME file.kind = "socket" PROVE Known'
    BY <1>1 DEF Known
  <2>1. /\ node.eof_state \subseteq file.ended /\ (\A k \in kevs : KevKnown(k))
        /\ \A kev1, kev2 \in kevs : kev1.filter = kev2.filter => kev1 = kev2
    BY DEF NodeBasics, Known, PassTypes
  <2>2. FedFilter(kev) /\ kev \in FileEvents
    BY <1>2 DEF FedOwn, FedFilter
  <2>3. node' = Learnt(kev)
    BY <2>2, LearntIs, Registering DEF FedFilter
  <2>4. /\ node'.eof_state = Node!EofState(node, kev)
        /\ \A f : f # kev.filter /\ f \in Node!EofState(node, kev) => f \in node.eof_state
        /\ kev.filter \in Node!EofState(node, kev) <=> kev.eof
    BY <2>2, <2>3, LearntIs
  <2>5. node'.eof_state \subseteq file.ended
    BY <2>1, <2>4 DEF KevKnown
  <2>6. ASSUME NEW k \in kevs' PROVE KevKnown(k)'
    <3>1. k \in kevs /\ k.filter # kev.filter
      BY <1>2, <2>1
    <3> QED
      BY <1>1, <2>1, <2>4, <3>1 DEF KevKnown
  <2> QED
    BY <1>1, <2>5, <2>6 DEF Known
<1> QED
  BY <1>1, <1>5, <1>6, <1>7 DEF NodeBasics

LEMMA NodeBasicsStep == NodeBasics /\ Node!Next => NodeBasics'
<1> SUFFICES ASSUME NodeBasics, Node!Next PROVE NodeBasics'
  OBVIOUS
<1>1. CASE Node!Environment
  BY <1>1, EnvironmentBasics
<1>2. ASSUME NEW events \in Interests, NEW mode \in {"level", "edge", "oneshot"},
             Node!epoll_ctl_add_mod(events, mode)
      PROVE  NodeBasics'
  BY <1>2, EventSourcesAssumption, AddModBasics DEF Bits
<1>3. CASE Node!epoll_ctl_del
  BY <1>3, DelBasics
<1>4. CASE Node!Waiting
  BY <1>4, WaitBasics, RetrievesBasics, FeedsBasics, CompletionBasics, ReportsBasics DEF Node!Waiting
<1> QED
  BY <1>1, <1>2, <1>3, <1>4 DEF Node!Next

\* An event the file had since the thread looked, if it is one that is asked for.
Had(e) == e \in Node!Asked(node) => e \in held

\* What a kevent is going to say.
KevTrue(kev) ==
  kev # Node!UserEvent =>
    /\ ~(file.kind \in Node!Fifos /\ kev.eof /\ ~kev.some) => Had(Node!Readiness[kev.filter])
    /\ kev.eof /\ file.kind \in Node!Fifos => Had(IF kev.filter = "READ" THEN "HUP" ELSE "ERR")
    /\ kev.eof /\ file.kind \notin Node!Fifos \cup {"socket"} => Had("HUP")
    /\ kev.error => file.error

TrueInv ==
  /\ at # "out" => \A e \in Node!Reportable(file) : Had(e)
  /\ \A kev \in kevs : KevTrue(kev)
  /\ revents \subseteq held /\ revents \subseteq Node!Asked(node)

LEMMA ReportableOf ==
  ASSUME NEW fl
  PROVE  \A e : e \in Node!Reportable(fl) <=>
                  e \in Node!Events(fl) \/ (e = "OUT" /\ fl.kind = "out" /\ fl.ended # {})
BY DEF Node!Reportable, Node!When

LEMMA KeventTrue ==
  ASSUME FileOk(file), NEW f \in Node!Filters, Node!Occurs(f, file),
         \A e \in Node!Reportable(file) : Had(e)
  PROVE  KevTrue(Node!Kevent(f))
<1>1. PICK kev : kev = Node!Kevent(f)
  OBVIOUS
<1>2. /\ kev.filter = f /\ kev.eof = (f \in file.ended) /\ kev.error = file.error
      /\ kev.some = IF f = "READ" THEN file.data ELSE file.room
  BY <1>1, KeventIs
<1>3. /\ f \in {"READ", "WRITE"} /\ (f \in file.ended \/ (f = "READ" /\ file.data) \/ (f = "WRITE" /\ file.room))
      /\ Node!Readiness["READ"] = "IN" /\ Node!Readiness["WRITE"] = "OUT"
      /\ file \in FileRecords /\ file.ended \subseteq Node!Filters
  BY DEF Node!Occurs, Node!Filters, Node!Readiness, FileOk, FileRecords
<1>4. ~(file.kind \in Node!Fifos /\ kev.eof /\ ~kev.some) => Node!Readiness[f] \in Node!Reportable(file)
  <2>1. CASE file.kind = "socket"
    BY <1>3, <2>1, EventsOf, ReportableOf
  <2>2. CASE file.kind \in Node!Fifos
    <3>1. "WRITE" \in file.ended => file.kind = "out"
      BY <1>3, <2>2 DEF FileOk, Node!Fifos
    <3>2. CASE f = "READ"
      BY <1>2, <1>3, <2>2, <3>2, EventsOf, ReportableOf
    <3>3. CASE f = "WRITE"
      BY <1>2, <1>3, <2>2, <3>1, <3>3, EventsOf, ReportableOf
    <3> QED
      BY <1>3, <3>2, <3>3
  <2>3. CASE file.kind \notin Node!Fifos \cup {"socket"}
    BY <1>3, <2>3, EventsOf, ReportableOf
  <2> QED
    BY <2>1, <2>2, <2>3
<1>5. kev.eof /\ file.kind \in Node!Fifos => (IF f = "READ" THEN "HUP" ELSE "ERR") \in Node!Reportable(file)
  BY <1>2, <1>3, EventsOf, ReportableOf
<1>6. kev.eof /\ file.kind \notin Node!Fifos \cup {"socket"} => "HUP" \in Node!Reportable(file)
  BY <1>2, <1>3, EventsOf, ReportableOf
<1>7. KevTrue(kev)
  BY <1>2, <1>4, <1>5, <1>6 DEF KevTrue
<1> QED
  BY <1>1, <1>7

\* What an event of a filter adds was so.
LEMMA BitsTrue ==
  ASSUME NodeBasics, NEW kev \in FileEvents, KevTrue(kev), NEW eof_state, eof_state = Node!EofState(node, kev),
         file.kind = "socket" => eof_state \subseteq file.ended,
         \A e \in Node!Reportable(file) : Had(e)
  PROVE  \A e \in Node!EventBits(kev, eof_state) : Had(e)
<1>1. /\ ~(file.kind \in Node!Fifos /\ kev.eof /\ ~kev.some) => Had(Node!Readiness[kev.filter])
      /\ kev.eof /\ file.kind \in Node!Fifos => Had(IF kev.filter = "READ" THEN "HUP" ELSE "ERR")
      /\ kev.eof /\ file.kind \notin Node!Fifos \cup {"socket"} => Had("HUP")
      /\ kev.error => file.error
  BY UserIsNone DEF KevTrue
<1>2. file.kind # "socket" => (eof_state # {} <=> kev.eof)
  BY DEF Node!EofState, Node!Filters
<1>3. FileOk(file) /\ file \in FileRecords /\ file.ended \subseteq Node!Filters
  BY DEF NodeBasics, FileOk, FileRecords
<1>4. \A e \in Node!When(~(file.kind \in Node!Fifos /\ eof_state # {} /\ ~kev.some), Node!Readiness[kev.filter]) : Had(e)
  BY <1>1, <1>2 DEF Node!When, Node!Fifos
<1>5. \A e \in Node!When(kev.eof /\ kev.error, "ERR") : Had(e)
  <2> SUFFICES ASSUME kev.error PROVE Had("ERR")
    BY DEF Node!When
  <2>1. file.kind = "socket" /\ file.error
    BY <1>1, <1>3 DEF FileOk
  <2> QED
    BY <1>3, <2>1, EventsOf, ReportableOf
<1>6. \A e \in Node!EofEvents(kev, eof_state) : Had(e)
  <2>1. CASE file.kind = "socket"
    <3>1. \A e \in Node!EofEvents(kev, eof_state) :
            \/ e = "IN" /\ "READ" \in eof_state
            \/ e = "RDHUP" /\ "READ" \in eof_state
            \/ e = "OUT" /\ "WRITE" \in eof_state
            \/ e = "HUP" /\ eof_state = Node!Filters
      BY <2>1 DEF Node!EofEvents, Node!When, Node!Fifos
    <3>2. eof_state = Node!Filters => file.ended = Node!Filters
      BY <1>3, <2>1
    <3>3. eof_state \subseteq file.ended
      BY <2>1
    <3>4. \A e \in Node!EofEvents(kev, eof_state) : e \in Node!Events(file)
      BY <1>3, <2>1, <3>1, <3>2, <3>3, EventsOf
    <3> QED
      BY <3>4, ReportableOf
  <2>2. CASE file.kind \in Node!Fifos
    BY <1>1, <1>2, <2>2 DEF Node!EofEvents, Node!Fifos
  <2>3. CASE file.kind \notin Node!Fifos \cup {"socket"}
    BY <1>1, <1>2, <2>3 DEF Node!EofEvents, Node!Fifos
  <2> QED
    BY <2>1, <2>2, <2>3
<1> QED
  BY <1>4, <1>5, <1>6 DEF Node!EventBits

LEMMA TrueAtRest ==
  ASSUME (at = "out" /\ kevs = {} /\ revents = {})'
  PROVE  TrueInv'
BY DEF TrueInv

LEMMA ChangesTrue ==
  ASSUME NodeBasics, TrueInv, NEW fl, NEW fs, NEW es, Node!Changes(fl, fs, es), Wakes(fl, fs, es)
  PROVE  TrueInv'
<1>1. /\ file' = fl /\ UNCHANGED node /\ UNCHANGED <<kevs, revents, got_evfilt, at>>
      /\ held' = IF at = "out" THEN {} ELSE held \cup (Node!Reportable(fl) \cap Node!Asked(node))
  BY DEF Node!Changes, Node!passvars
<1>2. CASE at = "out"
  BY <1>1, <1>2, TrueAtRest DEF NodeBasics, PassTypes
<1>3. CASE at # "out"
  <2>1. \A e : Had(e) => Had(e)'
    BY <1>1, <1>3 DEF Had, Node!Asked
  <2>2. (\A e \in Node!Reportable(file) : Had(e))'
    BY <1>1, <1>3 DEF Had, Node!Asked
  <2>3. ASSUME NEW kev \in kevs PROVE KevTrue(kev)'
    <3>1. KevTrue(kev) /\ file'.kind = file.kind
      BY <1>1 DEF TrueInv, Wakes, Follows
    <3>2. file.error => file'.error
      BY <1>1 DEF Wakes, Follows, NodeBasics, FileOk
    <3> QED
      BY <2>1, <3>1, <3>2 DEF KevTrue
  <2>4. (revents \subseteq held /\ revents \subseteq Node!Asked(node))'
    BY <1>1, <1>3 DEF TrueInv, Node!Asked
  <2> QED
    BY <1>1, <2>2, <2>3, <2>4 DEF TrueInv
<1> QED
  BY <1>2, <1>3

LEMMA EnvironmentTrue == NodeBasics /\ TrueInv /\ Node!Environment => TrueInv'
<1> SUFFICES ASSUME NodeBasics, TrueInv, Node!Environment PROVE TrueInv'
  OBVIOUS
<1>1. ASSUME NEW kind \in Kinds, Node!Opens(kind) PROVE TrueInv'
  <2>1. at = "out" /\ kevs = {} /\ revents = {}
    BY <1>1 DEF NodeBasics, NodeTypes, PassTypes, Node!Opens
  <2> QED
    BY <1>1, <2>1, TrueAtRest DEF Node!Opens, Node!passvars
<1>2. FileOk(file)
  BY DEF NodeBasics
<1> QED
  BY <1>1, <1>2, EnvironmentIs, ChangesTrue

LEMMA CallsTrue ==
  ASSUME NodeBasics, TrueInv,
         \/ \E events, mode : Node!epoll_ctl_add_mod(events, mode)
         \/ Node!epoll_ctl_del
         \/ Node!Reports
  PROVE  TrueInv'
<1>1. (at = "out" /\ kevs = {} /\ revents = {})'
  BY DEF Node!epoll_ctl_add_mod, Node!epoll_ctl_del, Node!Reports, Node!passvars, NodeBasics, PassTypes
<1> QED
  BY <1>1, TrueAtRest

LEMMA RetrievesTrue ==
  ASSUME NodeBasics, TrueInv, Node!Retrieves
  PROVE  TrueInv'
<1>1. /\ at = "kevent" /\ at' \in {"feed", "out"} /\ (at' = "out" => kevs' = {}) /\ revents = {}
      /\ UNCHANGED <<file, node, revents>> /\ held' = IF at' = "feed" THEN held ELSE {}
  BY RetrievesIs
<1>2. \A kev : kev \in kevs' <=> \/ kev = Node!UserEvent /\ user
                                 \/ \E f \in Node!Filters : Node!Active(f) /\ kev = Node!Kevent(f)
  BY RetrievesIs
<1>3. CASE at' = "out"
  BY <1>1, <1>3, TrueAtRest
<1>4. CASE at' = "feed"
  <2>1. (\A e \in Node!Reportable(file) : Had(e)) /\ FileOk(file)
    BY <1>1 DEF TrueInv, NodeBasics
  <2>2. (\A e \in Node!Reportable(file) : Had(e))'
    BY <1>1, <1>4, <2>1 DEF Had, Node!Asked
  <2>3. ASSUME NEW kev \in kevs' PROVE KevTrue(kev)'
    <3>1. CASE kev = Node!UserEvent
      BY <3>1 DEF KevTrue, Node!UserEvent
    <3>2. CASE kev # Node!UserEvent
      <4>1. PICK f \in Node!Filters : Node!Active(f) /\ kev = Node!Kevent(f)
        BY <1>2, <3>2
      <4>2. KevTrue(kev)
        BY <2>1, <4>1, KeventTrue DEF Node!Active
      <4> QED
        BY <1>1, <1>4, <4>2 DEF KevTrue, Had, Node!Asked
    <3> QED
      BY <3>1, <3>2
  <2> QED
    BY <1>1, <2>2, <2>3 DEF TrueInv
<1> QED
  BY <1>1, <1>3, <1>4

LEMMA CompletionTrue ==
  ASSUME NodeBasics, TrueInv, Node!register_for_completion
  PROVE  TrueInv'
<1>1. /\ at = "edge" /\ UNCHANGED <<file, node, revents, held>>
      /\ kevs' = {Node!Kevent(f) : f \in {g \in Node!Filters \ got_evfilt :
                                            knote[g] # "none" /\ Node!Occurs(g, file)}}
  BY DEF Node!register_for_completion
<1>2. (\A e \in Node!Reportable(file) : Had(e)) /\ FileOk(file)
  BY <1>1 DEF TrueInv, NodeBasics
<1>3. (\A e \in Node!Reportable(file) : Had(e))'
  BY <1>1, <1>2 DEF Had, Node!Asked
<1>4. ASSUME NEW kev \in kevs' PROVE KevTrue(kev)'
  <2>1. PICK f \in Node!Filters : Node!Occurs(f, file) /\ kev = Node!Kevent(f)
    BY <1>1
  <2>2. KevTrue(kev)
    BY <1>2, <2>1, KeventTrue
  <2> QED
    BY <1>1, <2>2 DEF KevTrue, Had, Node!Asked
<1> QED
  BY <1>1, <1>3, <1>4 DEF TrueInv, Node!Asked

LEMMA FeedsTrue ==
  ASSUME NodeBasics, TrueInv, Node!Feeds, NodeBasics'
  PROVE  TrueInv'
<1>1. at \in {"feed", "complete"} /\ UNCHANGED <<file, held>>
  BY FeedsIs
<1>2. PICK kev \in kevs : kevs' = kevs \ {kev} /\ (FedOwn(kev) \/ FedFilter(kev))
  BY FeedsIs
<1>3. (\A e \in Node!Reportable(file) : Had(e)) /\ FileOk(file) /\ KevTrue(kev)
  BY <1>1 DEF TrueInv, NodeBasics
<1>4. Node!Asked(node)' = Node!Asked(node) /\ \A e \in revents' : e \in Node!Asked(node) /\ e \in held
  <2>1. CASE FedOwn(kev)
    <3>1. UNCHANGED node
      BY <2>1 DEF FedOwn
    <3>2. CASE revents' = revents
      BY <3>1, <3>2 DEF TrueInv, Node!Asked
    <3>3. CASE file.ended # {} /\ revents' = {"ERR", "OUT"} \cap Node!Asked(node)
      <4>1. file.kind = "out" /\ file \in FileRecords /\ "WRITE" \in file.ended
        BY <1>3, <2>1, <3>3 DEF FedOwn, FileOk, FileRecords, Node!Filters
      <4>2. {"ERR", "OUT"} \subseteq Node!Reportable(file)
        BY <4>1, EventsOf, ReportableOf DEF Node!Fifos
      <4> QED
        BY <1>3, <3>1, <3>3, <4>2 DEF Had, Node!Asked
    <3> QED
      BY <2>1, <3>2, <3>3 DEF FedOwn
  <2>2. CASE FedFilter(kev)
    <3>1. /\ kev \in FileEvents
          /\ revents' = (revents \cup Node!EventBits(kev, Node!EofState(node, kev))) \cap Node!Asked(node)
      BY <2>2 DEF FedFilter
    <3>2. node'.events = node.events /\ (file.kind = "socket" => node'.eof_state = Node!EofState(node, kev))
      BY <2>2, <3>1, LearntIs, Registering DEF FedFilter
    <3>3. file.kind = "socket" => Node!EofState(node, kev) \subseteq file.ended
      BY <1>1, <3>2 DEF NodeBasics, Known
    <3>4. \A e \in Node!EventBits(kev, Node!EofState(node, kev)) : Had(e)
      BY <1>3, <3>1, <3>3, BitsTrue
    <3> QED
      BY <3>1, <3>2, <3>4 DEF TrueInv, Had, Node!Asked
  <2> QED
    BY <1>2, <2>1, <2>2
<1>5. \A e : Had(e)' <=> Had(e)
  BY <1>1, <1>4 DEF Had
<1>6. (\A e \in Node!Reportable(file) : Had(e))'
  BY <1>1, <1>3, <1>5
<1>7. ASSUME NEW k \in kevs' PROVE KevTrue(k)'
  <2>1. KevTrue(k)
    BY <1>2 DEF TrueInv
  <2> QED
    BY <1>1, <1>5, <2>1 DEF KevTrue
<1> QED
  BY <1>1, <1>4, <1>6, <1>7 DEF TrueInv

LEMMA WaitTrue ==
  ASSUME NodeBasics, TrueInv, Node!epoll_wait
  PROVE  TrueInv'
<1>1. at = "out" /\ held' = Node!Reportable(file) \cap Node!Asked(node)
      /\ UNCHANGED <<file, node, kevs, revents>> /\ kevs = {} /\ revents = {}
  BY DEF Node!epoll_wait, NodeBasics, PassTypes
<1> QED
  BY <1>1 DEF TrueInv, Had, Node!Asked

LEMMA TrueInit == Node!Init => TrueInv
BY DEF Node!Init, TrueInv

LEMMA TrueStep == NodeBasics /\ TrueInv /\ Node!Next => TrueInv'
<1> SUFFICES ASSUME NodeBasics, TrueInv, Node!Next PROVE TrueInv'
  OBVIOUS
<1>1. CASE Node!Environment
  BY <1>1, EnvironmentTrue
<1>2. CASE Node!Waiting
  BY <1>2, WaitTrue, RetrievesTrue, FeedsTrue, CompletionTrue, CallsTrue, NodeBasicsStep DEF Node!Waiting
<1>3. CASE (\E events, mode : Node!epoll_ctl_add_mod(events, mode)) \/ Node!epoll_ctl_del
  BY <1>3, CallsTrue
<1> QED
  BY <1>1, <1>2, <1>3 DEF Node!Next
-----------------------------------------------------------------------------
\* The filters needed, by the kind of the file: how one is watched that is read or written,
\* and how one that is only watched for its end.
Used(n) == IF Node!EdgeTriggered(n) THEN "clear" ELSE "level"
Watched(n, ended) == IF ended /\ ~Node!EdgeTriggered(n) THEN "level" ELSE "clear"

LEMMA SocketNeeds ==
  ASSUME NEW n \in NodeRecords, file.kind = "socket"
  PROVE  LET N == Node!get_needed_filters(n) IN
         /\ n.eof_state = Node!Filters =>
              IF "IN" \in n.events \/ "RDHUP" \in n.events \/ "OUT" \notin n.events
              THEN N["READ"] = Used(n) /\ N["WRITE"] = "none"
              ELSE N["READ"] = "none" /\ N["WRITE"] = Used(n)
         /\ n.eof_state # Node!Filters =>
              /\ N["READ"] = IF "IN" \in n.events THEN Used(n)
                             ELSE IF "RDHUP" \in n.events THEN Watched(n, "READ" \in n.eof_state)
                             ELSE IF n.eof_state = {"WRITE"} \/ (n.eof_state = {} /\ "OUT" \notin n.events)
                             THEN "clear" ELSE "none"
              /\ N["WRITE"] = IF "OUT" \in n.events THEN Used(n)
                              ELSE IF n.eof_state = {"READ"} THEN "clear" ELSE "none"
<1> DEFINE S == Node!SocketFilters(n)
           N == Node!get_needed_filters(n)
           read == IF Node!Level(n)["READ"] = "none" /\ "RDHUP" \in n.events
                   THEN Node!Watch("READ" \in n.eof_state) ELSE Node!Level(n)["READ"]
           write == Node!Level(n)["WRITE"]
<1>1. /\ "READ" \in Node!Filters /\ "WRITE" \in Node!Filters
      /\ Node!Readiness["READ"] = "IN" /\ Node!Readiness["WRITE"] = "OUT"
  BY DEF Node!Filters, Node!Readiness
<1>2. /\ Node!Level(n)["READ"] = IF "IN" \in n.events THEN "level" ELSE "none"
      /\ write = IF "OUT" \in n.events THEN "level" ELSE "none"
  BY <1>1 DEF Node!Level
<1>3. read = IF "IN" \in n.events THEN "level"
             ELSE IF "RDHUP" \in n.events THEN (IF "READ" \in n.eof_state THEN "level" ELSE "clear") ELSE "none"
  BY <1>2 DEF Node!Watch
<1>4. n.eof_state = Node!Filters =>
        S = IF read = "level" \/ write # "level" THEN Node!NothingBut("READ", "level")
            ELSE Node!NothingBut("WRITE", "level")
  BY DEF Node!SocketFilters
<1>5. n.eof_state # Node!Filters =>
        /\ S["READ"] = (IF read = "none" /\ (n.eof_state = {"WRITE"} \/ (n.eof_state = {} /\ write = "none"))
                        THEN "clear" ELSE read)
        /\ S["WRITE"] = (IF write = "none" /\ n.eof_state = {"READ"} THEN "clear" ELSE write)
  BY DEF Node!SocketFilters
<1>6. N = [f \in Node!Filters |-> IF Node!EdgeTriggered(n) /\ S[f] # "none" THEN "clear" ELSE S[f]]
  BY DEF Node!get_needed_filters, Node!Fifos
<1> HIDE DEF S, N, read, write
<1>7. CASE n.eof_state = Node!Filters
  <2>1. /\ Node!NothingBut("READ", "level")["READ"] = "level" /\ Node!NothingBut("READ", "level")["WRITE"] = "none"
        /\ Node!NothingBut("WRITE", "level")["READ"] = "none" /\ Node!NothingBut("WRITE", "level")["WRITE"] = "level"
    BY <1>1 DEF Node!NothingBut
  <2>2. "READ" \in n.eof_state
    BY <1>1, <1>7
  <2>3. N["READ"] = (IF Node!EdgeTriggered(n) /\ S["READ"] # "none" THEN "clear" ELSE S["READ"])
        /\ N["WRITE"] = (IF Node!EdgeTriggered(n) /\ S["WRITE"] # "none" THEN "clear" ELSE S["WRITE"])
    BY <1>1, <1>6
  <2>4. IF "IN" \in n.events \/ "RDHUP" \in n.events \/ "OUT" \notin n.events
        THEN N["READ"] = Used(n) /\ N["WRITE"] = "none"
        ELSE N["READ"] = "none" /\ N["WRITE"] = Used(n)
    BY <1>2, <1>3, <1>4, <1>7, <2>1, <2>2, <2>3 DEF Used
  <2> QED
    BY <1>7, <2>4 DEF N
<1>8. CASE n.eof_state # Node!Filters
  <2>1. N["READ"] = (IF Node!EdgeTriggered(n) /\ S["READ"] # "none" THEN "clear" ELSE S["READ"])
        /\ N["WRITE"] = (IF Node!EdgeTriggered(n) /\ S["WRITE"] # "none" THEN "clear" ELSE S["WRITE"])
    BY <1>1, <1>6
  <2>2. /\ N["READ"] = IF "IN" \in n.events THEN Used(n)
                       ELSE IF "RDHUP" \in n.events THEN Watched(n, "READ" \in n.eof_state)
                       ELSE IF n.eof_state = {"WRITE"} \/ (n.eof_state = {} /\ "OUT" \notin n.events)
                       THEN "clear" ELSE "none"
        /\ N["WRITE"] = IF "OUT" \in n.events THEN Used(n)
                        ELSE IF n.eof_state = {"READ"} THEN "clear" ELSE "none"
    BY <1>2, <1>3, <1>5, <1>8, <2>1 DEF Used, Watched
  <2> QED
    BY <1>8, <2>2 DEF N
<1> QED
  BY <1>7, <1>8

LEMMA FifoNeeds ==
  ASSUME NEW n \in NodeRecords, file.kind \in Node!Fifos
  PROVE  LET N == Node!get_needed_filters(n) IN
         /\ file.kind = "in" =>
              /\ N["READ"] = IF "IN" \in n.events THEN Used(n) ELSE Watched(n, n.eof_state # {})
              /\ N["WRITE"] = "none"
         /\ file.kind = "out" =>
              /\ N["READ"] = "none"
              /\ N["WRITE"] = IF "OUT" \in n.events THEN Used(n) ELSE Watched(n, n.eof_state # {})
         /\ file.kind = "inout" =>
              /\ N["READ"] = IF "IN" \in n.events THEN Used(n)
                             ELSE IF n.events = {} THEN Watched(n, n.eof_state # {}) ELSE "none"
              /\ N["WRITE"] = IF "OUT" \in n.events THEN Used(n) ELSE "none"
<1> DEFINE S == Node!FifoFilters(n)
           N == Node!get_needed_filters(n)
<1>1. /\ "READ" \in Node!Filters /\ "WRITE" \in Node!Filters /\ Node!Filters = {"READ", "WRITE"}
      /\ Node!Readiness["READ"] = "IN" /\ Node!Readiness["WRITE"] = "OUT" /\ "READ" # "WRITE"
  BY DEF Node!Filters, Node!Readiness
<1>2. /\ Node!Level(n)["READ"] = IF "IN" \in n.events THEN "level" ELSE "none"
      /\ Node!Level(n)["WRITE"] = IF "OUT" \in n.events THEN "level" ELSE "none"
  BY <1>1 DEF Node!Level
<1>3. N = [f \in Node!Filters |-> IF Node!EdgeTriggered(n) /\ S[f] # "none" THEN "clear" ELSE S[f]]
  BY DEF Node!get_needed_filters, Node!Fifos
<1>4. /\ N["READ"] = (IF Node!EdgeTriggered(n) /\ S["READ"] # "none" THEN "clear" ELSE S["READ"])
      /\ N["WRITE"] = (IF Node!EdgeTriggered(n) /\ S["WRITE"] # "none" THEN "clear" ELSE S["WRITE"])
  BY <1>1, <1>3
<1> HIDE DEF N
<1>5. CASE file.kind = "in"
  <2>1. /\ S["READ"] = IF "IN" \in n.events THEN "level" ELSE Node!Watch(n.eof_state # {})
        /\ S["WRITE"] = "none"
    BY <1>1, <1>2, <1>5 DEF Node!FifoFilters
  <2> HIDE DEF S
  <2>2. N["READ"] = (IF "IN" \in n.events THEN Used(n) ELSE Watched(n, n.eof_state # {})) /\ N["WRITE"] = "none"
    BY <1>4, <2>1 DEF Used, Watched, Node!Watch
  <2> QED
    BY <1>5, <2>2 DEF N
<1>6. CASE file.kind = "out"
  <2>1. /\ S["WRITE"] = IF "OUT" \in n.events THEN "level" ELSE Node!Watch(n.eof_state # {})
        /\ S["READ"] = "none"
    BY <1>1, <1>2, <1>6 DEF Node!FifoFilters
  <2> HIDE DEF S
  <2>2. N["WRITE"] = (IF "OUT" \in n.events THEN Used(n) ELSE Watched(n, n.eof_state # {})) /\ N["READ"] = "none"
    BY <1>4, <2>1 DEF Used, Watched, Node!Watch
  <2> QED
    BY <1>6, <2>2 DEF N
<1>7. CASE file.kind = "inout"
  <2>1. /\ S["READ"] = (IF "IN" \in n.events THEN "level"
                        ELSE IF n.events = {} THEN Node!Watch(n.eof_state # {}) ELSE "none")
        /\ S["WRITE"] = IF "OUT" \in n.events THEN "level" ELSE "none"
    BY <1>1, <1>2, <1>7 DEF Node!FifoFilters
  <2> HIDE DEF S
  <2>2. /\ N["READ"] = (IF "IN" \in n.events THEN Used(n)
                        ELSE IF n.events = {} THEN Watched(n, n.eof_state # {}) ELSE "none")
        /\ N["WRITE"] = IF "OUT" \in n.events THEN Used(n) ELSE "none"
    BY <1>4, <2>1 DEF Used, Watched, Node!Watch
  <2> QED
    BY <1>7, <2>2 DEF N
<1> QED
  BY <1>5, <1>6, <1>7 DEF Node!Fifos

LEMMA OtherNeeds ==
  ASSUME NEW n \in NodeRecords, file.kind \notin Node!Fifos \cup {"socket"}
  PROVE  LET N == Node!get_needed_filters(n) IN
         /\ n.events = {} => N["READ"] = Watched(n, n.eof_state # {}) /\ N["WRITE"] = "none"
         /\ n.events # {} => /\ N["READ"] = IF "IN" \in n.events THEN Used(n) ELSE "none"
                             /\ N["WRITE"] = IF "OUT" \in n.events THEN Used(n) ELSE "none"
<1> DEFINE S == Node!OtherFilters(n)
           N == Node!get_needed_filters(n)
<1>1. /\ "READ" \in Node!Filters /\ "WRITE" \in Node!Filters /\ Node!Filters = {"READ", "WRITE"}
      /\ Node!Readiness["READ"] = "IN" /\ Node!Readiness["WRITE"] = "OUT" /\ "READ" # "WRITE"
  BY DEF Node!Filters, Node!Readiness
<1>2. /\ Node!Level(n)["READ"] = IF "IN" \in n.events THEN "level" ELSE "none"
      /\ Node!Level(n)["WRITE"] = IF "OUT" \in n.events THEN "level" ELSE "none"
  BY <1>1 DEF Node!Level
<1>3. N = [f \in Node!Filters |-> IF Node!EdgeTriggered(n) /\ S[f] # "none" THEN "clear" ELSE S[f]]
  BY DEF Node!get_needed_filters, Node!Fifos
<1>4. /\ N["READ"] = (IF Node!EdgeTriggered(n) /\ S["READ"] # "none" THEN "clear" ELSE S["READ"])
      /\ N["WRITE"] = (IF Node!EdgeTriggered(n) /\ S["WRITE"] # "none" THEN "clear" ELSE S["WRITE"])
  BY <1>1, <1>3
<1>5. /\ n.events = {} => S["READ"] = Node!Watch(n.eof_state # {}) /\ S["WRITE"] = "none"
      /\ n.events # {} => S = Node!Level(n)
  BY <1>1 DEF Node!OtherFilters, Node!NothingBut
<1> HIDE DEF N, S
<1>6. /\ n.events = {} => N["READ"] = Watched(n, n.eof_state # {}) /\ N["WRITE"] = "none"
      /\ n.events # {} => /\ N["READ"] = IF "IN" \in n.events THEN Used(n) ELSE "none"
                          /\ N["WRITE"] = IF "OUT" \in n.events THEN Used(n) ELSE "none"
  BY <1>2, <1>4, <1>5 DEF Used, Watched, Node!Watch
<1> QED
  BY <1>6 DEF N

Over(fl) == fl.kind = "socket" /\ fl.ended = Node!Filters

\* The filters by which an event comes up.
Carriers(e) ==
  CASE e \in {"IN", "RDHUP"} -> {"READ"} [] e = "OUT" -> {"WRITE"} [] OTHER -> Node!Filters

LEMMA CarriersAre ==
  /\ Carriers("IN") = {"READ"} /\ Carriers("RDHUP") = {"READ"} /\ Carriers("OUT") = {"WRITE"}
  /\ Carriers("HUP") = {"READ", "WRITE"} /\ Carriers("ERR") = {"READ", "WRITE"}
BY DEF Carriers, Node!Filters

LEMMA FiltersAre ==
  /\ Node!Filters = {"READ", "WRITE"} /\ "READ" # "WRITE"
  /\ Node!Readiness["READ"] = "IN" /\ Node!Readiness["WRITE"] = "OUT"
BY DEF Node!Filters, Node!Readiness

\* What is known of the ends of a socket is one of four.
LEMMA EndsAre ==
  ASSUME NEW ended \in SUBSET Node!Filters
  PROVE  ended \in {{}, {"READ"}, {"WRITE"}, Node!Filters}
BY DEF Node!Filters

LEMMA HowIs ==
  ASSUME NEW n
  PROVE  /\ Used(n) \in {"level", "clear"} /\ (Node!EdgeTriggered(n) <=> Used(n) = "clear")
         /\ \A ended : /\ Watched(n, ended) \in {"level", "clear"}
                       /\ Node!EdgeTriggered(n) => Watched(n, ended) = "clear"
                       /\ ended /\ ~Node!EdgeTriggered(n) => Watched(n, ended) = "level"
BY DEF Used, Watched

\* A descriptor for which the filter of an event is registered is told of the event.
LEMMA Shows ==
  ASSUME NEW n \in NodeRecords, NEW fl, FileOk(fl), fl.kind = file.kind,
         file.kind # "socket" => "RDHUP" \notin n.events,
         file.kind = "socket" => n.eof_state \subseteq fl.ended,
         NEW e \in Node!Events(fl), e \in Node!Asked(n)
  PROVE  \E f \in Node!Filters :
           /\ Node!get_needed_filters(n)[f] # "none" /\ Node!Occurs(f, fl)
           /\ f \in Carriers(e) \/ Over(fl)
           /\ Node!get_needed_filters(n)[f] = "level" \/ f \in fl.ended \/ Node!EdgeTriggered(n)
<1> DEFINE N == Node!get_needed_filters(n)
           Shown(f) == /\ N[f] # "none" /\ Node!Occurs(f, fl) /\ (f \in Carriers(e) \/ Over(fl))
                       /\ N[f] = "level" \/ f \in fl.ended \/ Node!EdgeTriggered(n)
<1> SUFFICES Shown("READ") \/ Shown("WRITE")
  BY FiltersAre
<1>1. /\ fl \in FileRecords /\ fl.ended \subseteq Node!Filters
      /\ n.eof_state \in {{}, {"READ"}, {"WRITE"}, Node!Filters} /\ n.events \subseteq Bits
  BY EndsAre DEF FileOk, FileRecords, NodeRecords
<1>2. /\ Used(n) \in {"level", "clear"} /\ (Node!EdgeTriggered(n) <=> Used(n) = "clear")
      /\ \A ended : Watched(n, ended) \in {"level", "clear"}
  BY HowIs
<1>3. e \in n.events \/ e = "HUP" \/ e = "ERR"
  BY DEF Node!Asked
<1>4. /\ Node!Occurs("READ", fl) <=> "READ" \in fl.ended \/ fl.data
      /\ Node!Occurs("WRITE", fl) <=> "WRITE" \in fl.ended \/ fl.room
  BY DEF Node!Occurs
<1>5. CASE file.kind = "socket"
  <2>1. \/ e = "IN" /\ (fl.data \/ "READ" \in fl.ended)
        \/ e = "RDHUP" /\ "READ" \in fl.ended
        \/ e = "OUT" /\ (fl.room \/ "WRITE" \in fl.ended)
        \/ (e = "HUP" \/ e = "ERR") /\ fl.ended = Node!Filters
    BY <1>1, <1>5, EventsOf DEF FileOk
  <2>2. CASE n.eof_state = Node!Filters
    <3>1. Over(fl) /\ Node!Occurs("READ", fl) /\ Node!Occurs("WRITE", fl)
          /\ "READ" \in fl.ended /\ "WRITE" \in fl.ended
      BY <1>1, <1>4, <1>5, <2>2, FiltersAre DEF Over
    <3>2. (N["READ"] = Used(n) /\ N["WRITE"] = "none") \/ (N["READ"] = "none" /\ N["WRITE"] = Used(n))
      BY <1>5, <2>2, SocketNeeds
    <3> HIDE DEF N
    <3> QED
      BY <1>2, <3>1, <3>2
  <2>3. CASE n.eof_state # Node!Filters
    <3>1. /\ N["READ"] = IF "IN" \in n.events THEN Used(n)
                       ELSE IF "RDHUP" \in n.events THEN Watched(n, "READ" \in n.eof_state)
                       ELSE IF n.eof_state = {"WRITE"} \/ (n.eof_state = {} /\ "OUT" \notin n.events)
                       THEN "clear" ELSE "none"
          /\ N["WRITE"] = IF "OUT" \in n.events THEN Used(n)
                          ELSE IF n.eof_state = {"READ"} THEN "clear" ELSE "none"
      BY <1>5, <2>3, SocketNeeds
    <3> HIDE DEF N
    <3>2. CASE e = "IN"
      BY <1>2, <1>3, <1>4, <2>1, <3>1, <3>2, CarriersAre
    <3>3. CASE e = "OUT"
      BY <1>2, <1>3, <1>4, <2>1, <3>1, <3>3, CarriersAre
    <3>4. CASE e = "RDHUP"
      <4>1. N["READ"] # "none"
        BY <1>2, <1>3, <2>1, <3>1, <3>4
      <4> QED
        BY <1>4, <2>1, <3>4, <4>1, CarriersAre
    <3>5. CASE e = "HUP" \/ e = "ERR"
      <4>1. fl.ended = Node!Filters /\ "READ" \in fl.ended /\ "WRITE" \in fl.ended /\ Over(fl)
        BY <1>5, <2>1, <3>5, FiltersAre DEF Over
      <4>2. n.eof_state \in {{}, {"READ"}, {"WRITE"}}
        BY <1>1, <2>3
      <4>3. N["READ"] # "none" \/ N["WRITE"] # "none"
        BY <1>2, <3>1, <4>2
      <4> QED
        BY <1>4, <4>1, <4>3
    <3> QED
      BY <2>1, <3>2, <3>3, <3>4, <3>5
  <2> QED
    BY <2>2, <2>3
<1>6. CASE file.kind \in Node!Fifos
  <2>1. \/ e = "IN" /\ fl.data
        \/ e = "HUP" /\ "READ" \in fl.ended
        \/ e = "OUT" /\ fl.room
        \/ e = "ERR" /\ "WRITE" \in fl.ended
    BY <1>1, <1>6, EventsOf
  <2>2. CASE file.kind = "in"
    <3>1. ~fl.room /\ "WRITE" \notin fl.ended
      BY <2>2 DEF FileOk
    <3>2. N["READ"] = IF "IN" \in n.events THEN Used(n) ELSE Watched(n, n.eof_state # {})
      BY <1>6, <2>2, FifoNeeds
    <3> HIDE DEF N
    <3> QED
      BY <1>2, <1>3, <1>4, <2>1, <3>1, <3>2, CarriersAre
  <2>3. CASE file.kind = "out"
    <3>1. ~fl.data /\ "READ" \notin fl.ended
      BY <2>3 DEF FileOk
    <3>2. N["WRITE"] = IF "OUT" \in n.events THEN Used(n) ELSE Watched(n, n.eof_state # {})
      BY <1>6, <2>3, FifoNeeds
    <3> HIDE DEF N
    <3> QED
      BY <1>2, <1>3, <1>4, <2>1, <3>1, <3>2, CarriersAre
  <2>4. CASE file.kind = "inout"
    <3>1. "READ" \notin fl.ended /\ "WRITE" \notin fl.ended
      BY <2>4 DEF FileOk
    <3>2. /\ "IN" \in n.events => N["READ"] = Used(n)
          /\ "OUT" \in n.events => N["WRITE"] = Used(n)
      BY <1>6, <2>4, FifoNeeds
    <3> HIDE DEF N
    <3> QED
      BY <1>2, <1>3, <1>4, <2>1, <3>1, <3>2, CarriersAre
  <2> QED
    BY <1>6, <2>2, <2>3, <2>4 DEF Node!Fifos
<1>7. CASE file.kind \notin Node!Fifos \cup {"socket"}
  <2>1. \/ e = "IN" /\ (fl.data \/ fl.ended # {})
        \/ e = "OUT" /\ (fl.room \/ fl.ended # {})
        \/ e = "HUP" /\ fl.ended # {}
    BY <1>1, <1>7, EventsOf
  <2>2. fl.ended # {} => "READ" \in fl.ended /\ "WRITE" \in fl.ended
    BY <1>7, FiltersAre DEF FileOk
  <2>3. /\ n.events = {} => N["READ"] = Watched(n, n.eof_state # {})
        /\ n.events # {} => /\ N["READ"] = IF "IN" \in n.events THEN Used(n) ELSE "none"
                            /\ N["WRITE"] = IF "OUT" \in n.events THEN Used(n) ELSE "none"
    BY <1>7, OtherNeeds
  <2>4. n.events = {} \/ "IN" \in n.events \/ "OUT" \in n.events
    BY <1>1, <1>7 DEF Bits
  <2> HIDE DEF N
  <2> QED
    BY <1>2, <1>3, <1>4, <2>1, <2>2, <2>3, <2>4, CarriersAre
<1> QED
  BY <1>5, <1>6, <1>7

\* A filter that only looks out for an end is not registered for an end that is known.
LEMMA LevelUnknown ==
  ASSUME NEW n \in NodeRecords, ~Node!EdgeTriggered(n), NEW f \in Node!Filters,
         Node!get_needed_filters(n)[f] = "clear"
  PROVE  IF file.kind = "socket" THEN f \notin n.eof_state ELSE n.eof_state = {}
<1>1. Used(n) = "level" /\ \A ended : ended => Watched(n, ended) = "level"
  BY HowIs
<1>2. n.eof_state \in {{}, {"READ"}, {"WRITE"}, Node!Filters} /\ f \in {"READ", "WRITE"}
  BY EndsAre, FiltersAre DEF NodeRecords
<1>3. CASE file.kind = "socket" /\ n.eof_state = Node!Filters
  BY <1>1, <1>2, <1>3, SocketNeeds
<1>4. CASE file.kind = "socket" /\ n.eof_state # Node!Filters
  BY <1>1, <1>2, <1>4, SocketNeeds
<1>5. CASE file.kind \in Node!Fifos
  BY <1>1, <1>2, <1>5, FifoNeeds DEF Node!Fifos
<1>6. CASE file.kind \notin Node!Fifos \cup {"socket"}
  BY <1>1, <1>2, <1>6, OtherNeeds
<1> QED
  BY <1>3, <1>4, <1>5, <1>6 DEF Node!Fifos

LEMMA EdgeNeeds ==
  ASSUME NEW n, Node!EdgeTriggered(n), NEW f \in Node!Filters
  PROVE  Node!get_needed_filters(n)[f] \in {"none", "clear"}
BY NeededType DEF Node!get_needed_filters

\* One filter is registered always, even if only a hang-up is waited for.
LEMMA OneNeeded ==
  ASSUME NEW n \in NodeRecords, file.kind # "socket" => "RDHUP" \notin n.events
  PROVE  \E f \in Node!Filters : Node!get_needed_filters(n)[f] # "none"
<1> DEFINE N == Node!get_needed_filters(n)
<1> SUFFICES N["READ"] # "none" \/ N["WRITE"] # "none"
  BY FiltersAre
<1>1. Used(n) \in {"level", "clear"} /\ \A ended : Watched(n, ended) \in {"level", "clear"}
  BY HowIs
<1>2. n.eof_state \in {{}, {"READ"}, {"WRITE"}, Node!Filters} /\ n.events \subseteq Bits
  BY EndsAre DEF NodeRecords
<1>3. CASE file.kind = "socket" /\ n.eof_state = Node!Filters
  BY <1>1, <1>2, <1>3, SocketNeeds
<1>4. CASE file.kind = "socket" /\ n.eof_state # Node!Filters
  BY <1>1, <1>2, <1>4, SocketNeeds
<1>5. CASE file.kind \in Node!Fifos
  <2>1. n.events = {} \/ "IN" \in n.events \/ "OUT" \in n.events
    BY <1>2, <1>5 DEF Bits, Node!Fifos
  <2> QED
    BY <1>1, <1>5, <2>1, FifoNeeds DEF Node!Fifos
<1>6. CASE file.kind \notin Node!Fifos \cup {"socket"}
  <2>1. n.events = {} \/ "IN" \in n.events \/ "OUT" \in n.events
    BY <1>2, <1>6 DEF Bits
  <2> QED
    BY <1>1, <1>6, <2>1, OtherNeeds
<1> QED
  BY <1>3, <1>4, <1>5, <1>6

LEMMA FifoSide ==
  ASSUME NEW n \in NodeRecords
  PROVE  LET N == Node!get_needed_filters(n) IN
         /\ file.kind = "in" => N["READ"] # "none" /\ N["WRITE"] = "none"
         /\ file.kind = "out" => N["READ"] = "none" /\ N["WRITE"] # "none"
<1>1. Used(n) \in {"level", "clear"} /\ \A ended : Watched(n, ended) \in {"level", "clear"}
  BY HowIs
<1>2. CASE file.kind = "in"
  BY <1>1, <1>2, FifoNeeds DEF Node!Fifos
<1>3. CASE file.kind = "out"
  BY <1>1, <1>3, FifoNeeds DEF Node!Fifos
<1> QED
  BY <1>2, <1>3

\* When one direction of a socket has ended, the other is looked at.
LEMMA OtherEnd ==
  ASSUME NEW n \in NodeRecords, file.kind = "socket", NEW f \in Node!Filters, n.eof_state = {f},
         NEW g \in Node!Filters, g # f
  PROVE  Node!get_needed_filters(n)[g] # "none"
<1>1. Used(n) \in {"level", "clear"} /\ \A ended : Watched(n, ended) \in {"level", "clear"}
  BY HowIs
<1>2. n.eof_state # Node!Filters /\ ((f = "READ" /\ g = "WRITE") \/ (f = "WRITE" /\ g = "READ"))
  BY FiltersAre
<1> QED
  BY <1>1, <1>2, SocketNeeds

LEMMA AskedNeeded ==
  ASSUME NEW n \in NodeRecords, file.kind = "socket", n.eof_state # Node!Filters
  PROVE  /\ "IN" \in n.events \/ "RDHUP" \in n.events => Node!get_needed_filters(n)["READ"] # "none"
         /\ "OUT" \in n.events => Node!get_needed_filters(n)["WRITE"] # "none"
<1>1. Used(n) \in {"level", "clear"} /\ \A ended : Watched(n, ended) \in {"level", "clear"}
  BY HowIs
<1> QED
  BY <1>1, SocketNeeds

\* Two filters that are needed before an end is known are needed when one is.
LEMMA BothNeeded ==
  ASSUME NEW n \in NodeRecords, NEW m \in NodeRecords, file.kind = "socket",
         m.events = n.events, n.eof_state = {}, m.eof_state # Node!Filters,
         \A f \in Node!Filters : Node!get_needed_filters(n)[f] # "none"
  PROVE  \A f \in Node!Filters : Node!get_needed_filters(m)[f] # "none"
<1>1. n.eof_state # Node!Filters
  BY FiltersAre
<1>2. Node!get_needed_filters(n)["READ"] # "none" /\ Node!get_needed_filters(n)["WRITE"] # "none"
  BY FiltersAre
<1>3. "OUT" \in n.events
  BY <1>1, <1>2, SocketNeeds
<1>4. "IN" \in n.events \/ "RDHUP" \in n.events
  BY <1>1, <1>2, <1>3, SocketNeeds
<1>5. Node!get_needed_filters(m)["READ"] # "none" /\ Node!get_needed_filters(m)["WRITE"] # "none"
  BY <1>3, <1>4, AskedNeeded
<1> QED
  BY <1>5, FiltersAre

\* An edge-triggered node of another file needs what it needs whatever has ended.
LEMMA EdgeIndependent ==
  ASSUME NEW n \in NodeRecords, NEW m \in NodeRecords, file.kind # "socket",
         Node!EdgeTriggered(n), m.mode = n.mode, m.events = n.events
  PROVE  Node!get_needed_filters(m) = Node!get_needed_filters(n)
<1> DEFINE N == Node!get_needed_filters(n)
           M == Node!get_needed_filters(m)
<1>1. /\ Node!EdgeTriggered(m) /\ Used(n) = "clear" /\ Used(m) = "clear"
      /\ \A ended : Watched(n, ended) = "clear" /\ Watched(m, ended) = "clear"
  BY HowIs DEF Node!EdgeTriggered
<1>2. CASE file.kind \in Node!Fifos
  <2>1. M["READ"] = N["READ"]
    BY <1>1, <1>2, FifoNeeds DEF Node!Fifos
  <2>2. M["WRITE"] = N["WRITE"]
    BY <1>1, <1>2, FifoNeeds DEF Node!Fifos
  <2> QED
    BY <2>1, <2>2, NeededType, FiltersAre
<1>3. CASE file.kind \notin Node!Fifos
  <2>1. M["READ"] = N["READ"] /\ M["WRITE"] = N["WRITE"]
    BY <1>1, <1>3, OtherNeeds
  <2> QED
    BY <2>1, NeededType, FiltersAre
<1> QED
  BY <1>2, <1>3
-----------------------------------------------------------------------------
(* Level triggering *)

\* A filter is registered as it is needed.
Matches(k, needed) == IF needed = "clear" THEN k \in {"clear", "fired"} ELSE k = needed

\* The write filter of a FIFO that nobody read when it was registered.
Refused == file.kind = "out" /\ knote["WRITE"] = "none"

\* An event that is retrieved and not fed yet says that this direction has ended.
EndComes(f) == \E kev \in kevs : kev # Node!UserEvent /\ kev.filter = f /\ kev.eof

AsNeeded == \A f \in Node!Filters :
              ~(Refused /\ f = "WRITE") => Matches(knote[f], Node!get_needed_filters(node)[f])
OwnActive == Refused => user \/ Node!UserEvent \in kevs
EndsSeen == \A f \in Node!Filters : knote[f] = "clear" /\ f \in file.ended => EndComes(f)

LevelInv == node.mode = "level" => AsNeeded /\ OwnActive /\ EndsSeen

\* What is needed depends on the file's kind only.
LEMMA NeededKeeps ==
  ASSUME file'.kind = file.kind, NEW n, node' = n
  PROVE  Node!get_needed_filters(node)' = Node!get_needed_filters(n)
BY DEF Node!get_needed_filters, Node!SocketFilters, Node!FifoFilters, Node!OtherFilters, Node!Level,
       Node!EdgeTriggered

\* The filters after registering.
Added(n) ==
  /\ node' = n /\ user' = FALSE
  /\ \A f \in Node!Filters : knote'[f] = Node!Knote(f, Node!get_needed_filters(n)[f])
RefusedAnew(n) ==
  /\ file.kind = "out" /\ file.ended # {} /\ node' = [n EXCEPT !.eof_state = Node!Filters]
  /\ user' = TRUE /\ \A f \in Node!Filters : knote'[f] = "none"

LEMMA RegisteringIs ==
  ASSUME NEW n \in NodeRecords, Node!register_events(n)
  PROVE  Added(n) \/ RefusedAnew(n)
<1> DEFINE N == Node!get_needed_filters(n)
           epipe == N["WRITE"] # "none" /\ file.kind = "out" /\ file.ended # {}
<1>1. /\ node' = IF epipe THEN [n EXCEPT !.eof_state = Node!Filters] ELSE n
      /\ knote' = [f \in Node!Filters |-> IF f = "WRITE" /\ epipe THEN "none" ELSE Node!Knote(f, N[f])]
      /\ user' = epipe
  BY DEF Node!register_events
<1>2. CASE ~epipe
  BY <1>1, <1>2 DEF Added
<1>3. CASE epipe
  <2>1. N["READ"] = "none"
    BY <1>3, FifoSide
  <2>2. Node!Knote("READ", N["READ"]) = "none"
    BY <2>1 DEF Node!Knote
  <2>3. knote'["READ"] = "none" /\ knote'["WRITE"] = "none"
    BY <1>1, <1>3, <2>2, FiltersAre
  <2> QED
    BY <1>1, <1>3, <2>3, FiltersAre DEF RefusedAnew
<1> QED
  BY <1>2, <1>3

LEMMA KnoteIs ==
  ASSUME NEW f, NEW how \in {"none", "level", "clear"}
  PROVE  /\ Matches(Node!Knote(f, how), how) /\ (Node!Knote(f, how) = "none" <=> how = "none")
         /\ Node!Knote(f, how) = "clear" => ~Node!Occurs(f, file)
         /\ Node!Knote(f, how) = "fired" => Node!Occurs(f, file)
         /\ how = "clear" /\ Node!Occurs(f, file) => Node!Knote(f, how) = "fired"
         /\ how # "level" => Node!Knote(f, how) # "level"
BY DEF Node!Knote, Matches

\* A level-triggered node that is registered anew.
LEMMA RegisterLevel ==
  ASSUME NEW n \in NodeRecords, n.mode = "level", Node!register_events(n), UNCHANGED file
  PROVE  LevelInv'
<1>1. CASE Added(n)
  <2>1. Node!get_needed_filters(node)' = Node!get_needed_filters(n)
    BY <1>1, NeededKeeps DEF Added
  <2>2. \A f \in Node!Filters : Node!get_needed_filters(n)[f] \in {"none", "level", "clear"}
    BY NeededType
  <2>3. AsNeeded'
    BY <1>1, <2>1, <2>2, KnoteIs DEF AsNeeded, Added
  <2>4. ~Refused'
    <3>1. file.kind = "out" => knote'["WRITE"] # "none"
      BY <1>1, <2>2, FifoSide, FiltersAre, KnoteIs DEF Added
    <3> QED
      BY <3>1 DEF Refused
  <2>5. EndsSeen'
    <3>1. \A f \in Node!Filters : knote'[f] = "clear" => f \notin file.ended
      BY <1>1, <2>2, KnoteIs DEF Added, Node!Occurs
    <3> QED
      BY <3>1 DEF EndsSeen
  <2> QED
    BY <2>3, <2>4, <2>5 DEF LevelInv, OwnActive
<1>2. CASE RefusedAnew(n)
  <2>1. file'.kind = "out" /\ user' /\ \A f \in Node!Filters : knote'[f] = "none"
    BY <1>2 DEF RefusedAnew
  <2>2. node' = [n EXCEPT !.eof_state = Node!Filters]
    BY <1>2 DEF RefusedAnew
  <2>3. PICK m : m = node'
    OBVIOUS
  <2>4. m \in NodeRecords
    BY <2>2, <2>3 DEF NodeRecords
  <2>5. Node!get_needed_filters(m)["READ"] = "none" /\ Node!get_needed_filters(node)' = Node!get_needed_filters(m)
    BY <2>1, <2>3, <2>4, FifoSide, NeededKeeps
  <2>6. AsNeeded'
    BY <2>1, <2>5, FiltersAre DEF AsNeeded, Refused, Matches
  <2> QED
    BY <2>1, <2>6 DEF LevelInv, OwnActive, EndsSeen
<1> QED
  BY <1>1, <1>2, RegisteringIs

\* Between the calls of epoll_wait a level-triggered node is active if it has an event.
LEMMA LevelReadable ==
  ASSUME NodeBasics, LevelInv, node.mode = "level", kevs = {},
         NEW e \in Node!Events(file), e \in Node!Asked(node)
  PROVE  Node!KqReadable
<1> DEFINE N == Node!get_needed_filters(node)
<1>1. /\ node \in NodeRecords /\ FileOk(file) /\ ~Node!EdgeTriggered(node)
      /\ file.kind # "socket" => "RDHUP" \notin node.events
      /\ file.kind = "socket" => node.eof_state \subseteq file.ended
  BY DEF NodeBasics, NodeTypes, Known, Node!EdgeTriggered
<1>2. PICK f \in Node!Filters : N[f] # "none" /\ Node!Occurs(f, file) /\ (N[f] = "level" \/ f \in file.ended)
  BY <1>1, Shows
<1>3. AsNeeded /\ OwnActive /\ EndsSeen
  BY DEF LevelInv
<1> HIDE DEF N
<1>4. CASE Refused
  BY <1>3, <1>4 DEF OwnActive, Node!KqReadable
<1>5. CASE ~Refused
  <2>1. Matches(knote[f], N[f])
    BY <1>3, <1>5 DEF AsNeeded, N
  <2>2. knote[f] = "clear" => f \notin file.ended
    BY <1>3 DEF EndsSeen, EndComes
  <2>3. N[f] \in {"level", "clear"}
    BY <1>2, NeededType DEF N
  <2>4. knote[f] \in {"level", "fired"}
    BY <1>2, <2>1, <2>2, <2>3 DEF Matches
  <2> QED
    BY <1>2, <2>4 DEF Node!Active, Node!KqReadable
<1> QED
  BY <1>4, <1>5

LEMMA ChangesLevel ==
  ASSUME NodeBasics, LevelInv, NEW fl, NEW fs, NEW es, Node!Changes(fl, fs, es), Wakes(fl, fs, es)
  PROVE  LevelInv'
<1>1. /\ file' = fl /\ UNCHANGED <<node, user, kevs>>
      /\ knote' = [f \in Node!Filters |-> IF f \in fs /\ knote[f] = "clear" THEN "fired" ELSE knote[f]]
      /\ file'.kind = file.kind /\ fl.ended \ file.ended \subseteq fs
  BY DEF Node!Changes, Node!passvars, Wakes, Follows
<1>2. PICK n : n = node
  OBVIOUS
<1>3. Node!get_needed_filters(node)' = Node!get_needed_filters(n)
  BY <1>1, <1>2, NeededKeeps
<1> SUFFICES ASSUME node.mode = "level" PROVE (AsNeeded /\ OwnActive /\ EndsSeen)'
  BY <1>1 DEF LevelInv
<1>4. AsNeeded /\ OwnActive /\ EndsSeen
  BY DEF LevelInv
<1>5. Refused' <=> Refused
  BY <1>1, FiltersAre DEF Refused
<1>6. AsNeeded'
  <2>1. ASSUME NEW f \in Node!Filters, ~(Refused /\ f = "WRITE")
        PROVE  Matches(knote'[f], Node!get_needed_filters(n)[f])
    <3>1. Matches(knote[f], Node!get_needed_filters(n)[f])
      BY <1>2, <1>4, <2>1 DEF AsNeeded
    <3> QED
      BY <1>1, <3>1, NeededType DEF Matches
  <2> QED
    BY <1>3, <1>5, <2>1 DEF AsNeeded
<1>7. OwnActive'
  BY <1>1, <1>4, <1>5 DEF OwnActive
<1>8. EndsSeen'
  <2>1. \A f : EndComes(f) => EndComes(f)'
    BY <1>1 DEF EndComes
  <2>2. \A f \in Node!Filters : knote'[f] = "clear" /\ f \in file'.ended => EndComes(f)
    BY <1>1, <1>4 DEF EndsSeen
  <2> QED
    BY <2>1, <2>2 DEF EndsSeen
<1> QED
  BY <1>6, <1>7, <1>8

\* What leaves the node and its filters alone, and drops no event.
LEMMA LevelKept ==
  ASSUME LevelInv, UNCHANGED <<file, node, knote>>, user => user', kevs \subseteq kevs'
  PROVE  LevelInv'
<1>1. PICK n : n = node
  OBVIOUS
<1>2. Node!get_needed_filters(node)' = Node!get_needed_filters(n)
  BY <1>1, NeededKeeps
<1>3. AsNeeded => AsNeeded'
  BY <1>1, <1>2 DEF AsNeeded, Refused
<1>4. OwnActive => OwnActive'
  BY DEF OwnActive, Refused
<1>5. EndsSeen => EndsSeen'
  BY DEF EndsSeen, EndComes
<1> QED
  BY <1>3, <1>4, <1>5 DEF LevelInv

LEMMA RetrievesLevel ==
  ASSUME NodeBasics, LevelInv, Node!Retrieves
  PROVE  LevelInv'
<1>1. /\ kevs = {} /\ user' = FALSE /\ UNCHANGED <<file, node>>
      /\ knote' = [f \in Node!Filters |-> IF knote[f] = "fired" THEN "clear" ELSE knote[f]]
  BY RetrievesIs
<1>2. \A kev : kev \in kevs' <=> \/ kev = Node!UserEvent /\ user
                                 \/ \E f \in Node!Filters : Node!Active(f) /\ kev = Node!Kevent(f)
  BY RetrievesIs
<1>3. PICK n : n = node
  OBVIOUS
<1>4. Node!get_needed_filters(node)' = Node!get_needed_filters(n)
  BY <1>1, <1>3, NeededKeeps
<1> SUFFICES ASSUME node.mode = "level" PROVE (AsNeeded /\ OwnActive /\ EndsSeen)'
  BY <1>1 DEF LevelInv
<1>5. AsNeeded /\ OwnActive /\ EndsSeen
  BY DEF LevelInv
<1>6. Refused' <=> Refused
  BY <1>1, FiltersAre DEF Refused
<1>7. AsNeeded'
  <2>1. ASSUME NEW f \in Node!Filters, ~(Refused /\ f = "WRITE")
        PROVE  Matches(knote'[f], Node!get_needed_filters(n)[f])
    <3>1. Matches(knote[f], Node!get_needed_filters(n)[f])
      BY <1>3, <1>5, <2>1 DEF AsNeeded
    <3> QED
      BY <1>1, <3>1, NeededType DEF Matches
  <2> QED
    BY <1>4, <1>6, <2>1 DEF AsNeeded
<1>8. OwnActive'
  BY <1>1, <1>2, <1>5, <1>6 DEF OwnActive
<1>9. EndsSeen'
  <2>1. ASSUME NEW f \in Node!Filters, knote'[f] = "clear", f \in file.ended
        PROVE  EndComes(f)'
    <3>1. knote[f] = "fired"
      BY <1>1, <1>5, <2>1 DEF EndsSeen, EndComes
    <3>2. Node!Kevent(f) \in kevs'
      BY <1>2, <2>1, <3>1 DEF Node!Active, Node!Occurs
    <3>3. Node!Kevent(f) # Node!UserEvent /\ Node!Kevent(f).filter = f /\ Node!Kevent(f).eof
      BY <2>1, KeventIs, UserIsNone DEF NodeBasics
    <3> QED
      BY <3>2, <3>3 DEF EndComes
  <2> QED
    BY <1>1, <2>1 DEF EndsSeen
<1> QED
  BY <1>7, <1>8, <1>9

LEMMA FeedsLevel ==
  ASSUME NodeBasics, LevelInv, Node!Feeds
  PROVE  LevelInv'
<1>1. at \in {"feed", "complete"} /\ UNCHANGED file
  BY FeedsIs
<1>2. PICK kev \in kevs : kevs' = kevs \ {kev} /\ (FedOwn(kev) \/ FedFilter(kev))
  BY FeedsIs
<1>3. /\ node \in NodeRecords /\ \A k1, k2 \in kevs : k1.filter = k2.filter => k1 = k2
      /\ Node!EdgeTriggered(node) => node.mode # "level"
      /\ at = "complete" => node.mode # "level"
  BY DEF NodeBasics, NodeTypes, PassTypes, Node!EdgeTriggered
<1>4. CASE FedOwn(kev)
  <2> SUFFICES ASSUME node.mode = "level" PROVE (AsNeeded /\ OwnActive /\ EndsSeen)'
    BY <1>4 DEF LevelInv, FedOwn
  <2>1. AsNeeded /\ OwnActive /\ EndsSeen
    BY DEF LevelInv
  <2>2. PICK n : n = node
    OBVIOUS
  <2>3. Node!get_needed_filters(node)' = Node!get_needed_filters(n) /\ UNCHANGED node
    BY <1>1, <1>4, <2>2, NeededKeeps DEF FedOwn
  <2>4. \A f : EndComes(f) => EndComes(f)'
    BY <1>2, <1>4 DEF EndComes, FedOwn
  <2>5. CASE user' = ~Node!EdgeTriggered(node) /\ knote' = knote
    <3>1. user'
      BY <2>5 DEF Node!EdgeTriggered
    <3> QED
      BY <1>1, <2>1, <2>2, <2>3, <2>4, <2>5, <3>1 DEF AsNeeded, OwnActive, EndsSeen, Refused
  <2>6. CASE /\ file.ended = {}
             /\ knote' = [knote EXCEPT !["WRITE"] = Node!Knote("WRITE", Node!get_needed_filters(node)["WRITE"])]
    <3>1. /\ Node!get_needed_filters(n)["WRITE"] \in {"level", "clear"} /\ knote \in Knotes
      BY <1>3, <1>4, <2>2, NeededType, FifoSide, FiltersAre DEF FedOwn, NodeBasics, NodeTypes, Knotes
    <3>2. /\ knote'["WRITE"] = Node!Knote("WRITE", Node!get_needed_filters(n)["WRITE"])
          /\ knote'["READ"] = knote["READ"]
      BY <2>2, <2>6, <3>1, FiltersAre DEF Knotes
    <3>3. knote'["WRITE"] # "none" /\ Matches(knote'["WRITE"], Node!get_needed_filters(n)["WRITE"])
      BY <3>1, <3>2, KnoteIs
    <3>4. Matches(knote["READ"], Node!get_needed_filters(n)["READ"])
      BY <2>1, <2>2, FiltersAre DEF AsNeeded
    <3>5. AsNeeded'
      BY <2>3, <3>2, <3>3, <3>4, FiltersAre DEF AsNeeded
    <3> QED
      BY <1>1, <2>6, <3>3, <3>5 DEF OwnActive, EndsSeen, Refused
  <2> QED
    BY <1>4, <2>5, <2>6 DEF FedOwn
<1>5. CASE FedFilter(kev) /\ Node!register_events(Learnt(kev))
  <2>1. Learnt(kev) \in NodeRecords /\ Learnt(kev).mode = node.mode
    BY <1>5, LearntIs DEF FedFilter
  <2>2. node'.mode = node.mode
    BY <1>5, <2>1, Registering
  <2>3. CASE node.mode = "level"
    BY <1>1, <1>5, <2>1, <2>3, RegisterLevel
  <2>4. CASE node.mode # "level"
    BY <2>2, <2>4 DEF LevelInv
  <2> QED
    BY <2>3, <2>4
<1>6. CASE FedFilter(kev) /\ node' = Learnt(kev) /\ UNCHANGED <<knote, user>> /\ (at = "feed" => NoneAnew(kev))
  <2>1. PICK n : n = Learnt(kev)
    OBVIOUS
  <2>2. /\ kev \in FileEvents /\ n \in NodeRecords /\ n.mode = node.mode /\ node' = n
        /\ n.eof_state = Node!EofState(node, kev)
        /\ file.kind = "socket" => (kev.filter \in n.eof_state <=> kev.eof)
    BY <1>6, <2>1, LearntIs DEF FedFilter
  <2>3. Node!get_needed_filters(node)' = Node!get_needed_filters(n)
    BY <1>1, <2>2, NeededKeeps
  <2> SUFFICES ASSUME node.mode = "level" PROVE (AsNeeded /\ OwnActive /\ EndsSeen)'
    BY <2>2 DEF LevelInv
  <2>4. AsNeeded /\ OwnActive /\ EndsSeen
    BY DEF LevelInv
  <2>5. Node!get_needed_filters(n) = Node!get_needed_filters(node) /\ ~Node!EdgeTriggered(n)
    BY <1>1, <1>3, <1>6, <2>1, <2>2 DEF NoneAnew, Node!EdgeTriggered
  <2>6. AsNeeded'
    BY <1>1, <1>6, <2>3, <2>4, <2>5 DEF AsNeeded, Refused
  <2>7. OwnActive'
    BY <1>1, <1>2, <1>6, <2>2, <2>4, UserIsNone DEF OwnActive, Refused
  <2>8. EndsSeen'
    <3> SUFFICES ASSUME NEW f \in Node!Filters, knote[f] = "clear", f \in file.ended
                 PROVE  EndComes(f)'
      BY <1>1, <1>6 DEF EndsSeen
    <3>1. PICK k \in kevs : k # Node!UserEvent /\ k.filter = f /\ k.eof
      BY <2>4 DEF EndsSeen, EndComes
    <3>2. CASE k = kev
      <4>1. ~(Refused /\ f = "WRITE")
        BY DEF Refused
      <4>2. Matches("clear", Node!get_needed_filters(n)[f])
        BY <2>4, <2>5, <4>1 DEF AsNeeded
      <4>3. Node!get_needed_filters(n)[f] = "clear"
        BY <4>2, NeededType DEF Matches
      <4>4. IF file.kind = "socket" THEN f \notin n.eof_state ELSE n.eof_state = {}
        BY <2>2, <2>5, <4>3, LevelUnknown
      <4>5. file.kind # "socket" => n.eof_state = Node!Filters
        BY <2>2, <3>1, <3>2 DEF Node!EofState
      <4> QED
        BY <2>2, <3>1, <3>2, <4>4, <4>5, FiltersAre
    <3>3. CASE k # kev
      BY <1>2, <3>1, <3>3 DEF EndComes
    <3> QED
      BY <3>2, <3>3
  <2> QED
    BY <2>6, <2>7, <2>8
<1> QED
  BY <1>2, <1>4, <1>5, <1>6 DEF FedFilter

LEMMA LevelInit == Node!Init => LevelInv
BY DEF Node!Init, Node!NoNode, LevelInv

LEMMA LevelStep == NodeBasics /\ LevelInv /\ Node!Next => LevelInv'
<1> SUFFICES ASSUME NodeBasics, LevelInv, Node!Next PROVE LevelInv'
  OBVIOUS
<1>0. FileOk(file)
  BY DEF NodeBasics
<1>1. CASE Node!Environment
  <2>1. ASSUME NEW kind \in Kinds, Node!Opens(kind) PROVE LevelInv'
    <3>1. node.mode = "none" /\ UNCHANGED node
      BY <2>1 DEF NodeBasics, NodeTypes, Node!Opens
    <3> QED
      BY <3>1 DEF LevelInv
  <2> QED
    BY <1>0, <1>1, <2>1, EnvironmentIs, ChangesLevel
<1>2. ASSUME NEW events \in Interests, NEW mode \in {"level", "edge", "oneshot"},
             Node!epoll_ctl_add_mod(events, mode)
      PROVE  LevelInv'
  <2>1. PICK n : n = Node!update_flags(events, mode)
    OBVIOUS
  <2>2. n \in NodeRecords /\ n.mode = mode /\ Node!register_events(n) /\ UNCHANGED file
    BY <1>2, <2>1, UpdateFlags, EventSourcesAssumption DEF Node!epoll_ctl_add_mod, Bits
  <2>3. node'.mode = mode
    BY <2>2, Registering
  <2>4. CASE mode = "level"
    BY <2>2, <2>4, RegisterLevel
  <2>5. CASE mode # "level"
    BY <2>3, <2>5 DEF LevelInv
  <2> QED
    BY <2>4, <2>5
<1>3. CASE Node!epoll_ctl_del
  BY <1>3 DEF Node!epoll_ctl_del, Node!NoNode, LevelInv
<1>4. CASE Node!epoll_wait
  BY <1>4, LevelKept DEF Node!epoll_wait
<1>5. CASE Node!Retrieves
  BY <1>5, RetrievesLevel
<1>6. CASE Node!Feeds
  BY <1>6, FeedsLevel
<1>7. CASE Node!register_for_completion
  <2>1. kevs = {}
    BY <1>7 DEF NodeBasics, PassTypes, Node!register_for_completion
  <2> QED
    BY <1>7, <2>1, LevelKept DEF Node!register_for_completion
<1>8. CASE Node!Reports
  <2>1. CASE node.mode = "oneshot"
    BY <1>8, <2>1 DEF Node!Reports, LevelInv
  <2>2. CASE node.mode # "oneshot"
    BY <1>8, <2>2, LevelKept DEF Node!Reports
  <2> QED
    BY <2>1, <2>2
<1> QED
  BY <1>1, <1>2, <1>3, <1>4, <1>5, <1>6, <1>7, <1>8 DEF Node!Next, Node!Waiting
-----------------------------------------------------------------------------
(* Edge triggering *)

\* A one-shot node that was reported has no filters left.
EdgeOn == Node!EdgeTriggered(node) /\ \E f \in Node!Filters : knote[f] # "none"

\* A kevent that is not fed yet is of a filter that is registered.
OfFilters ==
  Node!EdgeTriggered(node) => \A kev \in kevs : kev # Node!UserEvent => knote[kev.filter] # "none"

\* The filters that are needed are there, but for those of a socket of which all is known.
EdgeFilters ==
  /\ \A f \in Node!Filters : knote[f] # "level"
  /\ \/ file.kind = "socket" /\ node.eof_state = Node!Filters
     \/ \A f \in Node!Filters : knote[f] = "none" <=> Node!get_needed_filters(node)[f] = "none"

\* Where the events of a socket come from that are reported.
EdgeGot ==
  file.kind = "socket" =>
    /\ at = "edge" => got_evfilt # {}
    /\ at = "complete" => \E g \in got_evfilt : \A kev \in kevs : kev.filter # g
    /\ \A g \in got_evfilt : g \in node.eof_state \/ knote[g] # "none"

\* No end of a direction of a socket goes unnoticed.
UpToDate(kev) ==
  \/ knote[kev.filter] = "fired"
  \/ (kev.filter \in file.ended => kev.eof) /\ (kev.eof /\ file.error => kev.error)

EdgeNoticed ==
  file.kind = "socket" =>
    /\ \A f \in Node!Filters :
         knote[f] = "clear" /\ f \in file.ended => f \in node.eof_state \/ EndComes(f)
    /\ \A kev \in kevs : UpToDate(kev)

\* An event a kevent is going to say, or that brings others to say it.
Gives(kev, e) ==
  /\ kev # Node!UserEvent
  /\ \/ e \in {"IN", "OUT"} /\ kev.filter \in Carriers(e) /\ (file.kind \in Node!Fifos /\ kev.eof => kev.some)
     \/ e = "RDHUP" /\ kev.filter = "READ" /\ kev.eof
     \/ e \in {"HUP", "ERR"} /\ kev.eof
     \/ Over(file) /\ kev.eof

Carried(e) ==
  \/ \E f \in Node!Filters : knote[f] = "fired" /\ (f \in Carriers(e) \/ Over(file))
  \/ \E kev \in kevs : Gives(kev, e)

EdgeTold == \A e \in unseen : e \in revents \/ Carried(e)

UnseenThere ==
  /\ unseen \subseteq Node!Events(file) /\ unseen \subseteq Node!Asked(node)
  /\ file.kind = "none" => unseen = {}

GotNone == file.kind \in {"none", "socket"} /\ revents = {} => got_evfilt = {}

EdgeInv ==
  /\ UnseenThere /\ GotNone /\ OfFilters
  /\ node.mode = "edge" /\ file.kind # "out" => EdgeOn
  /\ EdgeOn => EdgeFilters /\ EdgeGot /\ EdgeNoticed /\ EdgeTold

\* A filter that a file's event comes up by has an event, which gives it.
LEMMA FreshGives ==
  ASSUME FileOk(file), NEW f \in Node!Filters, NEW e \in Node!Events(file),
         f \in Carriers(e) \/ Over(file), file.kind = "in" => f = "READ", file.kind = "out" => f = "WRITE"
  PROVE  Node!Occurs(f, file) /\ Gives(Node!Kevent(f), e)
<1>1. PICK kev : kev = Node!Kevent(f)
  OBVIOUS
<1>2. /\ kev.filter = f /\ kev.eof = (f \in file.ended) /\ kev # Node!UserEvent
      /\ kev.some = IF f = "READ" THEN file.data ELSE file.room
  BY <1>1, KeventIs, UserIsNone
<1>3. /\ f \in {"READ", "WRITE"} /\ file \in FileRecords /\ file.ended \subseteq Node!Filters
      /\ Node!Occurs(f, file) <=> f \in file.ended \/ (f = "READ" /\ file.data) \/ (f = "WRITE" /\ file.room)
  BY FiltersAre DEF FileOk, FileRecords, Node!Occurs
<1>4. CASE file.kind = "socket"
  <2>1. \/ e = "IN" /\ (file.data \/ "READ" \in file.ended)
        \/ e = "RDHUP" /\ "READ" \in file.ended
        \/ e = "OUT" /\ (file.room \/ "WRITE" \in file.ended)
        \/ (e = "HUP" \/ e = "ERR") /\ file.ended = Node!Filters
    BY <1>3, <1>4, EventsOf DEF FileOk
  <2>2. CASE Over(file)
    <3>1. f \in file.ended
      BY <2>2 DEF Over
    <3> QED
      BY <1>1, <1>2, <1>3, <2>2, <3>1 DEF Gives
  <2>3. CASE ~Over(file)
    <3>1. e \in {"IN", "RDHUP", "OUT"} /\ f \in Carriers(e)
      BY <1>4, <2>1, <2>3 DEF Over
    <3>2. Node!Occurs(f, file) /\ (e = "RDHUP" => f = "READ" /\ f \in file.ended)
      BY <1>3, <2>1, <3>1, CarriersAre
    <3>3. file.kind \notin Node!Fifos
      BY <1>4 DEF Node!Fifos
    <3> QED
      BY <1>1, <1>2, <3>1, <3>2, <3>3 DEF Gives
  <2> QED
    BY <2>2, <2>3
<1>5. CASE file.kind \in Node!Fifos
  <2>1. \/ e = "IN" /\ file.data
        \/ e = "HUP" /\ "READ" \in file.ended
        \/ e = "OUT" /\ file.room
        \/ e = "ERR" /\ "WRITE" \in file.ended
    BY <1>3, <1>5, EventsOf
  <2>2. f \in Carriers(e)
    BY <1>5 DEF Over, Node!Fifos
  <2>3. /\ e = "HUP" => file.kind = "in"
        /\ e = "ERR" => file.kind = "out"
    BY <1>5, <2>1 DEF FileOk, Node!Fifos
  <2>4. CASE e = "IN" \/ e = "OUT"
    <3>1. (e = "IN" => f = "READ") /\ (e = "OUT" => f = "WRITE")
      BY <2>2, CarriersAre
    <3>2. Node!Occurs(f, file) /\ kev.some
      BY <1>2, <1>3, <2>1, <2>4, <3>1
    <3> QED
      BY <1>1, <1>2, <2>2, <2>4, <3>2 DEF Gives
  <2>5. CASE e = "HUP" \/ e = "ERR"
    <3>1. f \in file.ended
      BY <2>1, <2>3, <2>5
    <3> QED
      BY <1>1, <1>2, <1>3, <2>5, <3>1 DEF Gives
  <2> QED
    BY <2>1, <2>4, <2>5
<1>6. CASE file.kind \notin Node!Fifos \cup {"socket"}
  <2>1. \/ e = "IN" /\ (file.data \/ file.ended # {})
        \/ e = "OUT" /\ (file.room \/ file.ended # {})
        \/ e = "HUP" /\ file.ended # {}
    BY <1>3, <1>6, EventsOf
  <2>2. f \in Carriers(e)
    BY <1>6 DEF Over
  <2>3. file.ended # {} => f \in file.ended
    BY <1>6 DEF FileOk
  <2>4. CASE e = "IN" \/ e = "OUT"
    <3>1. (e = "IN" => f = "READ") /\ (e = "OUT" => f = "WRITE")
      BY <2>2, CarriersAre
    <3>2. Node!Occurs(f, file)
      BY <1>3, <2>1, <2>3, <2>4, <3>1
    <3> QED
      BY <1>1, <1>2, <1>6, <2>2, <2>4, <3>2 DEF Gives
  <2>5. CASE e = "HUP"
    <3>1. f \in file.ended
      BY <2>1, <2>3, <2>5
    <3> QED
      BY <1>1, <1>2, <1>3, <2>5, <3>1 DEF Gives
  <2> QED
    BY <2>1, <2>4, <2>5
<1> QED
  BY <1>4, <1>5, <1>6

LEMMA FifoOwn ==
  ASSUME NodeBasics, EdgeInv, EdgeOn, NEW f \in Node!Filters, knote[f] # "none"
  PROVE  (file.kind = "in" => f = "READ") /\ (file.kind = "out" => f = "WRITE")
<1>1. node \in NodeRecords
  BY DEF NodeBasics, NodeTypes
<1>2. file.kind \in {"in", "out"} => Node!get_needed_filters(node)[f] # "none"
  BY DEF EdgeInv, EdgeFilters
<1> QED
  BY <1>1, <1>2, FifoSide, FiltersAre

\* Between the calls of epoll_wait an edge-triggered node is active if there is an event
\* that was not reported.
LEMMA EdgeReadable ==
  ASSUME NodeBasics, EdgeInv, EdgeOn, kevs = {}, revents = {}, NEW e \in unseen
  PROVE  Node!KqReadable
<1>1. e \in Node!Events(file) /\ FileOk(file) /\ Carried(e)
  BY DEF EdgeInv, EdgeTold, UnseenThere, NodeBasics
<1>2. PICK f \in Node!Filters : knote[f] = "fired" /\ (f \in Carriers(e) \/ Over(file))
  BY <1>1 DEF Carried
<1>3. Node!Occurs(f, file)
  BY <1>1, <1>2, FifoOwn, FreshGives
<1> QED
  BY <1>2, <1>3 DEF Node!Active, Node!KqReadable

\* An edge-triggered node that is registered anew, with events still to be fed only of
\* filters that stay.
LEMMA RegisterEdge ==
  ASSUME NEW n \in NodeRecords, Node!EdgeTriggered(n), Added(n), UNCHANGED file, FileOk(file),
         unseen' \subseteq Node!Events(file) \cap Node!Asked(n),
         file.kind # "socket" => "RDHUP" \notin n.events,
         file.kind = "socket" => n.eof_state \subseteq file.ended,
         \A kev \in kevs' : /\ kev \in FileEvents /\ knote'[kev.filter] # "none"
                            /\ kev.eof => kev.filter \in file.ended
  PROVE  EdgeOn' /\ OfFilters' /\ EdgeFilters' /\ EdgeNoticed' /\ EdgeTold'
<1> DEFINE N == Node!get_needed_filters(n)
<1>1. Node!get_needed_filters(node)' = N /\ node' = n
  BY NeededKeeps DEF Added
<1>2. \A f \in Node!Filters : N[f] \in {"none", "clear"} /\ knote'[f] = Node!Knote(f, N[f])
  BY EdgeNeeds DEF Added
<1> HIDE DEF N
<1>3. \A f \in Node!Filters :
        /\ knote'[f] # "level" /\ (knote'[f] = "none" <=> N[f] = "none")
        /\ knote'[f] = "clear" => ~Node!Occurs(f, file)
        /\ N[f] # "none" /\ Node!Occurs(f, file) => knote'[f] = "fired"
  BY <1>2, KnoteIs
<1>4. EdgeOn'
  <2>1. \E f \in Node!Filters : N[f] # "none"
    BY OneNeeded DEF N
  <2> QED
    BY <1>1, <1>3, <2>1 DEF EdgeOn, Node!EdgeTriggered
<1>5. OfFilters'
  BY DEF OfFilters
<1>6. EdgeFilters'
  BY <1>1, <1>3 DEF EdgeFilters
<1>7. EdgeNoticed'
  <2>1. \A f \in Node!Filters : knote'[f] = "clear" => f \notin file.ended
    BY <1>3 DEF Node!Occurs
  <2>2. ASSUME NEW kev \in kevs' PROVE UpToDate(kev)'
    <3>1. kev.filter \in Node!Filters /\ knote'[kev.filter] \in {"clear", "fired"}
      BY <1>2, <1>3 DEF FileEvents, Node!Knote
    <3> QED
      BY <2>1, <3>1 DEF UpToDate
  <2> QED
    BY <2>1, <2>2 DEF EdgeNoticed
<1>8. EdgeTold'
  <2> SUFFICES ASSUME NEW e \in unseen' PROVE Carried(e)'
    BY DEF EdgeTold
  <2>1. PICK f \in Node!Filters : N[f] # "none" /\ Node!Occurs(f, file) /\ (f \in Carriers(e) \/ Over(file))
    BY Shows DEF N
  <2>2. knote'[f] = "fired"
    BY <1>3, <2>1
  <2> QED
    BY <2>1, <2>2 DEF Carried, Over
<1> QED
  BY <1>4, <1>5, <1>6, <1>7, <1>8

LEMMA ChangesEdge ==
  ASSUME NodeBasics, EdgeInv, NEW fl, NEW fs, NEW es, Node!Changes(fl, fs, es), Wakes(fl, fs, es)
  PROVE  EdgeInv'
<1>1. /\ file' = fl /\ UNCHANGED <<node, kevs, revents, got_evfilt, at>> /\ file.kind # "none"
      /\ knote' = [f \in Node!Filters |-> IF f \in fs /\ knote[f] = "clear" THEN "fired" ELSE knote[f]]
      /\ unseen' = (unseen \cup es \cup (Node!Events(fl) \ Node!Events(file))) \cap Node!Asked(node) \cap Node!Events(fl)
  BY DEF Node!Changes, Node!passvars
<1>2. /\ FileOk(fl) /\ fl.kind = file.kind
      /\ fl.kind = "socket" => file.ended \subseteq fl.ended /\ (file.error => fl.error)
      /\ fl.ended \ file.ended \subseteq fs /\ fs \subseteq Node!Filters
      /\ fl.error => file.error \/ fs = Node!Filters
  BY DEF Wakes, Follows
<1>3. PICK n : n = node
  OBVIOUS
<1>4. Node!get_needed_filters(node)' = Node!get_needed_filters(n)
  BY <1>1, <1>2, <1>3, NeededKeeps
<1>5. \A f \in Node!Filters : /\ knote'[f] = "none" <=> knote[f] = "none"
                              /\ knote[f] = "fired" => knote'[f] = "fired"
                              /\ f \in fs /\ knote[f] = "clear" => knote'[f] = "fired"
                              /\ knote'[f] = "clear" => knote[f] = "clear" /\ f \notin fs
                              /\ knote'[f] = "level" => knote[f] = "level"
  BY <1>1
<1>6. UnseenThere'
  <2>1. Node!Asked(node)' = Node!Asked(node) /\ Node!Events(file)' = Node!Events(fl)
    BY <1>1 DEF Node!Asked, Node!Events
  <2> QED
    BY <1>1, <1>2, <2>1 DEF UnseenThere
<1>7. GotNone'
  BY <1>1, <1>2 DEF EdgeInv, GotNone
<1>8. \A kev \in kevs : kev # Node!UserEvent => kev.filter \in Node!Filters
  BY DEF NodeBasics, PassTypes, FileEvents
<1>9. OfFilters'
  BY <1>1, <1>5, <1>8 DEF EdgeInv, OfFilters, Node!EdgeTriggered
<1>10. EdgeOn' <=> EdgeOn
  BY <1>1, <1>5 DEF EdgeOn, Node!EdgeTriggered
<1>11. ASSUME EdgeOn PROVE (EdgeFilters /\ EdgeGot /\ EdgeNoticed /\ EdgeTold)'
  <2>1. EdgeFilters /\ EdgeGot /\ EdgeNoticed /\ EdgeTold /\ OfFilters
    BY <1>11 DEF EdgeInv
  <2>2. EdgeFilters'
    BY <1>1, <1>2, <1>3, <1>4, <1>5, <2>1 DEF EdgeFilters
  <2>3. EdgeGot'
    <3>1. got_evfilt \subseteq Node!Filters
      BY DEF NodeBasics, PassTypes
    <3> QED
      BY <1>1, <1>2, <1>5, <2>1, <3>1 DEF EdgeGot
  <2>4. EdgeNoticed'
    <3> SUFFICES ASSUME file.kind = "socket" PROVE EdgeNoticed'
      BY <1>1, <1>2 DEF EdgeNoticed
    <3>1. \A f : EndComes(f) => EndComes(f)'
      BY <1>1 DEF EndComes
    <3>2. \A f \in Node!Filters : knote'[f] = "clear" /\ f \in fl.ended => f \in node.eof_state \/ EndComes(f)
      BY <1>2, <1>5, <2>1 DEF EdgeNoticed
    <3>3. ASSUME NEW kev \in kevs PROVE UpToDate(kev)'
      <4>1. kev # Node!UserEvent
        BY DEF NodeBasics, PassTypes
      <4>2. kev.filter \in Node!Filters /\ knote[kev.filter] \in {"clear", "fired"}
        BY <1>8, <1>11, <2>1, <4>1 DEF OfFilters, EdgeOn, EdgeFilters, NodeBasics, NodeTypes
      <4>3. UpToDate(kev)
        BY <2>1 DEF EdgeNoticed
      <4>4. CASE knote[kev.filter] = "fired" \/ kev.filter \in fs
        BY <1>5, <4>2, <4>4 DEF UpToDate
      <4>5. CASE knote[kev.filter] = "clear" /\ kev.filter \notin fs
        <5>1. (kev.filter \in file.ended => kev.eof) /\ (kev.eof /\ file.error => kev.error)
          BY <4>3, <4>5 DEF UpToDate
        <5>2. (kev.filter \in fl.ended => kev.filter \in file.ended) /\ (fl.error => file.error)
          BY <1>2, <4>2, <4>5
        <5> QED
          BY <1>1, <5>1, <5>2 DEF UpToDate
      <4> QED
        BY <4>2, <4>4, <4>5
    <3> QED
      BY <1>1, <3>1, <3>2, <3>3 DEF EdgeNoticed
  <2>5. EdgeTold'
    <3>1. ASSUME NEW e \in unseen PROVE (e \in revents \/ Carried(e))'
      <4>1. Over(file) => Over(fl)
        BY <1>2 DEF Over, FileOk, FileRecords
      <4>2. \A kev : Gives(kev, e) => Gives(kev, e)'
        BY <1>1, <1>2, <4>1 DEF Gives
      <4>3. Carried(e) => Carried(e)'
        BY <1>1, <1>5, <4>1, <4>2 DEF Carried
      <4> QED
        BY <1>1, <2>1, <4>3 DEF EdgeTold
    <3>2. ASSUME NEW e \in Node!Events(fl), e \in Node!Asked(node), e \in es \/ e \notin Node!Events(file)
          PROVE  Carried(e)'
      <4>1. /\ e \in {"IN", "RDHUP"} => "READ" \in fs
            /\ e = "OUT" => "WRITE" \in fs
            /\ fl.kind = "socket" => file.ended # Node!Filters
                                     /\ (e \notin {"IN", "OUT", "RDHUP"} => fl.ended = Node!Filters)
            /\ fl.kind \in Node!Fifos => (e = "HUP" => "READ" \in fs) /\ (e = "ERR" => "WRITE" \in fs)
            /\ fl.kind \notin Node!Fifos \cup {"socket"} /\ e \in {"HUP", "ERR"} => fs = Node!Filters
        BY <3>2 DEF Wakes, Brings
      <4>2. /\ n \in NodeRecords /\ (file.kind # "socket" => "RDHUP" \notin n.events) /\ e \in Node!Asked(n)
            /\ file.kind = "socket" => n.eof_state \subseteq file.ended
            /\ \A f \in Node!Filters : knote[f] \in {"none", "clear", "fired"}
        BY <1>3, <2>1, <3>2 DEF NodeBasics, NodeTypes, Known, EdgeFilters
      <4>3. ASSUME NEW f \in Node!Filters, knote[f] # "none", f \in fs, f \in Carriers(e) \/ Over(fl)
            PROVE  Carried(e)'
        <5>1. knote'[f] = "fired"
          BY <1>5, <4>2, <4>3
        <5> QED
          BY <1>1, <4>3, <5>1 DEF Carried
      <4>4. CASE file.kind = "socket"
        <5>1. n.eof_state # Node!Filters /\ file.ended \subseteq Node!Filters
          BY <1>2, <4>1, <4>2, <4>4 DEF NodeBasics, FileOk, FileRecords
        <5>2. \A f \in Node!Filters : knote[f] = "none" <=> Node!get_needed_filters(n)[f] = "none"
          BY <1>3, <2>1, <5>1 DEF EdgeFilters
        <5>3. CASE e \in {"IN", "RDHUP"}
          <6>1. e \in n.events
            BY <4>2, <5>3 DEF Node!Asked
          <6>2. knote["READ"] # "none" /\ "READ" \in fs
            BY <4>1, <4>2, <4>4, <5>1, <5>2, <5>3, <6>1, AskedNeeded, FiltersAre
          <6> QED
            BY <4>3, <5>3, <6>2, CarriersAre, FiltersAre
        <5>4. CASE e = "OUT"
          <6>1. e \in n.events
            BY <4>2, <5>4 DEF Node!Asked
          <6>2. knote["WRITE"] # "none" /\ "WRITE" \in fs
            BY <4>1, <4>2, <4>4, <5>1, <5>2, <5>4, <6>1, AskedNeeded, FiltersAre
          <6> QED
            BY <4>3, <5>4, <6>2, CarriersAre, FiltersAre
        <5>5. CASE e \notin {"IN", "OUT", "RDHUP"}
          <6>1. fl.ended = Node!Filters /\ Over(fl)
            BY <1>2, <4>1, <4>4, <5>5 DEF Over
          <6>2. PICK g \in Node!Filters : g \notin file.ended
            BY <4>1, <4>4, <1>2, <5>1
          <6>3. g \in fs /\ g \notin n.eof_state
            BY <1>2, <4>2, <4>4, <6>1, <6>2
          <6>4. CASE knote[g] # "none"
            BY <4>3, <6>1, <6>3, <6>4
          <6>5. CASE knote[g] = "none"
            <7>1. n.eof_state = {}
              <8>1. \A f \in Node!Filters : f # g => n.eof_state # {f}
                BY <4>2, <4>4, <5>2, <6>5, OtherEnd
              <8>2. n.eof_state \in {{}, {"READ"}, {"WRITE"}, Node!Filters}
                BY <4>2, EndsAre DEF NodeRecords
              <8> QED
                BY <5>1, <6>3, <8>1, <8>2, FiltersAre
            <7>2. PICK f \in Node!Filters : knote[f] # "none"
              BY <1>11 DEF EdgeOn
            <7>3. CASE f \in fs
              BY <4>3, <6>1, <7>2, <7>3
            <7>4. CASE f \notin fs
              <8>1. f \in file.ended
                BY <1>2, <6>1, <7>4
              <8>2. CASE knote[f] = "fired"
                BY <1>1, <1>5, <6>1, <8>2 DEF Carried
              <8>3. CASE knote[f] = "clear"
                <9>1. PICK kev \in kevs : kev # Node!UserEvent /\ kev.filter = f /\ kev.eof
                  BY <1>3, <2>1, <4>4, <7>1, <8>1, <8>3 DEF EdgeNoticed, EndComes
                <9>2. Gives(kev, e)'
                  BY <1>1, <6>1, <9>1 DEF Gives
                <9> QED
                  BY <1>1, <9>2 DEF Carried
              <8> QED
                BY <4>2, <7>2, <8>2, <8>3
            <7> QED
              BY <7>3, <7>4
          <6> QED
            BY <6>4, <6>5
        <5> QED
          BY <5>3, <5>4, <5>5
      <4>5. CASE file.kind # "socket"
        <5>1. PICK f \in Node!Filters : /\ Node!get_needed_filters(n)[f] # "none" /\ Node!Occurs(f, fl)
                                        /\ f \in Carriers(e) \/ Over(fl)
          BY <1>2, <3>2, <4>2, <4>5, Shows
        <5>2. knote[f] # "none" /\ f \in Carriers(e)
          BY <1>2, <1>3, <2>1, <4>5, <5>1 DEF EdgeFilters, Over
        <5>3. f \in fs
          <6>1. CASE file.kind \in Node!Fifos
            <7>1. /\ file.kind = "in" => f = "READ"
                  /\ file.kind = "out" => f = "WRITE"
              BY <1>11, <5>2, FifoOwn
            <7>2. e \in {"IN", "OUT", "HUP", "ERR"} /\ (e = "HUP" => "READ" \in fl.ended) /\ (e = "ERR" => "WRITE" \in fl.ended)
              BY <1>2, <3>2, <6>1, EventsOf DEF FileOk
            <7>3. /\ e = "HUP" => file.kind = "in"
                  /\ e = "ERR" => file.kind = "out"
              BY <1>2, <6>1, <7>2 DEF FileOk, Node!Fifos
            <7> QED
              BY <1>2, <4>1, <5>2, <6>1, <7>1, <7>2, <7>3, CarriersAre
          <6>2. CASE file.kind \notin Node!Fifos
            <7>1. e \in {"IN", "OUT", "HUP"}
              BY <1>2, <3>2, <4>5, <6>2, EventsOf DEF FileOk
            <7> QED
              BY <1>2, <4>1, <4>5, <5>2, <6>2, <7>1, CarriersAre
          <6> QED
            BY <6>1, <6>2
        <5> QED
          BY <4>3, <5>2, <5>3
      <4> QED
        BY <4>4, <4>5
    <3> QED
      BY <1>1, <3>1, <3>2 DEF EdgeTold
  <2> QED
    BY <2>2, <2>3, <2>4, <2>5
<1>12. (node.mode = "edge" /\ file.kind # "out" => EdgeOn)'
  BY <1>1, <1>2, <1>10 DEF EdgeInv
<1> QED
  BY <1>6, <1>7, <1>9, <1>10, <1>11, <1>12 DEF EdgeInv

\* An edge-triggered node that is not registered with any filter, or none at all.
LEMMA EdgeOffKept ==
  ASSUME UnseenThere', GotNone', OfFilters', node'.mode = "edge" => file'.kind = "out", ~EdgeOn'
  PROVE  EdgeInv'
BY DEF EdgeInv

LEMMA OpensEdge ==
  ASSUME NodeBasics, EdgeInv, NEW kind \in Kinds, Node!Opens(kind)
  PROVE  EdgeInv'
<1>1. /\ file.kind = "none" /\ UNCHANGED <<node, knote, kevs, revents, got_evfilt, at, unseen>>
      /\ node.mode = "none" /\ unseen = {} /\ kevs = {}
  BY DEF Node!Opens, Node!passvars, NodeBasics, NodeTypes, PassTypes, EdgeInv, UnseenThere
<1>2. UnseenThere' /\ OfFilters'
  BY <1>1 DEF UnseenThere, OfFilters
<1>3. GotNone'
  BY <1>1 DEF EdgeInv, GotNone
<1> QED
  BY <1>1, <1>2, <1>3, EdgeOffKept DEF EdgeOn, Node!EdgeTriggered

LEMMA AddModEdge ==
  ASSUME NodeBasics, EdgeInv, NEW events \in SUBSET Bits, NEW mode \in {"level", "edge", "oneshot"},
         Node!epoll_ctl_add_mod(events, mode)
  PROVE  EdgeInv'
<1>1. PICK n : n = Node!update_flags(events, mode)
  OBVIOUS
<1>2. /\ n \in NodeRecords /\ n.mode = mode /\ n.eof_state = node.eof_state
      /\ file.kind # "socket" => "RDHUP" \notin n.events
  BY <1>1, UpdateFlags
<1>3. /\ at = "out" /\ file.kind # "none" /\ Node!register_events(n)
      /\ unseen' = Node!Events(file) \cap Node!Asked(n)
      /\ UNCHANGED <<file, kevs, revents, got_evfilt, at>> /\ kevs = {} /\ revents = {}
  BY <1>1 DEF Node!epoll_ctl_add_mod, Node!passvars, NodeBasics, PassTypes
<1>4. node'.mode = mode /\ node'.events = n.events
  BY <1>2, <1>3, Registering
<1>5. UnseenThere' /\ GotNone' /\ OfFilters'
  BY <1>3, <1>4 DEF UnseenThere, GotNone, OfFilters, EdgeInv, Node!Asked, Node!Events
<1>6. CASE mode = "level"
  BY <1>4, <1>5, <1>6, EdgeOffKept DEF EdgeOn, Node!EdgeTriggered
<1>7. CASE mode # "level" /\ RefusedAnew(n)
  BY <1>3, <1>5, <1>7, EdgeOffKept DEF EdgeOn, RefusedAnew
<1>8. CASE mode # "level" /\ Added(n)
  <2>1. Node!EdgeTriggered(n)
    BY <1>2, <1>8 DEF Node!EdgeTriggered
  <2>2. FileOk(file) /\ (file.kind = "socket" => n.eof_state \subseteq file.ended)
    BY <1>2 DEF NodeBasics, Known
  <2>3. EdgeOn' /\ OfFilters' /\ EdgeFilters' /\ EdgeNoticed' /\ EdgeTold'
    BY <1>2, <1>3, <1>8, <2>1, <2>2, RegisterEdge
  <2>4. EdgeGot'
    BY <1>3 DEF EdgeGot, EdgeInv, GotNone
  <2> QED
    BY <1>5, <2>3, <2>4 DEF EdgeInv
<1> QED
  BY <1>2, <1>3, <1>6, <1>7, <1>8, RegisteringIs

LEMMA DelEdge ==
  ASSUME NodeBasics, EdgeInv, Node!epoll_ctl_del
  PROVE  EdgeInv'
<1>1. /\ node' = Node!NoNode /\ unseen' = {} /\ UNCHANGED <<file, revents, got_evfilt, kevs>> /\ kevs = {}
  BY DEF Node!epoll_ctl_del, Node!passvars, NodeBasics, PassTypes
<1>2. UnseenThere' /\ GotNone' /\ OfFilters'
  BY <1>1 DEF UnseenThere, GotNone, OfFilters, EdgeInv
<1>3. node'.mode = "none"
  BY <1>1 DEF Node!NoNode
<1> QED
  BY <1>1, <1>2, <1>3, EdgeOffKept DEF EdgeOn, Node!EdgeTriggered

\* What only begins to look, or has nothing more to look at.
LEMMA WaitEdge ==
  ASSUME EdgeInv, UNCHANGED <<file, node, knote, kevs, revents, got_evfilt, unseen>>,
         at' \notin {"edge", "complete"}
  PROVE  EdgeInv'
<1>1. PICK n : n = node
  OBVIOUS
<1>2. Node!get_needed_filters(node)' = Node!get_needed_filters(n)
  BY <1>1, NeededKeeps
<1>3. (UnseenThere => UnseenThere') /\ (GotNone => GotNone') /\ (OfFilters => OfFilters')
  BY DEF UnseenThere, GotNone, OfFilters, Node!EdgeTriggered, Node!Asked, Node!Events
<1>4. EdgeOn' <=> EdgeOn
  BY DEF EdgeOn, Node!EdgeTriggered
<1>5. EdgeFilters => EdgeFilters'
  BY <1>1, <1>2 DEF EdgeFilters
<1>6. EdgeGot => EdgeGot'
  BY DEF EdgeGot
<1>7. EdgeNoticed => EdgeNoticed'
  BY DEF EdgeNoticed, EndComes, UpToDate
<1>8. EdgeTold => EdgeTold'
  BY DEF EdgeTold, Carried, Gives, Over
<1> QED
  BY <1>3, <1>4, <1>5, <1>6, <1>7, <1>8 DEF EdgeInv

LEMMA RetrievesEdge ==
  ASSUME NodeBasics, EdgeInv, Node!Retrieves
  PROVE  EdgeInv'
<1>1. /\ kevs = {} /\ revents = {} /\ UNCHANGED <<file, node, revents, got_evfilt, unseen>>
      /\ at' \in {"feed", "out"}
      /\ knote' = [f \in Node!Filters |-> IF knote[f] = "fired" THEN "clear" ELSE knote[f]]
  BY RetrievesIs
<1>2. \A kev : kev \in kevs' <=> \/ kev = Node!UserEvent /\ user
                                 \/ \E f \in Node!Filters : Node!Active(f) /\ kev = Node!Kevent(f)
  BY RetrievesIs
<1>3. PICK n : n = node
  OBVIOUS
<1>4. Node!get_needed_filters(node)' = Node!get_needed_filters(n)
  BY <1>1, <1>3, NeededKeeps
<1>5. FileOk(file)
  BY DEF NodeBasics
<1>6. \A f \in Node!Filters : knote'[f] = "none" <=> knote[f] = "none"
  BY <1>1
<1>7. \A kev \in kevs' : kev # Node!UserEvent =>
        \E f \in Node!Filters : Node!Active(f) /\ kev = Node!Kevent(f) /\ kev.filter = f
  BY <1>2, <1>5, KeventIs
<1>8. UnseenThere' /\ GotNone'
  BY <1>1 DEF EdgeInv, UnseenThere, GotNone, Node!Asked, Node!Events
<1>9. OfFilters'
  BY <1>1, <1>6, <1>7 DEF OfFilters, Node!Active
<1>10. EdgeOn' <=> EdgeOn
  BY <1>1, <1>6 DEF EdgeOn, Node!EdgeTriggered
<1>11. ASSUME EdgeOn PROVE (EdgeFilters /\ EdgeGot /\ EdgeNoticed /\ EdgeTold)'
  <2>1. EdgeFilters /\ EdgeGot /\ EdgeNoticed /\ EdgeTold
    BY <1>11 DEF EdgeInv
  <2>2. EdgeFilters'
    <3>1. \A f \in Node!Filters : knote'[f] # "level"
      BY <1>1, <2>1 DEF EdgeFilters
    <3> QED
      BY <1>1, <1>3, <1>4, <1>6, <2>1, <3>1 DEF EdgeFilters
  <2>3. EdgeGot'
    <3>1. got_evfilt \subseteq Node!Filters
      BY DEF NodeBasics, PassTypes
    <3> QED
      BY <1>1, <1>6, <2>1, <3>1 DEF EdgeGot
  <2>4. EdgeNoticed'
    <3> SUFFICES ASSUME file.kind = "socket" PROVE EdgeNoticed'
      BY <1>1 DEF EdgeNoticed
    <3>1. ASSUME NEW f \in Node!Filters, knote'[f] = "clear", f \in file.ended
          PROVE  f \in node.eof_state \/ EndComes(f)'
      <4>1. CASE knote[f] = "fired"
        <5>1. Node!Kevent(f) \in kevs'
          BY <1>2, <3>1, <4>1 DEF Node!Active, Node!Occurs
        <5>2. Node!Kevent(f) # Node!UserEvent /\ Node!Kevent(f).filter = f /\ Node!Kevent(f).eof
          BY <1>5, <3>1, KeventIs, UserIsNone
        <5> QED
          BY <5>1, <5>2 DEF EndComes
      <4>2. CASE knote[f] # "fired"
        <5>1. knote[f] = "clear"
          BY <1>1, <3>1, <4>2
        <5> QED
          BY <1>1, <2>1, <3>1, <5>1 DEF EdgeNoticed, EndComes
      <4> QED
        BY <4>1, <4>2
    <3>2. ASSUME NEW kev \in kevs' PROVE UpToDate(kev)'
      <4>1. kev # Node!UserEvent
        BY <1>2, <1>5, KeventIs, UserIsNone DEF NodeBasics, NodeTypes
      <4>2. PICK f \in Node!Filters : kev = Node!Kevent(f)
        BY <1>7, <4>1
      <4>3. kev.filter = f /\ kev.eof = (f \in file.ended) /\ kev.error = file.error
        BY <1>5, <4>2, KeventIs
      <4> QED
        BY <1>1, <4>3 DEF UpToDate
    <3> QED
      BY <1>1, <3>1, <3>2 DEF EdgeNoticed
  <2>5. EdgeTold'
    <3> SUFFICES ASSUME NEW e \in unseen PROVE Carried(e)'
      BY <1>1 DEF EdgeTold
    <3>1. Carried(e) /\ e \in Node!Events(file)
      BY <1>1, <2>1 DEF EdgeTold, EdgeInv, UnseenThere
    <3>2. PICK f \in Node!Filters : knote[f] = "fired" /\ (f \in Carriers(e) \/ Over(file))
      BY <1>1, <3>1 DEF Carried
    <3>3. Node!Occurs(f, file) /\ Gives(Node!Kevent(f), e)
      BY <1>5, <1>11, <3>1, <3>2, FifoOwn, FreshGives
    <3>4. Node!Kevent(f) \in kevs'
      BY <1>2, <3>2, <3>3 DEF Node!Active
    <3>5. \A kev : Gives(kev, e) => Gives(kev, e)'
      BY <1>1 DEF Gives, Over
    <3> QED
      BY <3>3, <3>4, <3>5 DEF Carried
  <2> QED
    BY <2>2, <2>3, <2>4, <2>5
<1>12. (node.mode = "edge" /\ file.kind # "out" => EdgeOn)'
  BY <1>1, <1>10 DEF EdgeInv
<1> QED
  BY <1>8, <1>9, <1>10, <1>11, <1>12 DEF EdgeInv

LEMMA CompletionEdge ==
  ASSUME NodeBasics, EdgeInv, Node!register_for_completion
  PROVE  EdgeInv'
<1>1. /\ at = "edge" /\ kevs = {} /\ UNCHANGED <<file, node, knote, revents, got_evfilt, unseen>>
      /\ kevs' = {Node!Kevent(f) : f \in {g \in Node!Filters \ got_evfilt :
                                            knote[g] # "none" /\ Node!Occurs(g, file)}}
      /\ at' \in {"report", "complete"}
  BY DEF Node!register_for_completion, NodeBasics, PassTypes
<1>2. PICK n : n = node
  OBVIOUS
<1>3. Node!get_needed_filters(node)' = Node!get_needed_filters(n)
  BY <1>1, <1>2, NeededKeeps
<1>4. FileOk(file)
  BY DEF NodeBasics
<1>5. \A kev \in kevs' : \E f \in Node!Filters \ got_evfilt :
        kev = Node!Kevent(f) /\ kev.filter = f /\ knote[f] # "none"
  BY <1>1, <1>4, KeventIs
<1>6. UnseenThere' /\ GotNone'
  BY <1>1 DEF EdgeInv, UnseenThere, GotNone, Node!Asked, Node!Events
<1>7. OfFilters'
  BY <1>1, <1>5 DEF OfFilters
<1>8. EdgeOn' <=> EdgeOn
  BY <1>1 DEF EdgeOn, Node!EdgeTriggered
<1>9. ASSUME EdgeOn PROVE (EdgeFilters /\ EdgeGot /\ EdgeNoticed /\ EdgeTold)'
  <2>1. EdgeFilters /\ EdgeGot /\ EdgeNoticed /\ EdgeTold
    BY <1>9 DEF EdgeInv
  <2>2. EdgeFilters'
    BY <1>1, <1>2, <1>3, <2>1 DEF EdgeFilters
  <2>3. EdgeGot'
    BY <1>1, <1>5, <2>1 DEF EdgeGot
  <2>4. EdgeNoticed'
    <3> SUFFICES ASSUME file.kind = "socket" PROVE EdgeNoticed'
      BY <1>1 DEF EdgeNoticed
    <3>1. \A f \in Node!Filters : knote[f] = "clear" /\ f \in file.ended => f \in node.eof_state
      BY <1>1, <2>1 DEF EdgeNoticed, EndComes
    <3>2. ASSUME NEW kev \in kevs' PROVE UpToDate(kev)'
      <4>1. PICK f \in Node!Filters : kev = Node!Kevent(f)
        BY <1>5
      <4>2. kev.filter = f /\ kev.eof = (f \in file.ended) /\ kev.error = file.error
        BY <1>4, <4>1, KeventIs
      <4> QED
        BY <1>1, <4>2 DEF UpToDate
    <3> QED
      BY <1>1, <3>1, <3>2 DEF EdgeNoticed
  <2>5. EdgeTold'
    BY <1>1, <2>1 DEF EdgeTold, Carried, Over
  <2> QED
    BY <2>2, <2>3, <2>4, <2>5
<1>10. (node.mode = "edge" /\ file.kind # "out" => EdgeOn)'
  BY <1>1, <1>8 DEF EdgeInv
<1> QED
  BY <1>6, <1>7, <1>8, <1>9, <1>10 DEF EdgeInv

LEMMA ReportsEdge ==
  ASSUME NodeBasics, EdgeInv, Node!Reports
  PROVE  EdgeInv'
<1>1. /\ at' = "out" /\ UNCHANGED <<file, node, kevs>> /\ kevs = {}
      /\ unseen' = unseen \ revents /\ revents' = {} /\ got_evfilt' = {}
      /\ IF node.mode = "oneshot" THEN knote' = [f \in Node!Filters |-> "none"] ELSE UNCHANGED knote
  BY DEF Node!Reports, Node!remove_node_from_kq, NodeBasics, PassTypes
<1>2. UnseenThere' /\ GotNone' /\ OfFilters'
  BY <1>1 DEF EdgeInv, UnseenThere, GotNone, OfFilters, Node!Asked, Node!Events
<1>3. CASE node.mode = "oneshot"
  BY <1>1, <1>2, <1>3, EdgeOffKept DEF EdgeOn
<1>4. CASE node.mode # "oneshot"
  <2>1. PICK n : n = node
    OBVIOUS
  <2>2. Node!get_needed_filters(node)' = Node!get_needed_filters(n)
    BY <1>1, <2>1, NeededKeeps
  <2>3. EdgeOn' <=> EdgeOn
    BY <1>1, <1>4 DEF EdgeOn, Node!EdgeTriggered
  <2>4. EdgeFilters => EdgeFilters'
    BY <1>1, <1>4, <2>1, <2>2 DEF EdgeFilters
  <2>5. EdgeGot'
    BY <1>1 DEF EdgeGot
  <2>6. EdgeNoticed => EdgeNoticed'
    BY <1>1, <1>4 DEF EdgeNoticed, EndComes, UpToDate
  <2>7. EdgeTold => EdgeTold'
    BY <1>1, <1>4 DEF EdgeTold, Carried, Gives, Over
  <2> QED
    BY <1>1, <1>2, <2>3, <2>4, <2>5, <2>6, <2>7 DEF EdgeInv
<1> QED
  BY <1>3, <1>4

\* An edge-triggered node is registered anew only when the first end of a socket is learnt.
LEMMA FirstEnd ==
  ASSUME NodeBasics, NEW kev \in kevs, FedFilter(kev), Node!EdgeTriggered(node), ~NoneAnew(kev)
  PROVE  /\ file.kind = "socket" /\ kev.eof /\ node.eof_state = {}
         /\ Node!EofState(node, kev) = {kev.filter}
<1>1. /\ kev \in FileEvents /\ kev.filter \in Node!Filters /\ node \in NodeRecords
      /\ Learnt(kev) \in NodeRecords /\ Learnt(kev).mode = node.mode /\ Learnt(kev).events = node.events
  BY LearntIs DEF FedFilter, FileEvents, NodeBasics, NodeTypes
<1>2. file.kind = "socket"
  BY <1>1, EdgeIndependent DEF NoneAnew
<1>3. Node!EofState(node, kev) # Node!Filters
  BY <1>2 DEF NoneAnew, Node!Fifos
<1>4. Node!EofState(node, kev) # node.eof_state
  <2> SUFFICES ASSUME Node!EofState(node, kev) = node.eof_state PROVE FALSE
    OBVIOUS
  <2>1. Learnt(kev) = node
    BY <1>1 DEF Learnt, NodeRecords
  <2> QED
    BY <2>1 DEF NoneAnew
<1>5. kev.filter \in node.eof_state => kev.eof
  BY <1>2 DEF NodeBasics, Known, KevKnown
<1>6. Node!EofState(node, kev) = IF kev.eof THEN node.eof_state \cup {kev.filter} ELSE node.eof_state \ {kev.filter}
  BY <1>2 DEF Node!EofState
<1>7. kev.eof /\ kev.filter \notin node.eof_state
  BY <1>4, <1>5, <1>6
<1>8. node.eof_state \in {{}, {"READ"}, {"WRITE"}, Node!Filters}
  BY <1>1, EndsAre DEF NodeRecords
<1>9. node.eof_state = {}
  BY <1>1, <1>3, <1>6, <1>7, <1>8, FiltersAre
<1> QED
  BY <1>2, <1>6, <1>7, <1>9

LEMMA FeedsOwnEdge ==
  ASSUME NodeBasics, EdgeInv, UNCHANGED <<file, unseen>>,
         NEW kev \in kevs, kevs' = kevs \ {kev}, FedOwn(kev)
  PROVE  EdgeInv'
<1>1. /\ file.kind = "out" /\ UNCHANGED <<node, got_evfilt>> /\ node \in NodeRecords /\ FileOk(file)
      /\ knote \in Knotes
  BY DEF FedOwn, NodeBasics, NodeTypes, Knotes
<1>2. PICK n : n = node
  OBVIOUS
<1>3. Node!get_needed_filters(node)' = Node!get_needed_filters(n)
  BY <1>1, <1>2, NeededKeeps
<1>4. UnseenThere' /\ GotNone'
  BY <1>1 DEF EdgeInv, UnseenThere, GotNone, Node!Asked, Node!Events
<1>5. EdgeGot' /\ EdgeNoticed'
  BY <1>1 DEF EdgeGot, EdgeNoticed
<1>6. \A e \in unseen : e \in Node!Asked(node) /\ ((e = "OUT" /\ file.room) \/ (e = "ERR" /\ file.ended # {}))
  <2>1. file \in FileRecords /\ ~file.data /\ "READ" \notin file.ended
    BY <1>1 DEF FileOk
  <2> QED
    BY <1>1, <2>1, EventsOf DEF EdgeInv, UnseenThere, Node!Fifos
<1>7. CASE /\ file.ended # {} /\ revents' = {"ERR", "OUT"} \cap Node!Asked(node)
           /\ knote' = knote
  <2>1. EdgeTold'
    BY <1>6, <1>7 DEF EdgeTold
  <2>2. OfFilters' /\ (EdgeOn' <=> EdgeOn)
    BY <1>1, <1>7 DEF EdgeInv, OfFilters, EdgeOn, Node!EdgeTriggered
  <2>3. EdgeFilters => EdgeFilters'
    BY <1>1, <1>2, <1>3, <1>7 DEF EdgeFilters
  <2> QED
    BY <1>1, <1>4, <1>5, <2>1, <2>2, <2>3 DEF EdgeInv
<1>8. CASE /\ file.ended = {}
           /\ knote' = [knote EXCEPT !["WRITE"] = Node!Knote("WRITE", Node!get_needed_filters(node)["WRITE"])]
  <2>1. /\ Node!get_needed_filters(n)["WRITE"] \in {"level", "clear"}
        /\ Node!get_needed_filters(n)["READ"] = "none"
    BY <1>1, <1>2, NeededType, FifoSide, FiltersAre
  <2>2. /\ knote'["WRITE"] = Node!Knote("WRITE", Node!get_needed_filters(n)["WRITE"])
        /\ knote'["READ"] = knote["READ"]
    BY <1>1, <1>2, <1>8, FiltersAre DEF Knotes
  <2>3. knote'["WRITE"] # "none"
    BY <2>1, <2>2, KnoteIs
  <2>4. OfFilters'
    <3> SUFFICES ASSUME Node!EdgeTriggered(node), NEW k \in kevs', k # Node!UserEvent
                 PROVE  knote'[k.filter] # "none"
      BY <1>1 DEF OfFilters, Node!EdgeTriggered
    <3>1. k \in FileEvents /\ knote[k.filter] # "none"
      BY DEF EdgeInv, OfFilters, NodeBasics, PassTypes
    <3> QED
      BY <2>2, <2>3, <3>1, FiltersAre DEF FileEvents
  <2>5. ASSUME EdgeOn' PROVE EdgeFilters' /\ EdgeTold'
    <3>1. Node!EdgeTriggered(node) /\ Node!EdgeTriggered(n)
      BY <1>1, <1>2, <2>5 DEF EdgeOn, Node!EdgeTriggered
    <3>2. Node!get_needed_filters(n)["WRITE"] = "clear"
      BY <2>1, <3>1, EdgeNeeds, FiltersAre
    <3>3. knote["READ"] = "none"
      <4>1. CASE EdgeOn
        <5>1. knote["READ"] # "none" => "READ" = "WRITE"
          BY <1>1, <4>1, FifoOwn, FiltersAre
        <5> QED
          BY <5>1
      <4>2. CASE ~EdgeOn
        BY <3>1, <4>2, FiltersAre DEF EdgeOn
      <4> QED
        BY <4>1, <4>2
    <3>4. EdgeFilters'
      <4>1. knote'["WRITE"] # "level"
        BY <2>2, <3>2, KnoteIs
      <4> QED
        BY <1>3, <2>1, <2>2, <2>3, <3>3, <4>1, FiltersAre DEF EdgeFilters
    <3>5. ASSUME NEW e \in unseen PROVE Carried(e)'
      <4>1. e = "OUT" /\ file.room
        BY <1>6, <1>8
      <4>2. knote'["WRITE"] = "fired"
        BY <2>2, <3>2, <4>1, KnoteIs DEF Node!Occurs
      <4> QED
        BY <4>1, <4>2, CarriersAre, FiltersAre DEF Carried
    <3> QED
      BY <3>4, <3>5 DEF EdgeTold
  <2> QED
    BY <1>1, <1>4, <1>5, <2>4, <2>5 DEF EdgeInv
<1> QED
  BY <1>7, <1>8 DEF FedOwn

LEMMA FeedsFilterBasics ==
  ASSUME NodeBasics, TrueInv, EdgeInv, UNCHANGED <<file, unseen>>, NEW kev \in kevs, FedFilter(kev)
  PROVE  /\ UnseenThere' /\ GotNone' /\ node'.mode = node.mode /\ node'.events = node.events
         /\ node' \in NodeRecords
<1>1. /\ kev \in FileEvents /\ Learnt(kev) \in NodeRecords
      /\ Learnt(kev).mode = node.mode /\ Learnt(kev).events = node.events
  BY LearntIs DEF FedFilter
<1>2. node'.mode = node.mode /\ node'.events = node.events /\ node' \in NodeRecords
  BY <1>1, Registering DEF FedFilter
<1>3. UnseenThere'
  BY <1>2 DEF EdgeInv, UnseenThere, Node!Asked, Node!Events
<1>4. GotNone'
  <2>1. revents \subseteq Node!Asked(node)
    BY DEF TrueInv
  <2>2. revents' = {} => revents = {}
    BY <2>1 DEF FedFilter
  <2> QED
    BY <2>2 DEF EdgeInv, GotNone, FedFilter
<1> QED
  BY <1>2, <1>3, <1>4

LEMMA FeedsAnewEdge ==
  ASSUME NodeBasics, TrueInv, EdgeInv, Node!Feeds, NEW kev \in kevs, kevs' = kevs \ {kev}, FedFilter(kev),
         Node!EdgeTriggered(node), Node!register_events(Learnt(kev)), at = "feed", ~NoneAnew(kev)
  PROVE  EdgeInv'
<1>1. /\ UNCHANGED <<file, unseen>>
      /\ at' = (IF kevs' # {} THEN at
                ELSE IF revents' = {} THEN "kevent"
                ELSE IF at = "feed" /\ Node!EdgeTriggered(node) THEN "edge" ELSE "report")
  BY FeedsIs
<1>2. /\ file.kind = "socket" /\ kev.eof /\ node.eof_state = {}
      /\ Node!EofState(node, kev) = {kev.filter}
  BY FirstEnd
<1>3. PICK n : n = Learnt(kev)
  OBVIOUS
<1>4. /\ kev \in FileEvents /\ kev.filter \in Node!Filters /\ n \in NodeRecords /\ n.mode = node.mode
      /\ n.events = node.events /\ n.eof_state = {kev.filter}
  BY <1>2, <1>3, LearntIs DEF FedFilter, FileEvents
<1>5. Added(n) /\ Node!EdgeTriggered(n)
  BY <1>2, <1>3, <1>4, RegisteringIs DEF RefusedAnew, Node!EdgeTriggered
<1>6. \A g \in Node!Filters : g # kev.filter => knote'[g] # "none"
  <2>1. \A g \in Node!Filters : g # kev.filter => Node!get_needed_filters(n)[g] # "none"
    BY <1>2, <1>4, OtherEnd
  <2> QED
    BY <1>5, <2>1, NeededType, KnoteIs DEF Added
<1>7. \A k \in kevs' : k \in FileEvents /\ k.filter # kev.filter /\ (k.eof => k.filter \in file.ended)
  BY <1>2 DEF NodeBasics, PassTypes, Known, KevKnown
<1>8. FileOk(file) /\ n.eof_state \subseteq file.ended
  BY <1>2, <1>4 DEF NodeBasics, Known, KevKnown
<1>9. EdgeOn' /\ OfFilters' /\ EdgeFilters' /\ EdgeNoticed' /\ EdgeTold'
  <2>1. unseen' \subseteq Node!Events(file) \cap Node!Asked(n)
    BY <1>1, <1>4 DEF EdgeInv, UnseenThere, Node!Asked
  <2>2. \A k \in kevs' : /\ k \in FileEvents /\ knote'[k.filter] # "none"
                         /\ k.eof => k.filter \in file.ended
    BY <1>6, <1>7 DEF FileEvents
  <2> QED
    BY <1>1, <1>2, <1>4, <1>5, <1>8, <2>1, <2>2, RegisterEdge
<1>10. EdgeGot'
  <2>1. at' \in {"feed", "kevent", "edge"} /\ (at' = "edge" => revents' # {})
    BY <1>1
  <2>2. got_evfilt' = got_evfilt \cup (IF revents' # {} THEN {kev.filter} ELSE {})
    BY DEF FedFilter
  <2>3. got_evfilt \subseteq Node!Filters /\ node' = n
    BY <1>5 DEF NodeBasics, PassTypes, Added
  <2> QED
    BY <1>4, <1>6, <2>1, <2>2, <2>3 DEF EdgeGot
<1>11. UnseenThere' /\ GotNone'
  BY <1>1, FeedsFilterBasics
<1> QED
  BY <1>9, <1>10, <1>11 DEF EdgeInv

\* Nothing is registered anew: what an edge-triggered node is told of is reported, or
\* comes with what is still there.
LEMMA FeedsKeptEdge ==
  ASSUME NodeBasics, TrueInv, EdgeInv, Node!Feeds, NEW kev \in kevs, kevs' = kevs \ {kev}, FedFilter(kev),
         Node!EdgeTriggered(node), node' = Learnt(kev), UNCHANGED <<knote, user>>, at = "feed" => NoneAnew(kev)
  PROVE  EdgeInv'
<1>1. /\ at \in {"feed", "complete"} /\ UNCHANGED <<file, unseen>>
      /\ at' = (IF kevs' # {} THEN at
                ELSE IF revents' = {} THEN "kevent"
                ELSE IF at = "feed" /\ Node!EdgeTriggered(node) THEN "edge" ELSE "report")
  BY FeedsIs
<1>2. PICK n : n = Learnt(kev)
  OBVIOUS
<1>3. PICK f : f = kev.filter
  OBVIOUS
<1>4. /\ kev \in FileEvents /\ f \in Node!Filters /\ n \in NodeRecords /\ n.mode = node.mode
      /\ n.events = node.events /\ n.eof_state = Node!EofState(node, kev) /\ node' = n
      /\ node \in NodeRecords
  BY <1>2, <1>3, LearntIs DEF FedFilter, FileEvents, NodeBasics, NodeTypes
<1>5. Node!get_needed_filters(node)' = Node!get_needed_filters(n) /\ Node!EdgeTriggered(n)
  BY <1>1, <1>4, NeededKeeps DEF Node!EdgeTriggered
<1>6. knote[f] # "none" /\ EdgeOn /\ EdgeOn'
  <2>1. knote[f] # "none"
    BY <1>3, <1>4, UserIsNone DEF EdgeInv, OfFilters
  <2> QED
    BY <1>4, <1>5, <2>1 DEF EdgeOn, Node!EdgeTriggered
<1>7. EdgeFilters /\ EdgeGot /\ EdgeNoticed /\ EdgeTold
  BY <1>6 DEF EdgeInv
<1>8. UnseenThere' /\ GotNone'
  BY <1>1, FeedsFilterBasics
<1>9. OfFilters'
  BY <1>4 DEF EdgeInv, OfFilters, Node!EdgeTriggered
<1>10. file.kind = "socket" =>
         /\ n.eof_state = IF kev.eof THEN node.eof_state \cup {f} ELSE node.eof_state
         /\ n.eof_state \subseteq file.ended /\ file.ended \subseteq Node!Filters
  <2>1. file.kind = "socket" => /\ f \in node.eof_state => kev.eof
                                /\ kev.eof => f \in file.ended
                                /\ node.eof_state \subseteq file.ended
    BY <1>3 DEF NodeBasics, Known, KevKnown
  <2>2. file.ended \subseteq Node!Filters
    BY DEF NodeBasics, FileOk, FileRecords
  <2> QED
    BY <1>3, <1>4, <2>1, <2>2 DEF Node!EofState
<1>11. \/ file.kind = "socket" /\ n.eof_state = Node!Filters
       \/ \A g \in Node!Filters : knote[g] = "none" <=> Node!get_needed_filters(n)[g] = "none"
  <2>1. CASE Node!get_needed_filters(n) = Node!get_needed_filters(node)
    <3>1. CASE file.kind = "socket" /\ node.eof_state = Node!Filters
      BY <1>4, <1>10, <3>1
    <3>2. CASE \A g \in Node!Filters : knote[g] = "none" <=> Node!get_needed_filters(node)[g] = "none"
      BY <2>1, <3>2
    <3> QED
      BY <1>7, <3>1, <3>2 DEF EdgeFilters
  <2>2. CASE Node!get_needed_filters(n) # Node!get_needed_filters(node)
    <3>1. file.kind = "socket"
      BY <1>4, <2>2, EdgeIndependent
    <3>2. CASE at = "feed"
      BY <1>2, <1>4, <2>2, <3>1, <3>2 DEF NoneAnew
    <3>3. CASE at = "complete"
      <4>1. PICK g \in got_evfilt : \A k \in kevs : k.filter # g
        BY <1>7, <3>1, <3>3 DEF EdgeGot
      <4>2. g # f /\ g \in Node!Filters /\ Node!Filters = {f, g}
        BY <1>3, <1>4, <4>1, FiltersAre DEF NodeBasics, PassTypes
      <4>3. n.eof_state # node.eof_state
        <5> SUFFICES ASSUME n.eof_state = node.eof_state PROVE FALSE
          OBVIOUS
        <5>1. n = node
          BY <1>2, <1>4 DEF Learnt, NodeRecords
        <5> QED
          BY <2>2, <5>1
      <4>4. n.eof_state = node.eof_state \cup {f} /\ f \notin node.eof_state
        BY <1>10, <3>1, <4>3
      <4>5. CASE g \in node.eof_state
        BY <1>4, <3>1, <4>2, <4>4, <4>5 DEF NodeRecords
      <4>6. CASE g \notin node.eof_state
        <5>1. node.eof_state = {} /\ n.eof_state # Node!Filters /\ node.eof_state # Node!Filters
          BY <1>4, <4>2, <4>4, <4>6 DEF NodeRecords
        <5>2. knote[g] # "none"
          BY <1>7, <3>1, <4>1, <4>6 DEF EdgeGot
        <5>3. \A h \in Node!Filters : knote[h] # "none"
          BY <1>6, <4>2, <5>2
        <5>4. \A h \in Node!Filters : Node!get_needed_filters(node)[h] # "none"
          BY <1>7, <5>1, <5>3 DEF EdgeFilters
        <5>5. \A h \in Node!Filters : Node!get_needed_filters(n)[h] # "none"
          BY <1>4, <3>1, <5>1, <5>4, BothNeeded
        <5> QED
          BY <5>3, <5>5
      <4> QED
        BY <4>5, <4>6
    <3> QED
      BY <1>1, <3>2, <3>3
  <2> QED
    BY <2>1, <2>2
<1>12. EdgeFilters'
  BY <1>1, <1>4, <1>5, <1>7, <1>11 DEF EdgeFilters
<1>13. EdgeGot'
  <2> SUFFICES ASSUME file.kind = "socket" PROVE EdgeGot'
    BY <1>1 DEF EdgeGot
  <2>1. got_evfilt' = got_evfilt \cup (IF revents' # {} THEN {f} ELSE {})
    BY <1>3 DEF FedFilter
  <2>2. at' = "edge" => got_evfilt' # {}
    BY <1>1, <2>1
  <2>3. at' = "complete" => \E g \in got_evfilt' : \A k \in kevs' : k.filter # g
    BY <1>1, <1>7, <2>1 DEF EdgeGot
  <2>4. \A g \in got_evfilt' : g \in n.eof_state \/ knote[g] # "none"
    BY <1>6, <1>7, <1>10, <2>1 DEF EdgeGot
  <2> QED
    BY <1>1, <1>4, <2>2, <2>3, <2>4 DEF EdgeGot
<1>14. EdgeNoticed'
  <2> SUFFICES ASSUME file.kind = "socket" PROVE EdgeNoticed'
    BY <1>1 DEF EdgeNoticed
  <2>1. ASSUME NEW g \in Node!Filters, knote[g] = "clear", g \in file.ended
        PROVE  g \in n.eof_state \/ EndComes(g)'
    <3>1. CASE g \in node.eof_state
      BY <1>10, <3>1
    <3>2. CASE EndComes(g)
      <4>1. PICK k \in kevs : k # Node!UserEvent /\ k.filter = g /\ k.eof
        BY <3>2 DEF EndComes
      <4>2. CASE k = kev
        BY <1>3, <1>10, <4>1, <4>2
      <4>3. CASE k # kev
        BY <4>1, <4>3 DEF EndComes
      <4> QED
        BY <4>2, <4>3
    <3> QED
      BY <1>7, <2>1, <3>1, <3>2 DEF EdgeNoticed
  <2>2. \A k \in kevs' : UpToDate(k)'
    BY <1>1, <1>7 DEF EdgeNoticed, UpToDate
  <2> QED
    BY <1>1, <1>4, <2>1, <2>2 DEF EdgeNoticed
<1>15. EdgeTold'
  <2>1. revents' = (revents \cup Node!EventBits(kev, n.eof_state)) \cap Node!Asked(node)
    BY <1>4 DEF FedFilter
  <2>2. \A k, e : Gives(k, e) => Gives(k, e)'
    BY <1>1 DEF Gives, Over
  <2> SUFFICES ASSUME NEW e \in unseen, e \notin revents' PROVE Carried(e)'
    BY <1>1 DEF EdgeTold
  <2>3. e \in Node!Events(file) /\ e \in Node!Asked(node)
    BY DEF EdgeInv, UnseenThere
  <2>4. e \notin revents /\ e \notin Node!EventBits(kev, n.eof_state)
    BY <2>1, <2>3
  <2>5. /\ e # "ERR" \/ ~(kev.eof /\ kev.error)
        /\ e \notin Node!EofEvents(kev, n.eof_state)
        /\ e # Node!Readiness[f] \/ (file.kind \in Node!Fifos /\ n.eof_state # {} /\ ~kev.some)
    BY <1>3, <2>4 DEF Node!EventBits, Node!When
  <2>6. FileOk(file) /\ file \in FileRecords
    BY DEF NodeBasics, FileOk
  <2>7. CASE \E g \in Node!Filters : knote[g] = "fired" /\ (g \in Carriers(e) \/ Over(file))
    BY <1>1, <2>7 DEF Carried, Over
  <2>8. CASE \E k \in kevs : k # kev /\ Gives(k, e)
    BY <2>2, <2>8 DEF Carried
  <2>9. CASE Gives(kev, e)
    <3>1. file.kind # "socket" => (n.eof_state # {} <=> kev.eof)
      BY <1>4 DEF Node!EofState, Node!Filters
    <3>2. CASE e \in {"IN", "OUT"} /\ f \in Carriers(e) /\ (file.kind \in Node!Fifos /\ kev.eof => kev.some)
      <4>1. e = Node!Readiness[f]
        BY <3>2, FiltersAre, CarriersAre
      <4>2. file.kind \in Node!Fifos => file.kind # "socket"
        BY DEF Node!Fifos
      <4> QED
        BY <2>5, <3>1, <3>2, <4>1, <4>2
    <3>3. CASE file.kind = "socket" /\ kev.eof /\ (e = "RDHUP" => f = "READ" \/ Over(file))
               /\ (e \in {"IN", "OUT"} => Over(file))
      <4>1. n.eof_state = node.eof_state \cup {f}
        BY <1>10, <3>3
      <4>2. Node!EofEvents(kev, n.eof_state) =
              Node!When("READ" \in n.eof_state, "IN") \cup Node!When("READ" \in n.eof_state, "RDHUP")
              \cup Node!When("WRITE" \in n.eof_state, "OUT") \cup Node!When(n.eof_state = Node!Filters, "HUP")
        BY <3>3, <4>1 DEF Node!EofEvents, Node!When, Node!Fifos
      <4>3. /\ e = "RDHUP" => "READ" \notin n.eof_state
            /\ e = "IN" => "READ" \notin n.eof_state
            /\ e = "OUT" => "WRITE" \notin n.eof_state
            /\ e = "HUP" => n.eof_state # Node!Filters
        BY <2>5, <4>2 DEF Node!When
      <4>4. /\ e \in {"IN", "OUT", "RDHUP", "HUP", "ERR"}
            /\ e = "ERR" => file.error
            /\ e = "HUP" => file.ended = Node!Filters
        BY <2>3, <2>6, <3>3, EventsOf
      <4>5. Over(file)
        <5>1. e = "RDHUP" /\ f = "READ" => FALSE
          BY <4>1, <4>3
        <5> QED
          BY <2>6, <3>3, <4>4, <5>1 DEF Over, FileOk
      <4>6. CASE e = "ERR"
        <5>1. ~kev.error /\ file.error
          BY <2>5, <3>3, <4>4, <4>6
        <5>2. UpToDate(kev)
          BY <1>7, <3>3 DEF EdgeNoticed
        <5>3. knote[f] = "fired"
          BY <1>3, <3>3, <5>1, <5>2 DEF UpToDate
        <5> QED
          BY <1>1, <1>4, <4>5, <5>3 DEF Carried, Over
      <4>7. CASE e # "ERR"
        <5>1. n.eof_state # Node!Filters
          BY <4>3, <4>4, <4>7, FiltersAre
        <5>2. n.eof_state = {f}
          BY <1>4, <4>1, <5>1, FiltersAre DEF NodeRecords
        <5>3. PICK g \in Node!Filters : g # f
          BY FiltersAre
        <5>4. Node!get_needed_filters(n)[g] # "none"
          BY <1>4, <3>3, <5>2, <5>3, OtherEnd
        <5>5. knote[g] # "none"
          BY <1>11, <5>1, <5>4
        <5>6. knote[g] \in {"clear", "fired"}
          BY <1>7, <5>5 DEF EdgeFilters, NodeBasics, NodeTypes
        <5>7. CASE knote[g] = "fired"
          BY <1>1, <4>5, <5>7 DEF Carried, Over
        <5>8. CASE knote[g] = "clear"
          <6>1. g \in file.ended /\ g \notin node.eof_state
            BY <4>1, <4>5, <5>2, <5>3 DEF Over
          <6>2. PICK k \in kevs : k # Node!UserEvent /\ k.filter = g /\ k.eof
            BY <1>7, <3>3, <5>8, <6>1 DEF EdgeNoticed, EndComes
          <6>3. k # kev /\ Gives(k, e)
            BY <1>3, <4>5, <5>3, <6>2 DEF Gives
          <6> QED
            BY <2>2, <6>2, <6>3 DEF Carried
        <5> QED
          BY <5>6, <5>7, <5>8
      <4> QED
        BY <4>6, <4>7
    <3>4. CASE file.kind \in Node!Fifos /\ kev.eof /\ e \notin {"IN", "OUT"}
      <4>1. (e = "HUP" /\ "READ" \in file.ended) \/ (e = "ERR" /\ "WRITE" \in file.ended)
        BY <2>3, <2>6, <3>4, EventsOf
      <4>2. (e = "HUP" => file.kind = "in") /\ (e = "ERR" => file.kind = "out")
        BY <2>6, <3>4, <4>1 DEF FileOk, Node!Fifos
      <4>3. (e = "HUP" => f = "READ") /\ (e = "ERR" => f = "WRITE")
        BY <1>4, <1>6, <4>2, FifoOwn
      <4>4. Node!EofEvents(kev, n.eof_state) = {IF f = "READ" THEN "HUP" ELSE "ERR"}
        BY <1>3, <3>1, <3>4 DEF Node!EofEvents, Node!Fifos
      <4> QED
        BY <2>5, <4>1, <4>3, <4>4, FiltersAre
    <3>5. CASE file.kind \notin Node!Fifos \cup {"socket"} /\ kev.eof /\ e \notin {"IN", "OUT"}
      <4>1. e = "HUP"
        BY <2>3, <2>6, <3>5, EventsOf
      <4>2. Node!EofEvents(kev, n.eof_state) = {"HUP"}
        BY <3>1, <3>5 DEF Node!EofEvents, Node!Fifos
      <4> QED
        BY <2>5, <4>1, <4>2
    <3>6. \/ e \in {"IN", "OUT"} /\ f \in Carriers(e) /\ (file.kind \in Node!Fifos /\ kev.eof => kev.some)
          \/ e = "RDHUP" /\ f = "READ" /\ kev.eof
          \/ e \in {"HUP", "ERR"} /\ kev.eof
          \/ Over(file) /\ kev.eof
      BY <1>3, <2>9 DEF Gives
    <3> QED
      BY <3>2, <3>3, <3>4, <3>5, <3>6 DEF Over, Node!Fifos
  <2>10. Carried(e)
    BY <1>7, <2>4 DEF EdgeTold
  <2> QED
    BY <2>7, <2>8, <2>9, <2>10 DEF Carried
<1> QED
  BY <1>6, <1>8, <1>9, <1>12, <1>13, <1>14, <1>15 DEF EdgeInv

LEMMA FeedsEdge ==
  ASSUME NodeBasics, TrueInv, EdgeInv, Node!Feeds
  PROVE  EdgeInv'
<1>1. UNCHANGED <<file, unseen>>
  BY FeedsIs
<1>2. PICK kev \in kevs : kevs' = kevs \ {kev} /\ (FedOwn(kev) \/ FedFilter(kev))
  BY FeedsIs
<1>3. CASE FedOwn(kev)
  BY <1>1, <1>2, <1>3, FeedsOwnEdge
<1>4. CASE FedFilter(kev) /\ Node!EdgeTriggered(node)
  BY <1>2, <1>4, FeedsAnewEdge, FeedsKeptEdge DEF FedFilter
<1>5. CASE FedFilter(kev) /\ ~Node!EdgeTriggered(node)
  <2>1. UnseenThere' /\ GotNone' /\ node'.mode = node.mode
    BY <1>1, <1>5, FeedsFilterBasics
  <2>2. ~Node!EdgeTriggered(node)' /\ node'.mode # "edge"
    BY <1>5, <2>1 DEF Node!EdgeTriggered
  <2>3. OfFilters' /\ ~EdgeOn'
    BY <2>2 DEF OfFilters, EdgeOn
  <2> QED
    BY <2>1, <2>2, <2>3, EdgeOffKept
<1> QED
  BY <1>2, <1>3, <1>4, <1>5

LEMMA EdgeInit == Node!Init => EdgeInv
BY DEF Node!Init, Node!NoNode, EdgeInv, UnseenThere, GotNone, OfFilters, EdgeOn, Node!EdgeTriggered

LEMMA EdgeStep == NodeBasics /\ TrueInv /\ EdgeInv /\ Node!Next => EdgeInv'
<1> SUFFICES ASSUME NodeBasics, TrueInv, EdgeInv, Node!Next PROVE EdgeInv'
  OBVIOUS
<1>0. FileOk(file)
  BY DEF NodeBasics
<1>1. CASE Node!Environment
  BY <1>0, <1>1, EnvironmentIs, OpensEdge, ChangesEdge
<1>2. ASSUME NEW events \in Interests, NEW mode \in {"level", "edge", "oneshot"},
             Node!epoll_ctl_add_mod(events, mode)
      PROVE  EdgeInv'
  BY <1>2, EventSourcesAssumption, AddModEdge DEF Bits
<1>3. CASE Node!epoll_ctl_del
  BY <1>3, DelEdge
<1>4. CASE Node!epoll_wait
  BY <1>4, WaitEdge DEF Node!epoll_wait
<1>5. CASE Node!Retrieves
  BY <1>5, RetrievesEdge
<1>6. CASE Node!Feeds
  BY <1>6, FeedsEdge
<1>7. CASE Node!register_for_completion
  BY <1>7, CompletionEdge
<1>8. CASE Node!Reports
  BY <1>8, ReportsEdge
<1> QED
  BY <1>1, <1>2, <1>3, <1>4, <1>5, <1>6, <1>7, <1>8 DEF Node!Next, Node!Waiting

NodeInv == NodeBasics /\ TrueInv /\ LevelInv /\ EdgeInv

LEMMA NodeInvInit == Node!Init => NodeInv
BY NodeBasicsInit, TrueInit, LevelInit, EdgeInit DEF NodeInv

LEMMA NodeInvStep == NodeInv /\ Node!Next => NodeInv'
BY NodeBasicsStep, TrueStep, LevelStep, EdgeStep DEF NodeInv

\* A node of which nothing changes.
LEMMA NodeInvKept == NodeInv /\ UNCHANGED nodevars => NodeInv'
<1> SUFFICES ASSUME NodeInv, UNCHANGED nodevars PROVE NodeInv'
  OBVIOUS
<1>1. UNCHANGED <<file, node, knote, user, kevs, revents, got_evfilt, at, unseen, held>>
  BY DEF nodevars
<1>2. NodeBasics'
  BY <1>1 DEF NodeInv, NodeBasics, NodeTypes, PassTypes, Known, KevKnown, Node!EdgeTriggered
<1>3. TrueInv'
  BY <1>1 DEF NodeInv, TrueInv, KevTrue, Had, Node!Asked, Node!Reportable, Node!Events
<1>4. LevelInv'
  BY <1>1, LevelKept DEF NodeInv
<1>5. EdgeInv'
  <2>1. PICK n : n = node
    OBVIOUS
  <2>2. Node!get_needed_filters(node)' = Node!get_needed_filters(n)
    BY <1>1, <2>1, NeededKeeps
  <2>3. (UnseenThere => UnseenThere') /\ (GotNone => GotNone') /\ (OfFilters => OfFilters')
    BY <1>1 DEF UnseenThere, GotNone, OfFilters, Node!EdgeTriggered, Node!Asked, Node!Events
  <2>4. EdgeOn' <=> EdgeOn
    BY <1>1 DEF EdgeOn, Node!EdgeTriggered
  <2>5. (EdgeFilters => EdgeFilters') /\ (EdgeGot => EdgeGot')
    BY <1>1, <2>1, <2>2 DEF EdgeFilters, EdgeGot
  <2>6. EdgeNoticed => EdgeNoticed'
    BY <1>1 DEF EdgeNoticed, EndComes, UpToDate
  <2>7. EdgeTold => EdgeTold'
    BY <1>1 DEF EdgeTold, Carried, Gives, Over
  <2> QED
    BY <1>1, <2>3, <2>4, <2>5, <2>6, <2>7 DEF NodeInv, EdgeInv
<1> QED
  BY <1>2, <1>3, <1>4, <1>5 DEF NodeInv

\* What is reported was so since the thread looked.
LEMMA NodeReportsTrue == NodeInv => ReportsTrue
BY DEF NodeInv, TrueInv, ReportsTrue, Node!ReportsTrue

\* The kqueue is readable whenever an event is due.
LEMMA NodeDueReadable == NodeInv => DueReadable
<1> SUFFICES ASSUME NodeInv, at = "out", Node!Armed, Node!Due # {} PROVE Node!KqReadable
  BY DEF DueReadable, Node!DueReadable
<1>1. /\ NodeBasics /\ LevelInv /\ EdgeInv /\ kevs = {} /\ revents = {}
      /\ node.mode \in {"level", "edge", "oneshot"}
  BY DEF NodeInv, NodeBasics, PassTypes, NodeTypes, NodeRecords, Node!Armed, Node!Registered
<1>2. CASE node.mode = "level"
  BY <1>1, <1>2, LevelReadable DEF Node!Due
<1>3. CASE node.mode # "level"
  <2>1. PICK e \in unseen : TRUE
    BY <1>3 DEF Node!Due
  <2>2. CASE EdgeOn
    BY <1>1, <2>1, <2>2, EdgeReadable
  <2>3. CASE ~EdgeOn
    <3>1. node.mode = "oneshot" \/ (node.mode = "edge" /\ file.kind = "out")
      BY <1>1, <1>3, <2>3 DEF EdgeInv
    <3>2. user
      BY <1>3, <2>3, <3>1 DEF Node!Armed, EdgeOn, Node!EdgeTriggered
    <3> QED
      BY <3>2 DEF Node!KqReadable
  <2> QED
    BY <2>2, <2>3
<1> QED
  BY <1>1, <1>2, <1>3

-----------------------------------------------------------------------------
(* What is waited for is one of them *)

\* Each is as its own steps leave it, if the behaviour is about it, and otherwise at rest.
SourcesInv ==
  /\ InStep /\ offset \in Nat
  /\ EventFdRest \/ (source = "eventfd" /\ EventFdInv)
  /\ SignalRest \/ (source = "signalfd" /\ SignalInv)
  /\ TimerRest \/ (source = "timerfd" /\ TimerInv /\ TallyInv)
  /\ DetectorRest \/ (source = "step detector" /\ DetectorInv)
  /\ PpollRest \/ (source = "ppoll" /\ PpollInv)

LEMMA EachInv ==
  SourcesInv =>
    EventFdInv /\ SignalInv /\ TimerInv /\ TallyInv /\ DetectorInv /\ PpollInv
BY EventFdAtRest, SignalAtRest, TimerAtRest, DetectorAtRest, PpollAtRest, Zenon DEF SourcesInv

LEMMA SourcesInitInv == SourcesInit => SourcesInv
<1> SUFFICES ASSUME SourcesInit PROVE SourcesInv
  OBVIOUS
<1>1. event = Off
  BY DEF SourcesInit, Init, kqueue_event_init, Off
<1>2. EventFdRest
  BY Zenon DEF SourcesInit, Init, EventFdRest
<1>3. SignalRest
  BY Zenon DEF SourcesInit, Signal!Init, SignalRest
<1>4. TimerRest
  BY Zenon DEF SourcesInit, Timer!Init, TimerRest, Nobody
<1>5. DetectorRest
  BY Zenon DEF SourcesInit, Detector!Init, DetectorRest
<1>6. PpollRest
  BY Zenon DEF SourcesInit, Ppoll!Init, PpollRest
<1>7. offset \in Nat
  BY DEF SourcesInit
<1> QED
  BY <1>1, <1>2, <1>3, <1>4, <1>5, <1>6, <1>7 DEF SourcesInv, InStep

\* What a step leaves alone stays at rest, or as it was.
LEMMA EventFdStays ==
  ASSUME UNCHANGED <<installed, semaphore, counter, pc, value>>
  PROVE  /\ EventFdRest => EventFdRest'
         /\ EventFdInv /\ event' = event => EventFdInv'
BY DEF EventFdRest, EventFdInv, EventFdTypes, ClosedIdle, CounterInStep

LEMMA SignalStays ==
  ASSUME UNCHANGED signalvars
  PROVE  /\ SignalRest => SignalRest'
         /\ SignalInv /\ event' = event => SignalInv'
BY DEF signalvars, SignalRest, SignalInv, InStep, PendingReadable, Signal!PendingReadable,
       Signal!has_pending, Signal!Readable

LEMMA TimerStays ==
  ASSUME UNCHANGED timervars
  PROVE  /\ TimerRest => TimerRest'
         /\ TimerInv /\ TallyInv /\ offset' = offset => TimerInv' /\ TallyInv'
<1>1. TimerRest => TimerRest'
  BY DEF timervars, TimerRest
<1>2. ASSUME TimerInv, TallyInv, offset' = offset PROVE TimerInv' /\ TallyInv'
  <2>1. /\ now' \in Nat /\ now <= now' /\ offset' \in Nat
        /\ reader' \in [Readers -> {"idle", "reading", "polling"}]
        /\ inside \in Reading => reader'[inside.by] = "reading"
    BY <1>2 DEF timervars, TimerInv, TimerTypes, InRead
  <2>2. TallyInv'
    BY <1>2 DEF timervars, TallyInv, Armed, Jumps, Timer!can_jump, Tallied, Begun
  <2> QED
    BY <1>2, <2>1, <2>2, QuietInv DEF timervars
<1> QED
  BY <1>1, <1>2

LEMMA DetectorStays ==
  ASSUME UNCHANGED detectorvars
  PROVE  /\ DetectorRest => DetectorRest'
         /\ DetectorInv /\ offset' = offset => DetectorInv'
<1>1. DetectorRest => DetectorRest'
  BY DEF detectorvars, DetectorRest
<1>2. Joined' = Joined /\ Current' = Current
  BY DEF detectorvars, Joined, Current
<1> QED
  BY <1>1, <1>2 DEF detectorvars, DetectorInv, DetectorTypes

LEMMA PpollStays ==
  ASSUME UNCHANGED ppollvars
  PROVE  (PpollRest => PpollRest') /\ (PpollInv => PpollInv')
BY DEF ppollvars, PpollRest, PpollInv, Masks, Watching, Remembered, Unhandled, Told

LEMMA SourcesNextInv == SourcesInv /\ [SourcesNext]_allvars => SourcesInv'
<1> SUFFICES ASSUME SourcesInv, [SourcesNext]_allvars PROVE SourcesInv'
  OBVIOUS
<1>1. CASE source' = source
           /\ UNCHANGED <<vars, signalvars, timervars, offset, detectorvars, ppollvars>>
  <2>1. /\ UNCHANGED <<installed, semaphore, counter, pc, value>> /\ event' = event
        /\ UNCHANGED signalvars /\ UNCHANGED timervars /\ UNCHANGED detectorvars
        /\ UNCHANGED ppollvars /\ offset' = offset /\ source' = source
    BY <1>1 DEF vars
  <2>2. InStep'
    BY <2>1 DEF SourcesInv, InStep
  <2> QED
    BY <2>1, <2>2, EventFdStays, SignalStays, TimerStays, DetectorStays, PpollStays, Zenon
    DEF SourcesInv
<1>2. CASE Choose
  <2>1. /\ UNCHANGED <<installed, semaphore, counter, pc, value>> /\ event' = event
        /\ UNCHANGED signalvars /\ UNCHANGED timervars /\ UNCHANGED detectorvars
        /\ UNCHANGED ppollvars /\ offset' = offset
    BY <1>2 DEF Choose, vars
  <2>2. /\ source # "eventfd" /\ source # "signalfd" /\ source # "timerfd"
        /\ source # "step detector" /\ source # "ppoll"
    BY <1>2 DEF Choose
  <2>3. InStep'
    BY <2>1 DEF SourcesInv, InStep
  <2> QED
    BY <2>1, <2>2, <2>3, EventFdStays, SignalStays, TimerStays, DetectorStays, PpollStays, Zenon
    DEF SourcesInv
<1>3. CASE Only("eventfd") /\ Next
           /\ UNCHANGED <<signalvars, timervars, offset, detectorvars, nodevars, ppollvars>>
  <2>1. /\ UNCHANGED signalvars /\ UNCHANGED timervars /\ UNCHANGED detectorvars
        /\ UNCHANGED ppollvars /\ offset' = offset /\ source = "eventfd" /\ source' = "eventfd"
    BY <1>3 DEF Only
  <2>2. EventFdInv'
    BY <1>3, EachInv, EventFdNextInv
  <2>3. InStep'
    BY <2>2 DEF EventFdInv, CounterInStep, InStep
  <2>4. /\ source # "signalfd" /\ source # "timerfd" /\ source # "step detector"
        /\ source # "ppoll"
    BY <2>1
  <2> QED
    BY <2>1, <2>2, <2>3, <2>4, SignalStays, TimerStays, DetectorStays, PpollStays, Zenon
    DEF SourcesInv
<1>4. CASE Only("signalfd") /\ Signal!Next
           /\ UNCHANGED <<eventvars, pc, timervars, offset, detectorvars, nodevars, ppollvars>>
  <2>1. /\ UNCHANGED <<installed, semaphore, counter, pc, value>>
        /\ UNCHANGED timervars /\ UNCHANGED detectorvars
        /\ UNCHANGED ppollvars /\ offset' = offset /\ source = "signalfd" /\ source' = "signalfd"
    BY <1>4 DEF Only, eventvars
  <2>2. SignalInv'
    BY <1>4, EachInv, SignalNextInv
  <2>3. InStep'
    BY <2>2 DEF SignalInv
  <2>4. /\ source # "eventfd" /\ source # "timerfd" /\ source # "step detector"
        /\ source # "ppoll"
    BY <2>1
  <2> QED
    BY <2>1, <2>2, <2>3, <2>4, EventFdStays, TimerStays, DetectorStays, PpollStays, Zenon
    DEF SourcesInv
<1>5. CASE Only("timerfd") /\ Timer!Next
           /\ UNCHANGED <<eventvars, event, pc, signalvars, detectorvars, nodevars, ppollvars>>
  <2>1. /\ UNCHANGED <<installed, semaphore, counter, pc, value>> /\ event' = event
        /\ UNCHANGED signalvars /\ UNCHANGED detectorvars
        /\ UNCHANGED ppollvars /\ source = "timerfd" /\ source' = "timerfd"
    BY <1>5 DEF Only, eventvars
  <2>2. TimerInv' /\ TallyInv'
    <3>1. Offsets \subseteq Nat
      BY EventSourcesAssumption DEF EventSourcesAssumption
    <3> QED
      BY <1>5, <3>1, EachInv, TimerNextInv, TallyNextInv
  <2>3. InStep' /\ offset' \in Nat
    BY <2>1, <2>2 DEF TimerInv, TimerTypes, SourcesInv, InStep
  <2>4. /\ source # "eventfd" /\ source # "signalfd" /\ source # "step detector"
        /\ source # "ppoll"
    BY <2>1
  <2> QED
    BY <2>1, <2>2, <2>3, <2>4, EventFdStays, SignalStays, DetectorStays, PpollStays, Zenon
    DEF SourcesInv
<1>6. CASE Only("step detector") /\ Detector!Next
           /\ UNCHANGED <<vars, signalvars, timervars, nodevars, ppollvars>>
  <2>1. /\ UNCHANGED <<installed, semaphore, counter, pc, value>> /\ event' = event
        /\ UNCHANGED signalvars /\ UNCHANGED timervars
        /\ UNCHANGED ppollvars /\ source = "step detector" /\ source' = "step detector"
    BY <1>6 DEF Only, vars
  <2>2. DetectorInv'
    BY <1>6, EachInv, DetectorNextInv
  <2>3. InStep' /\ offset' \in Nat
    BY <2>1, <2>2 DEF DetectorInv, DetectorTypes, SourcesInv, InStep
  <2>4. /\ source # "eventfd" /\ source # "signalfd" /\ source # "timerfd"
        /\ source # "ppoll"
    BY <2>1
  <2> QED
    BY <2>1, <2>2, <2>3, <2>4, EventFdStays, SignalStays, TimerStays, PpollStays, Zenon
    DEF SourcesInv
<1>7. CASE Only("ppoll") /\ Ppoll!Next
           /\ UNCHANGED <<vars, signalvars, timervars, offset, detectorvars, nodevars>>
  <2>1. /\ UNCHANGED <<installed, semaphore, counter, pc, value>> /\ event' = event
        /\ UNCHANGED signalvars /\ UNCHANGED timervars /\ UNCHANGED detectorvars
        /\ offset' = offset /\ source = "ppoll" /\ source' = "ppoll"
    BY <1>7 DEF Only, vars
  <2>2. PpollInv'
    BY <1>7, EachInv, PpollNextInv
  <2>3. InStep'
    BY <2>1 DEF SourcesInv, InStep
  <2>4. /\ source # "eventfd" /\ source # "signalfd" /\ source # "timerfd"
        /\ source # "step detector"
    BY <2>1
  <2> QED
    BY <2>1, <2>2, <2>3, <2>4, EventFdStays, SignalStays, TimerStays, DetectorStays, Zenon
    DEF SourcesInv
<1>8. CASE Only("node") /\ Node!Next
           /\ UNCHANGED <<vars, signalvars, timervars, offset, detectorvars, ppollvars>>
  BY <1>1, <1>8 DEF Only
<1>9. CASE UNCHANGED allvars
  BY <1>1, <1>9 DEF allvars
<1> QED
  BY <1>2, <1>3, <1>4, <1>5, <1>6, <1>7, <1>8, <1>9 DEF SourcesNext

LEMMA SourcesNode == SourcesNext => Node!Next \/ UNCHANGED nodevars
<1> SUFFICES ASSUME SourcesNext PROVE Node!Next \/ UNCHANGED nodevars
  OBVIOUS
<1> QED
  BY DEF SourcesNext, Choose

LEMMA NodeInvariant == SourcesSpec => []NodeInv
<1>1. SourcesInit => NodeInv
  BY NodeInvInit DEF SourcesInit
<1>2. NodeInv /\ [SourcesNext]_allvars => NodeInv'
  <2>1. UNCHANGED allvars => UNCHANGED nodevars
    BY DEF allvars
  <2> QED
    BY <2>1, SourcesNode, NodeInvStep, NodeInvKept
<1> QED
  BY <1>1, <1>2, PTL DEF SourcesSpec

LEMMA SourcesInvariant == SourcesSpec => []SourcesInv
BY SourcesInitInv, SourcesNextInv, PTL DEF SourcesSpec

\* While there is something to read the kqueue is readable (eventfd_ctx.c): for any number
\* of readers and any limit of the counter.
THEOREM CounterReadableInvariant == SourcesSpec => []CounterReadable
BY SourcesInvariant, EachInv, Readable, PTL

\* While the mutex of a signalfd is free, a pending signal it accepts has made its kqueue
\* readable (signalfd_ctx.c), for any threads that read, poll and call ppoll, and any
\* signals, wherever they are delivered or taken.
THEOREM PendingReadableInvariant == SourcesSpec => []PendingReadable
<1>1. SignalInv => PendingReadable
  BY DEF SignalInv
<1> QED
  BY SourcesInvariant, EachInv, <1>1, PTL

\* While the mutex of a timerfd is free, an armed timer has the one event it needs, at its
\* next expiration or in the past (timerfd_ctx.c): for any readers, times, periods and
\* offsets of the clocks, whatever was set and read, and however the clock was stepped.
THEOREM EventArmedInvariant == SourcesSpec => []EventArmed
<1>1. TimerInv => EventArmed
  BY EventArmedIs DEF TimerInv
<1> QED
  BY SourcesInvariant, EachInv, <1>1, PTL

\* What the reads of a timer whose clock cannot be set have returned adds up, at the end
\* of each of them, to the periods that have ended since it was set, and a blocking read
\* returns one at least (timerfd_ctx.c): for any times, periods and readers, whatever
\* gettime and the reads counted and when.
THEOREM ExpirationsExactHolds == SourcesSpec => ExpirationsExact
<1>1. ASSUME SourcesInv, [SourcesNext]_allvars PROVE [Exact]_(Timer!vars)
  <2> SUFFICES ASSUME Timer!vars' # Timer!vars PROVE Exact
    OBVIOUS
  <2>1. TimerInv /\ TallyInv
    BY <1>1, EachInv
  <2>2. CASE source = "timerfd"
    <3>1. Timer!Next
      BY <1>1, <2>2 DEF SourcesNext, Only, Choose, allvars, timervars, vars, Timer!vars
    <3> QED
      BY <2>1, <3>1, NextExact
  <2>3. CASE source # "timerfd"
    <3>1. inside = Nobody
      BY <1>1, <2>3 DEF SourcesInv, TimerRest
    <3>2. inside.op # "read"
      BY <3>1 DEF Nobody, Timer!Nobody
    <3> QED
      BY <3>2 DEF Exact
  <2> QED
    BY <2>2, <2>3
<1> QED
  BY SourcesInvariant, <1>1, PTL
  DEF SourcesSpec, ExpirationsExact, Timer!ExpirationsExact, Exact, Nobody, Jumps

\* While there are timers to tell of steps of the clock, one thread of the current
\* generation looks at it, and none otherwise (timerfd.c, timer_thread.c): for any timers.
THEOREM OneDetectorInvariant == SourcesSpec => []OneDetector
BY SourcesInvariant, EachInv, OneCurrent, PTL

\* An event of a registered descriptor is reported only if its file had it at some time
\* since the thread looked (epollfd_ctx.c): what the shim keeps of the ends of a file from
\* call to call is never staler.  For every kind of file and any events asked for.
THEOREM ReportsTrueInvariant == SourcesSpec => []ReportsTrue
BY NodeInvariant, NodeReportsTrue, PTL

\* Between the calls of epoll_wait the kqueue is readable whenever an event is due, with
\* the filters that get_needed_filters chooses (epollfd_ctx.c): level-triggered while there
\* is one, edge-triggered or one-shot once it came up and was not reported.
THEOREM DueReadableInvariant == SourcesSpec => []DueReadable
BY NodeInvariant, NodeDueReadable, PTL

\* compat_ppoll.c: a thread asleep in poll is woken by the kqueue if the handler of a signal
\* that it waits for ran after the mask was changed and before poll was called.
THEOREM SignalEndsWaitInvariant == SourcesSpec => []SignalEndsWait
BY SourcesInvariant, EachInv, WaitEnds, PTL

\* Every step of eventfd_ctx.c is one of the abstract counter or changes nothing of it:
\* what reads return is what was written.  (That a waiting reader gets it, the fairness of
\* ImplementsCounter, is model-checked.)
THEOREM CounterRefinement == SourcesSpec => Counter!Init /\ [][Counter!Next]_(Counter!vars)
<1>1. SourcesInit => Counter!Init
  BY CounterInit DEF SourcesInit
<1>2. ASSUME SourcesInv, SourcesInv', [SourcesNext]_allvars
      PROVE  [Counter!Next]_(Counter!vars)
  <2>1. CASE UNCHANGED <<semaphore, counter, pc, value>>
    BY <2>1 DEF Counter!vars
  <2>2. CASE source = "eventfd" /\ source' = source /\ Next
    <3>1. EventFdInv /\ EventFdInv'
      <4>1. EventFdInv'
        BY <1>2, <2>2, EachInv, EventFdNextInv
      <4> QED
        BY <1>2, <4>1, EachInv
    <3> QED
      BY <2>2, <3>1, CounterSteps
  <2> QED
    BY <1>2, <2>1, <2>2 DEF SourcesNext, Only, Choose, allvars, vars, eventvars
<1> QED
  BY SourcesInvariant, <1>1, <1>2, PTL DEF SourcesSpec
=============================================================================
