------------------------------ MODULE TimerFd -------------------------------
(***************************************************************************)
(* One timerfd of the epoll shim (timerfd.c, timerfd_ctx.c).  The timer's  *)
(* settings live in the process; one-shot timer events of a kqueue make    *)
(* the descriptor readable: ident 0 at the next expiration, ident 1 at     *)
(* once when a step of CLOCK_REALTIME cancels the timer.  The calls run    *)
(* under the description's mutex, but time passes and the clock is stepped *)
(* also between the system calls of one section.  A section is cut where   *)
(* that makes a difference; `inside' holds what it knows at the cut.       *)
(***************************************************************************)
EXTENDS Integers, FiniteSets

CONSTANTS
  Readers,    \* the threads that read
  MaxTime,    \* the bound of the monotonic clock
  Offsets,    \* the values of CLOCK_REALTIME - CLOCK_MONOTONIC (KERN_BOOTTIME)
  Values,     \* the it_value and
  Intervals   \* the it_interval a caller asks for; 0 disarms, is no interval

VARIABLES
  now,        \* CLOCK_MONOTONIC
  offset,     \* KERN_BOOTTIME
  exists, nonblock,
  timer,      \* the TimerFDCtx
  kq,         \* the timer events of the kqueue: ident and the time they are due
  pc,         \* pc[t]: "idle", "reading" (in timerfd_ctx_read) or "polling"
  inside,     \* where the owner of the mutex is
  lost,       \* the armed timer's event was given up or is for a clock since stepped
  tally       \* since it was set: its first expiration, and how many reads have returned

vars == <<now, offset, exists, nonblock, timer, kq, pc, inside, lost, tally>>

Nobody == [op |-> "nobody"]

timerfd_ctx_init(clockid) ==
  [clockid |-> clockid, timer_type |-> "UNSPECIFIED", is_abstime |-> FALSE,
   is_cancel_on_set |-> FALSE, force_cancel |-> FALSE, monotonic_offset |-> 0,
   it_value |-> 0, it_interval |-> 0, nr_expirations |-> 0]

Init ==
  /\ now = 1 /\ offset \in Offsets
  /\ exists = FALSE /\ nonblock = FALSE
  /\ timer = timerfd_ctx_init("MONOTONIC") /\ kq = {}
  /\ pc = [t \in Readers |-> "idle"] /\ inside = Nobody /\ lost = FALSE
  /\ tally = [first |-> 0, returned |-> 0]
-----------------------------------------------------------------------------
(* The settings *)

is_disarmed(tm)       == tm.it_value = 0
is_interval_timer(tm) == tm.it_interval # 0
can_jump(tm) == tm.clockid = "REALTIME" /\ tm.timer_type = "ABSOLUTE"
disarm(tm)   == [tm EXCEPT !.it_value = 0, !.timer_type = "UNSPECIFIED"]

get_clocktime(clockid, timer_type) ==
  IF clockid = "REALTIME" /\ timer_type = "ABSOLUTE" THEN now + offset ELSE now
Clock == get_clocktime(timer.clockid, timer.timer_type)

\* Mutant: periods that were counted and not read yet are forgotten.
MutUpdate(tm, time) ==
  IF is_disarmed(tm) \/ time < tm.it_value THEN tm
  ELSE IF ~is_interval_timer(tm)
    THEN disarm([tm EXCEPT !.nr_expirations = @ + 1])
    ELSE LET expirations == (time - tm.it_value) \div tm.it_interval + 1
         IN  [tm EXCEPT !.nr_expirations = expirations,
                        !.it_value = @ + expirations * tm.it_interval]

\* Counts what has expired by `time'; a timer without interval is disarmed then.
update_to_current_time(tm, time) ==
  IF is_disarmed(tm) \/ time < tm.it_value THEN tm
  ELSE IF ~is_interval_timer(tm)
    THEN disarm([tm EXCEPT !.nr_expirations = @ + 1])
    ELSE LET expirations == (time - tm.it_value) \div tm.it_interval + 1
         IN  [tm EXCEPT !.nr_expirations = @ + expirations,
                        !.it_value = @ + expirations * tm.it_interval]

\* The old offset is forgotten; stepped: whether there was a step since it was noted.
Checked(tm) ==
  LET noted == IF can_jump(tm) THEN [tm EXCEPT !.monotonic_offset = offset] ELSE tm
  IN  IF tm.clockid = "REALTIME" THEN [noted EXCEPT !.force_cancel = FALSE] ELSE tm
check_for_cancel(tm) ==
  /\ can_jump(tm) /\ (tm.force_cancel \/ tm.monotonic_offset # offset)
  /\ tm.is_cancel_on_set
SteppedSince == can_jump(timer) /\ timer.monotonic_offset # offset
-----------------------------------------------------------------------------
(* The kqueue *)

Without(ident, events) == {e \in events : e.ident # ident}
Fired    == {e \in kq : e.at <= now}
Readable == Fired # {}

\* The kernel gets a delay, not a time.
register_event(events, new, current_time) ==
  Without(0, events) \cup
    {[ident |-> 0, at |-> IF new > current_time THEN now + (new - current_time) ELSE now]}

\* Mutant: the event of a timer without interval is left to what was set before.
MutRearm(tm, events, current_time, need_delete) ==
  IF is_interval_timer(tm) /\ ~is_disarmed(tm)
    THEN register_event(events, tm.it_value, current_time)
    ELSE IF need_delete THEN Without(0, events) ELSE events

rearm_kevent(tm, events, current_time, need_delete) ==
  IF ~is_disarmed(tm) THEN register_event(events, tm.it_value, current_time)
  ELSE IF need_delete THEN Without(0, events) ELSE events

clear_force_cancel(tm, events) ==
  IF tm.clockid = "REALTIME" /\ tm.force_cancel THEN Without(1, events) ELSE events
-----------------------------------------------------------------------------
(* The world outside *)

Tick ==
  /\ now < MaxTime /\ now' = now + 1
  /\ UNCHANGED <<offset, exists, nonblock, timer, kq, pc, inside, lost, tally>>

\* clock_settime(CLOCK_REALTIME), by any process.
Step ==
  /\ offset' \in Offsets \ {offset}
  /\ UNCHANGED <<now, exists, nonblock, timer, kq, pc, inside, lost, tally>>

timerfd_create(clockid, block) ==
  /\ ~exists /\ exists' = TRUE /\ nonblock' = ~block
  /\ timer' = timerfd_ctx_init(clockid)
  /\ UNCHANGED <<now, offset, kq, pc, inside, lost, tally>>
-----------------------------------------------------------------------------
(* Setting and looking *)

\* timerfd_ctx_settime up to the kevent call that registers the event.
settime(is_abstime, cancel_on_set, value, interval, wants_old) ==
  LET type     == IF is_abstime THEN "ABSOLUTE" ELSE "RELATIVE"
      time     == get_clocktime(timer.clockid, type)
      old      == IF wants_old /\ timer.timer_type # "UNSPECIFIED"
                  THEN update_to_current_time(timer, Clock) ELSE timer
      it_value == IF is_abstime THEN value ELSE time + value
  IN
  IF value = 0
  THEN /\ kq' = Without(0, kq)
       /\ timer' = [disarm(old) EXCEPT !.is_cancel_on_set = FALSE, !.is_abstime = FALSE]
  ELSE /\ kq' = register_event(kq, it_value, time)
       /\ timer' = [old EXCEPT
            !.it_value = it_value, !.it_interval = interval, !.timer_type = type,
            !.is_cancel_on_set = cancel_on_set /\ is_abstime /\ timer.clockid = "REALTIME",
            !.is_abstime = is_abstime]

timerfd_settime(is_abstime, cancel_on_set, value, interval, wants_old) ==
  /\ exists /\ inside = Nobody
  /\ settime(is_abstime, cancel_on_set, value, interval, wants_old)
  /\ inside' = [op |-> "settime", offset |-> offset]
  /\ tally' = [first |-> timer'.it_value, returned |-> 0]
  /\ UNCHANGED <<now, offset, exists, nonblock, pc, lost>>

\* The end of it.  A step in between is noted as if the event were for the new time.
SettimeEnds ==
  /\ inside.op = "settime"
  /\ timer' = Checked([timer EXCEPT !.nr_expirations = 0])
  /\ kq' = clear_force_cancel(timer, kq)
  /\ lost' = (can_jump(timer) /\ inside.offset # offset)
  /\ inside' = Nobody
  /\ UNCHANGED <<now, offset, exists, nonblock, pc, tally>>

timerfd_ctx_gettime(tm) ==
  IF tm.timer_type = "UNSPECIFIED" THEN tm ELSE update_to_current_time(tm, Clock)

timerfd_gettime ==
  /\ exists /\ inside = Nobody
  /\ timer' = timerfd_ctx_gettime(timer)
  /\ UNCHANGED <<now, offset, exists, nonblock, kq, pc, inside, lost, tally>>
-----------------------------------------------------------------------------
(* Reading *)

StartRead(t) ==
  /\ exists /\ pc[t] = "idle" /\ pc' = [pc EXCEPT ![t] = "reading"]
  /\ UNCHANGED <<now, offset, exists, nonblock, timer, kq, inside, lost, tally>>

\* Leaves timerfd_ctx_read with EAGAIN: returns it, or goes to poll.
Again(t) == pc' = [pc EXCEPT ![t] = IF nonblock THEN "idle" ELSE "polling"]

ReadDisarmed(t) ==
  /\ pc[t] = "reading" /\ inside = Nobody /\ timer.timer_type = "UNSPECIFIED"
  /\ Again(t)
  /\ UNCHANGED <<now, offset, exists, nonblock, timer, kq, inside, lost, tally>>

\* Takes the events that have fired, and looks for a step.
ReadDrains(t) ==
  LET idents == {e.ident : e \in Fired}
      cancelled == check_for_cancel(timer)
  IN
  /\ pc[t] = "reading" /\ inside = Nobody /\ timer.timer_type # "UNSPECIFIED"
  /\ timer' = Checked(timer)
  /\ kq' = clear_force_cancel(timer, kq \ Fired)
  /\ IF cancelled /\ 0 \in idents
     THEN \* ECANCELED, and the event is not registered again
          /\ pc' = [pc EXCEPT ![t] = "idle"] /\ lost' = TRUE /\ UNCHANGED inside
     ELSE /\ inside' = [op |-> "read", by |-> t, got |-> idents, cancelled |-> cancelled,
                        stepped |-> SteppedSince]
          /\ UNCHANGED <<pc, lost>>
  /\ UNCHANGED <<now, offset, exists, nonblock, tally>>

Counted(tm) == update_to_current_time(tm, Clock)

\* Nothing has expired and nothing woke the reader.
ReadFindsNothing(t) ==
  /\ inside.op = "read" /\ inside.by = t /\ ~inside.cancelled /\ inside.got = {}
  /\ Counted(timer).nr_expirations = 0
  /\ Again(t) /\ inside' = Nobody
  /\ lost' = (lost \/ inside.stepped)
  /\ UNCHANGED <<now, offset, exists, nonblock, timer, kq, tally>>

\* ECANCELED, or the number of expirations.  An event that came although nothing has
\* expired says the clock was set back: a cancellation, or the expiration after all.
\* (0 expirations of an interval timer: EAGAIN if nonblocking, else 0 bytes.)
ReadCounts(t) ==
  LET up       == IF inside.cancelled THEN timer ELSE Counted(timer)
      early    == ~inside.cancelled /\ up.nr_expirations = 0
      canceled == inside.cancelled \/ (early /\ up.is_cancel_on_set)
      over     == early /\ ~canceled /\ ~is_interval_timer(up)
      left     == IF inside.cancelled THEN up ELSE [up EXCEPT !.nr_expirations = 0]
      value    == IF canceled THEN 0 ELSE IF over THEN 1 ELSE up.nr_expirations
  IN
  /\ inside.op = "read" /\ inside.by = t /\ (early => inside.got # {})
  /\ timer' = IF over THEN disarm(left) ELSE left
  /\ kq' = rearm_kevent(timer', kq, Clock, 0 \notin inside.got)
  /\ lost' = SteppedSince
  /\ tally' = [tally EXCEPT !.returned = @ + value]
  /\ pc' = [pc EXCEPT ![t] = "idle"] /\ inside' = Nobody
  /\ UNCHANGED <<now, offset, exists, nonblock>>

PollReturns(t) ==
  /\ pc[t] = "polling" /\ Readable /\ pc' = [pc EXCEPT ![t] = "reading"]
  /\ UNCHANGED <<now, offset, exists, nonblock, timer, kq, inside, lost, tally>>

PollInterrupted(t) ==
  /\ pc[t] = "polling" /\ pc' = [pc EXCEPT ![t] = "idle"]
  /\ UNCHANGED <<now, offset, exists, nonblock, timer, kq, inside, lost, tally>>
-----------------------------------------------------------------------------
(* timerfd_ctx_realtime_change: the step detector or an epoll instance asks the timer  *)
(* to look at the clock                                                                *)

\* Also what poll_fun without revents comes to; with revents it says POLLIN.
LooksAtClock == exists /\ inside = Nobody

RealtimeChanged ==
  /\ LooksAtClock /\ SteppedSince
  /\ IF timer.is_cancel_on_set
     THEN /\ timer' = [timer EXCEPT !.monotonic_offset = offset, !.force_cancel = TRUE]
          /\ kq' = Without(1, kq) \cup {[ident |-> 1, at |-> now]}
          /\ UNCHANGED inside
     ELSE /\ timer' = [timer EXCEPT !.monotonic_offset = offset]
          /\ inside' = IF Readable THEN inside ELSE [op |-> "change"]
          /\ UNCHANGED kq
  /\ UNCHANGED <<now, offset, exists, nonblock, pc, lost, tally>>

\* "Slightly racy. The timer might have fired in the time between our check with
\* "poll" and the rearming below."
ChangeRearms ==
  /\ inside.op = "change" /\ inside' = Nobody
  /\ kq' = rearm_kevent(timer, kq, Clock, TRUE) /\ lost' = SteppedSince
  /\ UNCHANGED <<now, offset, exists, nonblock, timer, pc, tally>>

timerfd_close ==
  /\ exists /\ inside = Nobody /\ \A t \in Readers : pc[t] = "idle"
  /\ exists' = FALSE /\ nonblock' = FALSE
  /\ timer' = timerfd_ctx_init("MONOTONIC") /\ kq' = {} /\ lost' = FALSE
  /\ tally' = [first |-> 0, returned |-> 0]
  /\ UNCHANGED <<now, offset, pc, inside>>
epoll_shim_fcntl(block) ==
  /\ exists /\ inside = Nobody /\ nonblock' = ~block
  /\ UNCHANGED <<now, offset, exists, timer, kq, pc, inside, lost, tally>>
-----------------------------------------------------------------------------
Next ==
  \/ Tick \/ Step
  \/ \E clockid \in {"MONOTONIC", "REALTIME"}, block \in BOOLEAN : timerfd_create(clockid, block)
  \/ \E is_abstime, cancel_on_set, wants_old \in BOOLEAN, value \in Values, interval \in Intervals :
       timerfd_settime(is_abstime, cancel_on_set, value, interval, wants_old)
  \/ SettimeEnds \/ timerfd_gettime
  \/ \E t \in Readers :
       \/ StartRead(t) \/ ReadDisarmed(t) \/ ReadDrains(t) \/ ReadFindsNothing(t)
       \/ ReadCounts(t) \/ PollReturns(t) \/ PollInterrupted(t)
  \/ RealtimeChanged \/ ChangeRearms
  \/ \E block \in BOOLEAN : epoll_shim_fcntl(block)
  \/ timerfd_close

Spec == Init /\ [][Next]_vars
-----------------------------------------------------------------------------
\* When the timer's clock, as the timer knows it, is due.
Deadline == IF can_jump(timer) THEN timer.it_value - timer.monotonic_offset ELSE timer.it_value

\* While the mutex is free, an armed timer has exactly one event of ident 0, at the time
\* of its next expiration, or in the past if something has expired; if a step cancelled
\* it, it is readable at once.  Nobody who polls sleeps too long, whatever settings,
\* reads, steps and cancellations came before.  (What gettime counted by a clock whose
\* step the timer has not noted may wait longer.)
EventArmed ==
  inside = Nobody /\ ~is_disarmed(timer) /\ ~lost =>
    \E e \in kq :
      /\ {f \in kq : f.ident = 0} = {e}
      /\ IF timer.force_cancel THEN Readable
         ELSE IF timer.nr_expirations > 0 THEN e.at <= now \/ can_jump(timer)
         ELSE e.at = Deadline \/ (e.at <= now /\ (Deadline <= now \/ can_jump(timer)))

\* n periods have ended since the timer was set.
Ended(n) ==
  /\ n > 0 => tally.first + (n - 1) * timer.it_interval <= now
  /\ IF is_interval_timer(timer) THEN now < tally.first + n * timer.it_interval
     ELSE n = 1 \/ (n = 0 /\ now < tally.first)

\* A timer whose clock cannot be set: at the end of each read, what the reads have
\* returned since it was set adds up to the periods that have ended, none counted
\* twice, skipped or early, whoever counted them; and a blocking read returns at least
\* one.  (A one-shot that a gettime has disarmed is not read any more.)
ExpirationsExact ==
  [][inside.op = "read" /\ ~inside.cancelled /\ inside' = Nobody /\ ~can_jump(timer) =>
       /\ Ended(tally'.returned)
       /\ pc'[inside.by] = "idle" /\ ~nonblock => tally'.returned > tally.returned]_vars
=============================================================================
