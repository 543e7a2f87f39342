---------------------------- MODULE StepDetector ----------------------------
(***************************************************************************)
(* The detection of steps of CLOCK_REALTIME (epoll_shim_ctx.c, with the    *)
(* parts of timerfd.c that call it).  A thread looks at the clock once a   *)
(* second while there are timers with an absolute realtime setting, and    *)
(* tells every timer when it was stepped.  The thread is detached: the     *)
(* last such timer only changes the generation, and the thread of an older *)
(* generation ends when it next looks.                                     *)
(***************************************************************************)
EXTENDS Integers, FiniteSets

CONSTANTS
  Timers,
  MaxOffset,       \* the bound of the number of steps
  MaxGeneration    \* the bound of the generations

VARIABLES
  offset,       \* KERN_BOOTTIME; every step gives it a new value
  open,         \* the timerfds
  abstime,      \* those of CLOCK_REALTIME with is_abstime
  known,        \* known[f]: the monotonic_offset f has noted for an abstime setting, or 0
  change,       \* change[f]: what f's settime or close has yet to report, 0 if nothing
  nr_fds,       \* nr_fds_for_realtime_step_detector
  generation,   \* realtime_step_detector_generation
  detectors,    \* the threads: generation, offset, what was sampled, whom to tell
  failed,       \* the thread of this generation could not be started
  missed        \* the timers whose clock was stepped between their settime and the start

vars == <<offset, open, abstime, known, change, nr_fds, generation, detectors, failed, missed>>

Init ==
  /\ offset = 1 /\ open = {} /\ abstime = {}
  /\ known = [f \in Timers |-> 0] /\ change = [f \in Timers |-> 0]
  /\ nr_fds = 0 /\ generation = 0
  /\ detectors = {} /\ failed = FALSE /\ missed = {}

Changing == {f \in Timers : change[f] # 0}
\* Bounds the generations: each change may end one.
Bounded  == generation + Cardinality(Changing) < MaxGeneration

\* The descriptor's mutex is held until the change has been reported, and a thread that
\* tells the timers holds the table's lock.
Telling == UNION {d.tell : d \in detectors}
-----------------------------------------------------------------------------
(* The clock and the timers *)

Step ==
  /\ offset < MaxOffset /\ offset' = offset + 1
  /\ UNCHANGED <<open, abstime, known, change, nr_fds, generation, detectors, failed, missed>>

timerfd_create(f) ==
  /\ f \notin open /\ change[f] = 0 /\ Telling = {}
  /\ open' = open \cup {f} /\ known' = [known EXCEPT ![f] = 0]
  /\ UNCHANGED <<offset, abstime, change, nr_fds, generation, detectors, failed, missed>>

\* timerfd_settime up to the report; with is_abstime of CLOCK_REALTIME it notes the clock.
settime(f, is_abstime) ==
  /\ f \in open /\ change[f] = 0 /\ Bounded
  /\ abstime' = IF is_abstime THEN abstime \cup {f} ELSE abstime \ {f}
  /\ known' = [known EXCEPT ![f] = IF is_abstime THEN offset ELSE 0]
  /\ change' = [change EXCEPT ![f] = IF is_abstime THEN (IF f \in abstime THEN 0 ELSE 1)
                                                    ELSE (IF f \in abstime THEN -1 ELSE 0)]
  /\ missed' = missed \ {f}
  /\ UNCHANGED <<offset, open, nr_fds, generation, detectors, failed>>

\* The descriptor leaves the table, then its last reference calls timerfd_close.
timerfd_close(f) ==
  /\ f \in open /\ change[f] = 0 /\ Telling = {} /\ Bounded
  /\ open' = open \ {f} /\ abstime' = abstime \ {f} /\ missed' = missed \ {f}
  /\ change' = [change EXCEPT ![f] = IF f \in abstime THEN -1 ELSE 0]
  /\ known' = [known EXCEPT ![f] = 0]
  /\ UNCHANGED <<offset, nr_fds, generation, detectors, failed>>
-----------------------------------------------------------------------------
(* Starting and ending the thread, under step_detector_mutex *)

Started == [generation |-> generation, offset |-> offset, sampled |-> 0, tell |-> {}]

\* A timer joins.  "best effort": the thread may not start.
Joins(f) ==
  /\ change[f] = 1
  /\ nr_fds' = nr_fds + 1 /\ change' = [change EXCEPT ![f] = 0]
  /\ IF nr_fds > 0 THEN UNCHANGED <<detectors, failed, missed>>
     ELSE \/ /\ detectors' = detectors \cup {Started} /\ failed' = FALSE
             /\ missed' = {g \in abstime : known[g] # offset}
          \/ failed' = TRUE /\ UNCHANGED <<detectors, missed>>
  /\ UNCHANGED <<offset, open, abstime, known, generation>>

\* Mutant: the last timer leaves the generation as it is.
MutLeaves(f) ==
  /\ change[f] = -1
  /\ nr_fds' = nr_fds - 1 /\ change' = [change EXCEPT ![f] = 0]
  /\ UNCHANGED <<offset, open, abstime, known, generation, detectors, failed, missed>>

Leaves(f) ==
  /\ change[f] = -1
  /\ nr_fds' = nr_fds - 1 /\ change' = [change EXCEPT ![f] = 0]
  /\ generation' = IF nr_fds' = 0 THEN generation + 1 ELSE generation
  /\ UNCHANGED <<offset, open, abstime, known, detectors, failed, missed>>
-----------------------------------------------------------------------------
(* The thread *)

Becomes(d, e) == detectors' = (detectors \ {d}) \cup {e}

Samples(d) ==
  /\ d.sampled = 0 /\ d.tell = {}
  /\ Becomes(d, [d EXCEPT !.sampled = offset])
  /\ UNCHANGED <<offset, open, abstime, known, change, nr_fds, generation, failed, missed>>

Ends(d) ==
  /\ d.sampled # 0 /\ d.generation # generation
  /\ detectors' = detectors \ {d}
  /\ UNCHANGED <<offset, open, abstime, known, change, nr_fds, generation, failed, missed>>

\* Mutant: of the timers only those are told that had joined.
MutTold == abstime \ Changing

Told == open

\* The generation is the current one: on to telling every descriptor, or back to sleep.
Compares(d) ==
  /\ d.sampled # 0 /\ d.generation = generation
  /\ Becomes(d, [d EXCEPT !.offset = d.sampled, !.sampled = 0,
                          !.tell = IF d.sampled # d.offset THEN Told ELSE {}])
  /\ UNCHANGED <<offset, open, abstime, known, change, nr_fds, generation, failed, missed>>

\* realtime_change_fun, under the descriptor's mutex: the timer looks at the clock itself.
Tells(d, f) ==
  /\ f \in d.tell /\ change[f] = 0
  /\ Becomes(d, [d EXCEPT !.tell = @ \ {f}])
  /\ known' = IF f \in abstime THEN [known EXCEPT ![f] = offset] ELSE known
  /\ missed' = missed \ {f}
  /\ UNCHANGED <<offset, open, abstime, change, nr_fds, generation, failed>>
-----------------------------------------------------------------------------
Reports  == \E f \in Timers : Joins(f) \/ Leaves(f)
Detects  == \E d \in detectors :
              Samples(d) \/ Ends(d) \/ Compares(d) \/ \E f \in Timers : Tells(d, f)

Next ==
  \/ Step
  \/ \E f \in Timers : \/ timerfd_create(f) \/ timerfd_close(f)
                       \/ \E is_abstime \in BOOLEAN : settime(f, is_abstime)
  \/ Reports \/ Detects

\* Threads inside a call go on; so does every thread that looks at the clock, and one that
\* tells the timers gets a descriptor's mutex that is free again and again.
Fairness ==
  /\ WF_vars(Reports)
  /\ \A g \in 0..MaxGeneration :
       WF_vars(\E d \in detectors : d.generation = g /\ (Samples(d) \/ Ends(d) \/ Compares(d)))
  /\ SF_vars(\E d \in detectors, f \in Timers : Tells(d, f))

Spec == Init /\ [][Next]_vars /\ Fairness
-----------------------------------------------------------------------------
\* There is one thread of the current generation while there are timers to tell, and
\* none otherwise: no thread is started twice and none stays behind, although threads
\* of earlier generations may still be asleep.
OneDetector ==
  Cardinality({d \in detectors : d.generation = generation}) =
    IF nr_fds > 0 /\ ~failed THEN 1 ELSE 0

\* A timer with an absolute realtime setting learns of every step, unless no thread could
\* be started, or the clock was stepped between its settime and the start of the thread.
StepTold ==
  \A f \in Timers :
    []<>(f \notin abstime \/ known[f] = offset \/ failed \/ f \in missed \/ change[f] # 0)
=============================================================================
