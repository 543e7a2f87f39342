---------------------------- MODULE KQueueEvent -----------------------------
(***************************************************************************)
(* kqueue_event.c: the event by which an eventfd or a signalfd makes its   *)
(* kqueue readable by hand.  It keeps a flag beside what the kernel knows, *)
(* so that a second trigger costs no system call; the two must agree.      *)
(***************************************************************************)

\* is_triggered: the flag; queued: the kqueue holds the user event.
KQueueEvents == [is_triggered : BOOLEAN, queued : BOOLEAN]

kqueue_event_init(should_trigger) ==
  [is_triggered |-> should_trigger, queued |-> should_trigger]

kqueue_event_trigger(event) ==
  IF event.is_triggered THEN event ELSE [is_triggered |-> TRUE, queued |-> TRUE]

\* Reads every event of the kqueue, then lowers the flag.
kqueue_event_clear(event) ==
  [event EXCEPT !.is_triggered = FALSE, !.queued = FALSE]
=============================================================================
