---------------------------- MODULE FramePipeline ----------------------------
(***************************************************************************)
(* A frame's way from a client that draws with EGL to the screen (Mode B): *)
(* egl.c draws into, or copies to, the write buffer of a gbm surface       *)
(* (gbm.m), a ring; the client locks the buffer and flips to it, which     *)
(* sends its IOSurface to framebufferd (drm.c); framebufferd's server      *)
(* thread keeps the last one and its timer presents it (main.m).           *)
(*                                                                         *)
(* The client's loop is kmscube's: it goes on as soon as the message has   *)
(* been sent.  What a flip records in the client, its framebuffers and its *)
(* event are in DrmKms.tla and DrmBuffers.tla.  Frames are numbers.        *)
(***************************************************************************)
EXTENDS Integers, Sequences, FiniteSets

CONSTANTS
  GBM_NUM_BUFFERS,
  MaxFrames,    \* the frames the client draws
  PortLimit,    \* the messages a port holds (MACH_PORT_QLIMIT_DEFAULT)
  Refusals      \* the sets of buffers ANGLE may be unable to bind

Bos  == 0..(GBM_NUM_BUFFERS - 1)
NoBo == -1

VARIABLES
  \* the client
  pc,             \* where the client is in its loop
  zerocopy,       \* ss->zerocopy: ANGLE draws into the buffers themselves
  refused,        \* the buffers it cannot bind
  angle_surface,  \* the buffer of the pbuffer that is current; NoBo: the copy path's own
  content,        \* content[b]: the frame that is in the IOSurface of b, 0 if none
  drawn,          \* the frame in the copy path's pbuffer
  frame,          \* the frame drawn last
  write_idx, read_idx, count,
  next_bo,        \* the buffer the client has locked
  g_cached_port,  \* the incarnation of framebufferd whose port the client has, or 0
  outage,         \* framebufferd was away at some time during this flip
  \* framebufferd
  incarnation,    \* the one that is registered, or 0
  starts,         \* how many there were
  queue,          \* its port: the buffers and their frames
  received,       \* the surface the server thread has looked up
  g_client_surface,
  g_dirty,
  timer,          \* "idle", "clear", "lock" or "present"
  client,         \* the timer's snapshot
  presented,      \* the surface presented last
  retained        \* the references the process holds to each surface

clientvars == <<pc, zerocopy, refused, angle_surface, content, drawn, frame, write_idx,
                read_idx, count, next_bo, g_cached_port, outage>>
daemonvars == <<incarnation, starts, queue, received, g_client_surface, g_dirty, timer,
                client, presented, retained>>
ringvars   == <<zerocopy, refused, angle_surface, content, drawn, frame, write_idx,
                read_idx, count, next_bo>>
shelf      == <<received, g_client_surface, g_dirty, timer, client, presented, retained>>
vars == <<clientvars, daemonvars>>

\* A surface and the frame it was sent for.
Nothing == [bo |-> NoBo, frame |-> 0]

Init ==
  /\ pc = "create" /\ zerocopy = FALSE /\ refused \in Refusals
  /\ angle_surface = NoBo /\ content = [b \in Bos |-> 0] /\ drawn = 0 /\ frame = 0
  /\ write_idx = 0 /\ read_idx = 0 /\ count = 0 /\ next_bo = NoBo
  /\ g_cached_port = 0 /\ outage = FALSE
  /\ incarnation = 0 /\ starts = 0 /\ queue = <<>> /\ received = Nothing
  /\ g_client_surface = Nothing /\ g_dirty = FALSE
  /\ timer = "idle" /\ client = Nothing /\ presented = Nothing
  /\ retained = [b \in Bos |-> 0]
-----------------------------------------------------------------------------
(* The client: surfaces and drawing *)

\* Makes the pbuffer of a buffer, or finds the one made before.
Binds(idx) == idx \notin refused

\* gbm_surface_create has made the ring.  ANGLE draws into its first buffer, or, if
\* that is switched off or fails, into a pbuffer of its own.
eglCreateWindowSurface(enabled) ==
  /\ pc = "create" /\ pc' = "draw"
  /\ zerocopy' = (enabled /\ Binds(write_idx))
  /\ angle_surface' = IF zerocopy' THEN write_idx ELSE NoBo
  /\ UNCHANGED <<refused, content, drawn, frame, write_idx, read_idx, count, next_bo,
                 g_cached_port, outage, daemonvars>>

Draw ==
  /\ pc = "draw" /\ frame < MaxFrames
  /\ frame' = frame + 1
  /\ IF angle_surface = NoBo THEN drawn' = frame' /\ UNCHANGED content
                             ELSE content' = [content EXCEPT ![angle_surface] = frame'] /\ UNCHANGED drawn
  /\ pc' = "swap"
  /\ UNCHANGED <<zerocopy, refused, angle_surface, write_idx, read_idx, count, next_bo,
                 g_cached_port, outage, daemonvars>>

\* Mutant: the ring is one buffer short.
MutAdvance(idx) == IF idx + 2 >= GBM_NUM_BUFFERS THEN 0 ELSE idx + 1

Advance(idx) == (idx + 1) % GBM_NUM_BUFFERS

\* Mutant: the buffer is published before what was drawn is copied.
MutSwapBuffers ==
  /\ pc = "swap" /\ pc' = "lock"
  /\ write_idx' = Advance(write_idx) /\ count' = count + 1
  /\ content' = IF zerocopy THEN content ELSE [content EXCEPT ![write_idx'] = drawn]
  /\ angle_surface' = IF zerocopy /\ Binds(write_idx') THEN write_idx' ELSE angle_surface
  /\ UNCHANGED <<zerocopy, refused, drawn, frame, read_idx, next_bo, g_cached_port,
                 outage, daemonvars>>

\* Zero-copy: the buffer is published and the next one becomes the render target; if ANGLE
\* cannot bind that one it goes on with the old.  Otherwise: what was drawn is copied.
eglSwapBuffers ==
  /\ pc = "swap" /\ pc' = "lock"
  /\ content' = IF zerocopy THEN content ELSE [content EXCEPT ![write_idx] = drawn]
  /\ write_idx' = Advance(write_idx) /\ count' = count + 1
  /\ angle_surface' = IF zerocopy /\ Binds(write_idx') THEN write_idx' ELSE angle_surface
  /\ UNCHANGED <<zerocopy, refused, drawn, frame, read_idx, next_bo, g_cached_port,
                 outage, daemonvars>>

\* The first buffer only sets the mode.  (Releasing a buffer does nothing.)
gbm_surface_lock_front_buffer ==
  /\ pc = "lock" /\ count > 0
  /\ next_bo' = read_idx /\ read_idx' = Advance(read_idx) /\ count' = count - 1
  /\ pc' = IF frame = 1 THEN "draw" ELSE "flip"
  /\ UNCHANGED <<zerocopy, refused, angle_surface, content, drawn, frame, write_idx,
                 g_cached_port, outage, daemonvars>>
-----------------------------------------------------------------------------
(* The client: send_msg of drm.c *)

Registered == incarnation # 0

\* drmModePageFlip; with a cached port there is no look-up.
drmModePageFlip ==
  /\ pc = "flip"
  /\ pc' = IF g_cached_port = 0 THEN "look_up" ELSE "send"
  /\ outage' = ~Registered
  /\ UNCHANGED <<ringvars, g_cached_port, daemonvars>>

\* If the service is not there the flip fails, and the client ends.
LookUp(from, to) ==
  /\ pc = from
  /\ g_cached_port' = incarnation
  /\ pc' = IF Registered THEN to ELSE "failed"
  /\ UNCHANGED <<ringvars, outage, daemonvars>>

\* The send waits while the port is full.
Sends ==
  /\ pc \in {"send", "resend"} /\ g_cached_port = incarnation /\ Len(queue) < PortLimit
  /\ queue' = Append(queue, [bo |-> next_bo, frame |-> frame])
  /\ pc' = "draw" /\ outage' = FALSE
  /\ UNCHANGED <<ringvars, g_cached_port, incarnation, starts, shelf>>

\* Mutant: the port that has gone stale stays in the cache.
MutSendFails ==
  /\ pc \in {"send", "resend"} /\ g_cached_port # incarnation
  /\ pc' = "failed"
  /\ UNCHANGED <<ringvars, g_cached_port, outage, daemonvars>>

\* "Port may have gone stale; invalidate cache and retry once."
SendFails ==
  /\ pc \in {"send", "resend"} /\ g_cached_port # incarnation
  /\ g_cached_port' = 0
  /\ pc' = IF pc = "send" THEN "look_up_again" ELSE "failed"
  /\ UNCHANGED <<ringvars, outage, daemonvars>>
-----------------------------------------------------------------------------
(* framebufferd *)

\* Registers its port and starts the server thread and the timer.
Serves ==
  /\ ~Registered
  /\ starts' = starts + 1 /\ incarnation' = starts'
  /\ UNCHANGED <<queue, shelf, clientvars>>

\* SIGINT, SIGTERM or a crash: the port, what is in it and the references go with the
\* process; the display keeps what it shows.
Dies ==
  /\ Registered
  /\ incarnation' = 0 /\ queue' = <<>> /\ outage' = TRUE
  /\ received' = Nothing /\ g_client_surface' = Nothing /\ g_dirty' = FALSE
  /\ timer' = "idle" /\ client' = Nothing /\ retained' = [b \in Bos |-> 0]
  /\ UNCHANGED <<starts, presented, pc, ringvars, g_cached_port>>

Retain(s, r)  == IF s = Nothing THEN r ELSE [r EXCEPT ![s.bo] = @ + 1]
Release(s, r) == IF s = Nothing THEN r ELSE [r EXCEPT ![s.bo] = @ - 1]

\* The server thread: IOSurfaceLookupFromMachPort gives it a reference.
Receives ==
  /\ Registered /\ received = Nothing /\ queue # <<>>
  /\ received' = Head(queue) /\ queue' = Tail(queue)
  /\ retained' = Retain(received', retained)
  /\ UNCHANGED <<incarnation, starts, g_client_surface, g_dirty, timer, client,
                 presented, clientvars>>

\* Under g_surface_lock.
Stores ==
  /\ received # Nothing
  /\ retained' = Release(g_client_surface, retained)
  /\ g_client_surface' = received /\ received' = Nothing /\ g_dirty' = TRUE
  /\ UNCHANGED <<incarnation, starts, queue, timer, client, presented, clientvars>>

\* There is a display.  TimerCallback looks at g_dirty and clears it without the lock.
TimerFires ==
  /\ timer = "idle" /\ g_dirty
  /\ timer' = "clear"
  /\ UNCHANGED <<incarnation, starts, queue, received, g_client_surface, g_dirty, client,
                 presented, retained, clientvars>>

TimerClears ==
  /\ timer = "clear" /\ timer' = "lock"
  /\ g_dirty' = FALSE
  /\ UNCHANGED <<incarnation, starts, queue, received, g_client_surface, client,
                 presented, retained, clientvars>>

\* Mutant: the snapshot is not retained; so it need not be released.
MutTimerSnapshot ==
  /\ timer = "lock" /\ timer' = "present"
  /\ client' = g_client_surface
  /\ UNCHANGED <<incarnation, starts, queue, received, g_client_surface, g_dirty,
                 presented, retained, clientvars>>

\* Mutant: g_dirty is cleared (again) with the snapshot's lock released.
MutTimerPresents ==
  /\ timer = "present" /\ timer' = "idle"
  /\ g_dirty' = FALSE
  /\ presented' = client /\ retained' = Release(client, retained) /\ client' = Nothing
  /\ UNCHANGED <<incarnation, starts, queue, received, g_client_surface, clientvars>>

\* Under g_surface_lock.
TimerSnapshot ==
  /\ timer = "lock" /\ timer' = "present"
  /\ client' = g_client_surface /\ retained' = Retain(client', retained)
  /\ UNCHANGED <<incarnation, starts, queue, received, g_client_surface, g_dirty,
                 presented, clientvars>>

TimerPresents ==
  /\ timer = "present" /\ timer' = "idle"
  /\ presented' = client /\ retained' = Release(client, retained) /\ client' = Nothing
  /\ UNCHANGED <<incarnation, starts, queue, received, g_client_surface, g_dirty, clientvars>>
-----------------------------------------------------------------------------
Client ==
  \/ \E enabled \in BOOLEAN : eglCreateWindowSurface(enabled)
  \/ Draw \/ eglSwapBuffers \/ gbm_surface_lock_front_buffer \/ drmModePageFlip
  \/ LookUp("look_up", "send") \/ LookUp("look_up_again", "resend") \/ Sends \/ SendFails

Daemon == Receives \/ Stores \/ TimerFires \/ TimerClears \/ TimerSnapshot \/ TimerPresents
-----------------------------------------------------------------------------
\* The buffer the client flips to is the one it has just drawn, whichever way EGL takes:
\* the two indices of the ring, the render target and the copy agree.
FlipsLastDrawn ==
  pc \in {"flip", "look_up", "send", "look_up_again", "resend"} => content[next_bo] = frame

\* The surfaces on their way to the screen.
Underway == {queue[i] : i \in DOMAIN queue}
            \cup ({received, g_client_surface, client, presented} \ {Nothing})

\* Nothing tells the client when a buffer has left the screen, and it draws on: the ring
\* keeps a frame intact until as many more have been begun as there are buffers.
RingKeepsFrames ==
  \A s \in Underway : frame - s.frame < GBM_NUM_BUFFERS => content[s.bo] = s.frame

\* framebufferd's references are those its threads and g_client_surface use: a surface is
\* not released while the timer presents it, although the server thread replaces it.
SurfacesRetained ==
  \A b \in Bos :
    retained[b] = Cardinality({h \in {<<"server", received>>, <<"latest", g_client_surface>>,
                                      <<"timer", client>>} : h[2].bo = b})

\* A flip fails only if framebufferd was away while it lasted, not because it was
\* restarted since the one before.
FailsOnlyInOutage == pc = "failed" => outage

\* A flip that reached framebufferd ends on the screen, or a later one does, unless
\* framebufferd ends: a set g_dirty is never cleared without the newest surface shown.
FlipShown ==
  \A n \in 1..MaxFrames :
    (\E s \in Underway : s.frame = n) ~> (presented.frame >= n \/ ~Registered)
=============================================================================
