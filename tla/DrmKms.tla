------------------------------- MODULE DrmKms -------------------------------
(***************************************************************************)
(* Presentation in the DRM shim (drm_linux.c and the atomic handler of     *)
(* drm_ioctl.c): page flips and atomic commits of one client, their        *)
(* completion events through the pipe behind the virtual descriptor, and   *)
(* the two places a frame can go: the host compositor's callback (Mode A)  *)
(* or framebufferd (Mode B).                                               *)
(*                                                                         *)
(* A call is a step.  Of the properties an atomic request can set only     *)
(* FB_ID and the position (CRTC_X with CRTC_Y) of the cursor plane have an *)
(* effect beyond being stored.  The host has a callback of its own for the *)
(* cursor; without it moves are sent to framebufferd, which drops them.    *)
(* The surfaces behind framebuffers are in DrmBuffers.tla; a framebuffer   *)
(* that is not in fbs has none (NULL).                                     *)
(***************************************************************************)
EXTENDS Integers, Sequences, FiniteSets, FiniteSetsExt

CONSTANTS
  MaxFb,             \* bound of the model: framebuffer ids 1 .. MaxFb
  Positions,         \* of the cursor; 0 is the initial one
  Tags, NoTag,       \* user_data, NULL
  FlipFlags,         \* flags the client gives to drmModePageFlip
  CommitFlags,       \* and to an atomic commit
  Requests,          \* the lists of settings the client commits
  IoctlRequests,     \* and those it commits through the ioctl
  MaxOutstanding,    \* flips the client has in flight at a time
  MaxPipe,           \* bound of the model: bytes in the event pipe
  MAX_ATOMIC_PROPS

Consumers == {"host", "framebufferd"}
Setting(obj, prop, vals) == [obj : {obj}, prop : {prop}, value : vals]
\* Object 1 is the CRTC and its primary plane, object 2 the cursor plane.
PrimaryFb == Setting(1, "FB_ID", 0 .. MaxFb)
CursorFb  == Setting(2, "FB_ID", 0 .. MaxFb)
CursorPos == Setting(2, "CRTC_XY", Positions)

ASSUME DrmKmsAssumption ==
  /\ {MaxFb, MaxOutstanding, MaxPipe} \subseteq Nat /\ MAX_ATOMIC_PROPS \in Nat \ {0}
  /\ Positions \subseteq Nat /\ 0 \in Positions /\ NoTag \notin Tags
  /\ FlipFlags \subseteq {"event", "none"}
  /\ CommitFlags \subseteq {"event", "none"}
  /\ Requests \cup IoctlRequests \subseteq Seq(PrimaryFb \cup CursorFb \cup CursorPos)

VARIABLES
  g_present_cb,               \* is the present callback registered?
  framebufferd,               \* does its service take messages?
  fbs,                        \* the framebuffers that exist
  next_fb_id,
  crtc_fb_id,                 \* what drmModeGetCrtc reports
  cursor,                     \* FB_ID and position stored for the cursor plane
  g_cursor_cb,                \* is the cursor callback registered?
  cursor_at,                  \* prev_cx, prev_cy: the position last forwarded
  cursor_to,                  \* to whom; the host at first, which starts with 0
  host_cursor,                \* the position the host was told last
  pool,                       \* settings in the pooled request of the ioctl
  g_pending_flip_data,
  pipe,                       \* event bytes in the pipe
  shown,                      \* the framebuffer each consumer was last given
  owed                        \* the events the client waits for, oldest first

vars == <<g_present_cb, framebufferd, fbs, next_fb_id, crtc_fb_id, cursor,
          g_cursor_cb, cursor_at, cursor_to, host_cursor,
          pool, g_pending_flip_data, pipe, shown, owed>>
world   == <<g_present_cb, framebufferd, g_cursor_cb>>
cursors == <<cursor, cursor_at, cursor_to, host_cursor>>

Init ==
  /\ g_present_cb = FALSE /\ framebufferd = FALSE
  /\ fbs = {} /\ next_fb_id = 1 /\ crtc_fb_id = 0
  /\ cursor = [fb |-> 0, pos |-> 0]
  /\ g_cursor_cb = FALSE /\ cursor_at = 0 /\ cursor_to = "host" /\ host_cursor = 0
  /\ pool = <<>>
  /\ g_pending_flip_data = NoTag /\ pipe = 0
  /\ shown = [c \in Consumers |-> 0]
  /\ owed = <<>>
-----------------------------------------------------------------------------
(* The host registers or clears its callbacks; framebufferd starts or stops. *)

iland_drm_set_present_callback ==
  /\ g_present_cb' = ~g_present_cb
  /\ UNCHANGED <<framebufferd, g_cursor_cb, fbs, next_fb_id, crtc_fb_id, cursors,
                 pool, g_pending_flip_data, pipe, shown, owed>>

iland_drm_set_cursor_callback ==
  /\ g_cursor_cb' = ~g_cursor_cb
  /\ UNCHANGED <<g_present_cb, framebufferd, fbs, next_fb_id, crtc_fb_id, cursors,
                 pool, g_pending_flip_data, pipe, shown, owed>>

StartOrStop ==
  /\ framebufferd' = ~framebufferd
  /\ UNCHANGED <<g_present_cb, g_cursor_cb, fbs, next_fb_id, crtc_fb_id, cursors,
                 pool, g_pending_flip_data, pipe, shown, owed>>
-----------------------------------------------------------------------------
(* Framebuffers; their ids are never used again. *)

drmModeAddFB ==
  /\ next_fb_id <= MaxFb
  /\ fbs' = fbs \cup {next_fb_id}
  /\ next_fb_id' = next_fb_id + 1
  /\ UNCHANGED <<world, crtc_fb_id, cursors, pool, g_pending_flip_data, pipe,
                 shown, owed>>

drmModeRmFB ==
  /\ \E f \in fbs : fbs' = fbs \ {f}
  /\ UNCHANGED <<world, next_fb_id, crtc_fb_id, cursors, pool,
                 g_pending_flip_data, pipe, shown, owed>>

\* A client sets the mode before it flips.
drmModeSetCrtc ==
  /\ owed = <<>>
  /\ \E f \in 0 .. MaxFb : crtc_fb_id' = f
  /\ UNCHANGED <<world, fbs, next_fb_id, cursors, pool, g_pending_flip_data,
                 pipe, shown, owed>>
-----------------------------------------------------------------------------
(* Page flips *)

Consumer == IF g_present_cb THEN "host" ELSE "framebufferd"
\* A consumer keeps what it shows when it gets no surface or no message.
Reaches(f) == f \in fbs /\ (g_present_cb \/ framebufferd)
Present(f) == shown' = IF Reaches(f) THEN [shown EXCEPT ![Consumer] = f] ELSE shown

\* What the client waits for: the event of the framebuffer f, if it exists.
Waiting(data, f, via) ==
  [data |-> data, fb |-> IF f \in fbs THEN f ELSE 0, to |-> Consumer, via |-> via]

Event(data, f, via) ==
  /\ g_pending_flip_data' = data
  /\ pipe < MaxPipe /\ pipe' = pipe + 1
  /\ owed' = Append(owed, Waiting(data, f, via))

\* Mutant: a flip that fails completes all the same.
MutPageFlip(f, flag, data) ==
  /\ Len(owed) < MaxOutstanding
  /\ crtc_fb_id' = f
  /\ Present(f)
  /\ Event(data, f, "flip")
  /\ UNCHANGED <<world, fbs, next_fb_id, cursors, pool>>

\* Mutant: the data of a flip that is still pending is kept.
MutPageFlipData(f, flag, data) ==
  /\ Len(owed) < MaxOutstanding
  /\ crtc_fb_id' = f
  /\ Present(f)
  /\ IF g_present_cb \/ framebufferd
     THEN /\ pipe < MaxPipe /\ pipe' = pipe + 1
          /\ g_pending_flip_data' = IF g_pending_flip_data = NoTag THEN data
                                    ELSE g_pending_flip_data
          /\ owed' = Append(owed, Waiting(data, f, "flip"))
     ELSE g_pending_flip_data' = data /\ UNCHANGED <<pipe, owed>>
  /\ UNCHANGED <<world, fbs, next_fb_id, cursors, pool>>

\* The byte is written whether or not the client asked for an event.
drmModePageFlip(f, flag, data) ==
  /\ Len(owed) < MaxOutstanding
  /\ crtc_fb_id' = f
  /\ Present(f)
  /\ IF g_present_cb \/ framebufferd
     THEN IF flag = "event" THEN Event(data, f, "flip")
          ELSE /\ g_pending_flip_data' = data
               /\ pipe < MaxPipe /\ pipe' = pipe + 1
               /\ UNCHANGED owed
     ELSE g_pending_flip_data' = data /\ UNCHANGED <<pipe, owed>>
  /\ UNCHANGED <<world, fbs, next_fb_id, cursors, pool>>

\* Mutant: the byte stays in the pipe.
MutHandleEvent ==
  /\ pipe > 0
  /\ g_pending_flip_data' = NoTag
  /\ owed' = IF owed = <<>> THEN <<>> ELSE Tail(owed)
  /\ UNCHANGED <<world, pipe, fbs, next_fb_id, crtc_fb_id, cursors, pool, shown>>

\* The handler gets g_pending_flip_data.
drmHandleEvent ==
  /\ pipe > 0
  /\ pipe' = pipe - 1
  /\ g_pending_flip_data' = NoTag
  /\ owed' = IF owed = <<>> THEN <<>> ELSE Tail(owed)
  /\ UNCHANGED <<world, fbs, next_fb_id, crtc_fb_id, cursors, pool, shown>>
-----------------------------------------------------------------------------
(* Atomic commits *)

\* The value of the last setting of req that is in S.
LastOf(req, S, default) ==
  LET at == {i \in DOMAIN req : req[i] \in S}
  IN IF at = {} THEN default ELSE req[Max(at)].value

Live(S) == {s \in S : s.value \in fbs}

\* Each setting is stored and its framebuffer presented, in the order of the
\* request: the last one stays.  A failure to reach framebufferd is ignored.
Frames(req) ==
  LET f == LastOf(req, Live(PrimaryFb), 0)
  IN IF f # 0 /\ Reaches(f) THEN [shown EXCEPT ![Consumer] = f] ELSE shown

CrtcFb(req) ==
  LET f == LastOf(req, PrimaryFb, 0)
  IN IF f > 0 THEN f ELSE LastOf(req, Live(PrimaryFb), crtc_fb_id)

Cursor(req) == [fb  |-> LastOf(req, CursorFb, cursor.fb),
                pos |-> LastOf(req, CursorPos, cursor.pos)]

\* Mutant: a move made while the cursor was hidden is not forwarded later.
MutForward(req) ==
  /\ cursor' = Cursor(req)
  /\ IF cursor'.fb > 0 /\ cursor'.pos \notin {cursor_at, cursor.pos}
     THEN /\ cursor_at' = cursor'.pos
          /\ IF g_cursor_cb THEN cursor_to' = "host" /\ host_cursor' = cursor'.pos
             ELSE cursor_to' = "framebufferd" /\ UNCHANGED host_cursor
     ELSE UNCHANGED <<cursor_at, cursor_to, host_cursor>>

\* A position other than the last one is forwarded while the cursor plane has a
\* framebuffer: it counts as forwarded also if nobody takes it.
Forward(req) ==
  /\ cursor' = Cursor(req)
  /\ IF cursor'.fb > 0 /\ cursor'.pos # cursor_at
     THEN /\ cursor_at' = cursor'.pos
          /\ IF g_cursor_cb THEN cursor_to' = "host" /\ host_cursor' = cursor'.pos
             ELSE cursor_to' = "framebufferd" /\ UNCHANGED host_cursor
     ELSE UNCHANGED <<cursor_at, cursor_to, host_cursor>>

Apply(req) ==
  /\ shown' = Frames(req)
  /\ crtc_fb_id' = CrtcFb(req)
  /\ Forward(req)

Signal(req, flag, data, via) ==
  /\ IF flag = "event" THEN Event(data, LastOf(req, PrimaryFb, 0), via)
     ELSE UNCHANGED <<g_pending_flip_data, pipe, owed>>
  /\ UNCHANGED <<world, fbs, next_fb_id>>

\* A client with a flip in flight commits neither a frame nor another event.
MayCommit(req, flag) ==
  \/ Len(owed) < MaxOutstanding
  \/ flag # "event" /\ LastOf(req, PrimaryFb, -1) = -1

\* Through libdrm: Alloc, AddProperty for each setting, Commit, Free.  Nothing looks at
\* TEST_ONLY: a commit with it is one like any other.
Commit(req, flag, data) ==
  /\ MayCommit(req, flag)
  /\ Apply(req) /\ Signal(req, flag, data, "api")
  /\ UNCHANGED pool

\* Through the ioctl: the settings are added to the pooled request, as far as
\* there is room in it, and nothing takes them out again.
Added(req) == SubSeq(pool \o req, 1, Min({MAX_ATOMIC_PROPS, Len(pool) + Len(req)}))

handle_atomic(req, flag, data) ==
  /\ req # <<>>
  /\ MayCommit(req, flag)
  /\ pool' = Added(req)
  /\ Apply(Added(req)) /\ Signal(req, flag, data, "ioctl")
-----------------------------------------------------------------------------
\* A client names framebuffers it has.
Flip ==
  \E f \in fbs, flag \in FlipFlags, data \in Tags : drmModePageFlip(f, flag, data)

Named(req) == {req[i].value : i \in {j \in DOMAIN req : req[j].prop = "FB_ID"}}

Atomic ==
  \E req \in Requests \cup IoctlRequests, flag \in CommitFlags, data \in Tags :
    /\ Named(req) \subseteq fbs \cup {0}
    /\ \/ req \in Requests /\ Commit(req, flag, data)
       \/ req \in IoctlRequests /\ handle_atomic(req, flag, data)

Next ==
  \/ iland_drm_set_present_callback \/ iland_drm_set_cursor_callback \/ StartOrStop
  \/ drmModeAddFB \/ drmModeRmFB \/ drmModeSetCrtc
  \/ Flip \/ Atomic \/ drmHandleEvent

Spec == Init /\ [][Next]_vars
-----------------------------------------------------------------------------
\* The next event passes its own flip's user data to the handler, whatever failed
\* or was committed without an event in between: "drmModePageFlip stores it,
\* drmHandleEvent passes it to the event handler".
PendingIsNext == owed # <<>> => g_pending_flip_data = Head(owed).data

\* There is a byte in the pipe for each event the client waits for, so that it
\* never sleeps for ever, and no other, so that the pipe never fills.
EventsInPipe == pipe = Len(owed)

\* The frame whose completion the client waits for is the one its consumer was
\* given last and GetCrtc reports: after a page flip always, after an atomic
\* commit in Mode A (in Mode B a lost message completes like any other), and as
\* long as no commit went through the ioctl, which replays earlier ones.
CompletedFramesShown ==
  \A i \in DOMAIN owed : LET e == owed[i] IN
    /\ e.fb # 0
    /\ e.via = "flip" \/ (e.via = "api" /\ e.to = "host")
    /\ pool = <<>>
    => shown[e.to] = e.fb /\ crtc_fb_id = e.fb

\* While the cursor plane has a framebuffer the host has its position, also after
\* moves that were made while it had none and however the callback came and went,
\* unless the last one was made while there was no callback: then framebufferd has
\* dropped it, and it is not forwarded again.
CursorFollows == cursor.fb > 0 /\ cursor_to = "host" => host_cursor = cursor.pos

\* "on every page-flip / atomic FB_ID commit the shim invokes the callback
\* directly with the client's IOSurface": also for a commit through the ioctl.
IoctlFramesShown ==
  \A i \in DOMAIN owed : LET e == owed[i] IN
    e.fb # 0 /\ e.via = "ioctl" /\ e.to = "host" => shown["host"] = e.fb
=============================================================================
