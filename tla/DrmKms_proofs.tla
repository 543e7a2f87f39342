---------------------------- MODULE DrmKms_proofs ---------------------------
(***************************************************************************)
(* Proofs about DrmKms for any number of framebuffers, any requests and    *)
(* positions, and any coming and going of the two consumers.  The event    *)
(* pipe is exact for a client that asks for the event of each flip; the    *)
(* handler gets its own flip's data for one that has one flip in flight.   *)
(***************************************************************************)
EXTENDS DrmKms, WellFoundedInduction, TLAPS

\* The client asks for the completion event of each page flip ...
EventFlips == FlipFlags \subseteq {"event"}
\* ... and has one flip, or commit with an event, in flight.
OneInFlight == MaxOutstanding = 1

Expected == [data : Tags, fb : Nat, to : Consumers, via : {"flip", "api", "ioctl"}]

Shape == fbs \subseteq Nat /\ next_fb_id \in Nat /\ owed \in Seq(Expected)

PipeInv == Shape /\ EventsInPipe
DataInv == PipeInv /\ Len(owed) <= 1 /\ PendingIsNext
-----------------------------------------------------------------------------
(* The events: of the steps, those that change them *)

events == <<pipe, owed, g_pending_flip_data>>

LEMMA WaitingType ==
  ASSUME Shape, NEW data \in Tags, NEW f, NEW via \in {"flip", "api", "ioctl"}
  PROVE  Waiting(data, f, via) \in Expected
BY DEF Shape, Waiting, Expected, Consumers, Consumer

LEMMA EventPipe ==
  ASSUME PipeInv, NEW data \in Tags, NEW f, NEW via \in {"flip", "api", "ioctl"},
         Event(data, f, via)
  PROVE  owed' \in Seq(Expected) /\ EventsInPipe'
<1>1. Waiting(data, f, via) \in Expected
  BY WaitingType DEF PipeInv
<1> DEFINE e == Waiting(data, f, via)
<1>2. pipe' = pipe + 1 /\ owed' = Append(owed, e)
  BY DEF Event
<1>3. e \in Expected
  BY <1>1
<1> HIDE DEF e
<1>4. owed \in Seq(Expected) /\ pipe = Len(owed)
  BY DEF PipeInv, Shape, EventsInPipe
<1> HIDE DEF Expected
<1>5. owed' \in Seq(Expected) /\ Len(owed') = Len(owed) + 1
  BY <1>2, <1>3, <1>4
<1> QED
  BY <1>2, <1>4, <1>5 DEF EventsInPipe

\* A step that adds one event that is expected, with the data it has now.
LEMMA EventData ==
  ASSUME DataInv, owed = <<>>, NEW data \in Tags, NEW f,
         NEW via \in {"flip", "api", "ioctl"}, Event(data, f, via)
  PROVE  Len(owed') <= 1 /\ PendingIsNext'
<1> DEFINE e == Waiting(data, f, via)
<1>1. owed' = <<e>> /\ g_pending_flip_data' = data
  BY DEF Event
<1>2. e.data = data
  BY DEF Waiting
<1> HIDE DEF e
<1> QED
  BY <1>1, <1>2 DEF PendingIsNext

LEMMA Quiet == MaxOutstanding = 1 /\ Shape /\ Len(owed) < MaxOutstanding => owed = <<>>
BY DEF Shape
-----------------------------------------------------------------------------
LEMMA InitPipe == Init => DataInv
BY DEF Init, DataInv, PipeInv, Shape, EventsInPipe, PendingIsNext

LEMMA FlipPipe ==
  ASSUME EventFlips, PipeInv, NEW f, NEW flag \in FlipFlags, NEW data \in Tags,
         drmModePageFlip(f, flag, data)
  PROVE  /\ PipeInv'
         /\ OneInFlight /\ DataInv => DataInv'
<1>1. /\ flag = "event" /\ UNCHANGED <<fbs, next_fb_id>>
      /\ Event(data, f, "flip") \/ UNCHANGED <<pipe, owed>>
      /\ Len(owed) < MaxOutstanding
  BY DEF EventFlips, drmModePageFlip
<1>2. PipeInv'
  BY <1>1, EventPipe DEF PipeInv, Shape, EventsInPipe
<1>3. ASSUME OneInFlight, DataInv PROVE DataInv'
  <2>1. owed = <<>>
    BY <1>1, <1>3, Quiet DEF OneInFlight, PipeInv
  <2>2. CASE Event(data, f, "flip")
    BY <1>2, <1>3, <2>1, <2>2, EventData DEF DataInv
  <2>3. CASE UNCHANGED owed
    BY <1>2, <2>1, <2>3 DEF DataInv, PendingIsNext
  <2> QED
    BY <1>1, <2>2, <2>3
<1> QED
  BY <1>2, <1>3

LEMMA CommitPipe ==
  ASSUME PipeInv, NEW req, NEW flag \in CommitFlags, NEW data \in Tags,
         Commit(req, flag, data) \/ handle_atomic(req, flag, data)
  PROVE  /\ PipeInv'
         /\ OneInFlight /\ DataInv => DataInv'
<1>1. PICK f : \E via \in {"api", "ioctl"} :
        \/ Event(data, f, via) /\ Len(owed) < MaxOutstanding
        \/ UNCHANGED events
  BY DEF Commit, handle_atomic, Signal, MayCommit, events
<1>2. UNCHANGED <<fbs, next_fb_id>>
  BY DEF Commit, handle_atomic, Signal
<1>3. CASE UNCHANGED events
  BY <1>2, <1>3 DEF events, DataInv, PipeInv, Shape, EventsInPipe, PendingIsNext
<1>4. ASSUME NEW via \in {"api", "ioctl"}, Event(data, f, via), Len(owed) < MaxOutstanding
      PROVE  PipeInv' /\ (OneInFlight /\ DataInv => DataInv')
  <2>1. PipeInv'
    BY <1>2, <1>4, EventPipe DEF PipeInv, Shape
  <2>2. ASSUME OneInFlight, DataInv PROVE DataInv'
    <3>1. owed = <<>>
      BY <1>4, <2>2, Quiet DEF OneInFlight, PipeInv
    <3> QED
      BY <1>4, <2>1, <2>2, <3>1, EventData DEF DataInv
  <2> QED
    BY <2>1, <2>2
<1> QED
  BY <1>1, <1>3, <1>4

LEMMA HandlePipe ==
  ASSUME PipeInv, drmHandleEvent
  PROVE  PipeInv' /\ (DataInv => DataInv')
<1>1. pipe > 0 /\ pipe' = pipe - 1 /\ owed # <<>> /\ owed' = Tail(owed)
      /\ UNCHANGED <<fbs, next_fb_id>>
  BY DEF drmHandleEvent, PipeInv, Shape, EventsInPipe
<1>2. PipeInv'
  BY <1>1 DEF PipeInv, Shape, EventsInPipe
<1>3. Len(owed) <= 1 => owed' = <<>>
  BY <1>1 DEF PipeInv, Shape
<1> QED
  BY <1>2, <1>3 DEF DataInv, PendingIsNext

LEMMA OtherPipe ==
  ASSUME PipeInv, fbs' \subseteq Nat, next_fb_id' \in Nat, UNCHANGED events
  PROVE  PipeInv' /\ (DataInv => DataInv')
BY DEF events, DataInv, PipeInv, Shape, EventsInPipe, PendingIsNext

LEMMA NextPipe ==
  ASSUME EventFlips, PipeInv, [Next]_vars
  PROVE  PipeInv' /\ (OneInFlight /\ DataInv => DataInv')
<1>1. CASE \/ iland_drm_set_present_callback \/ iland_drm_set_cursor_callback
          \/ StartOrStop \/ drmModeSetCrtc \/ UNCHANGED vars
  BY <1>1, OtherPipe
  DEF iland_drm_set_present_callback, iland_drm_set_cursor_callback, StartOrStop,
      drmModeSetCrtc, vars, events, PipeInv, Shape
<1>2. CASE drmModeAddFB \/ drmModeRmFB
  <2>1. fbs' \subseteq Nat /\ next_fb_id' \in Nat
    <3>1. fbs \subseteq Nat /\ next_fb_id \in Nat
      BY DEF PipeInv, Shape
    <3>2. CASE drmModeAddFB
      BY <3>1, <3>2 DEF drmModeAddFB
    <3>3. CASE drmModeRmFB
      BY <3>1, <3>3 DEF drmModeRmFB
    <3> QED
      BY <1>2, <3>2, <3>3
  <2>2. UNCHANGED events
    BY <1>2 DEF drmModeAddFB, drmModeRmFB, events
  <2> QED
    BY <2>1, <2>2, OtherPipe
<1>3. CASE Flip
  BY <1>3, FlipPipe DEF Flip
<1>4. CASE Atomic
  BY <1>4, CommitPipe DEF Atomic
<1>5. CASE drmHandleEvent
  BY <1>5, HandlePipe
<1> QED
  BY <1>1, <1>2, <1>3, <1>4, <1>5 DEF Next

\* There is exactly one byte in the pipe for each event the client waits for: what
\* drmModePageFlip and the commits write, drmHandleEvent reads, and a flip that fails
\* leaves nothing behind.
THEOREM EventsInPipeInvariant ==
  ASSUME EventFlips PROVE Spec => []EventsInPipe
<1>1. Init => PipeInv
  BY InitPipe DEF DataInv
<1>2. PipeInv /\ [Next]_vars => PipeInv'
  BY NextPipe
<1>3. PipeInv => EventsInPipe
  BY DEF PipeInv
<1> QED
  BY <1>1, <1>2, <1>3, PTL DEF Spec

\* The next event passes its own flip's user data to the handler
\* (drm_linux.c: drmModePageFlip, drmHandleEvent, g_pending_flip_data).
THEOREM PendingIsNextInvariant ==
  ASSUME EventFlips, OneInFlight PROVE Spec => []PendingIsNext
<1>1. DataInv /\ [Next]_vars => DataInv'
  BY NextPipe DEF DataInv
<1>2. DataInv => PendingIsNext
  BY DEF DataInv
<1> QED
  BY <1>1, <1>2, InitPipe, PTL DEF Spec
-----------------------------------------------------------------------------
(* The cursor *)

\* What was forwarded last is the plane's position, and the host has it if it was
\* the one it was forwarded to.
CursorInv ==
  /\ cursor.fb > 0 => cursor_at = cursor.pos
  /\ cursor_to = "host" => host_cursor = cursor_at

LEMMA ForwardCursor ==
  ASSUME CursorInv, NEW req, Forward(req)
  PROVE  CursorInv'
<1>1. CASE cursor'.fb > 0 /\ cursor'.pos # cursor_at /\ g_cursor_cb
  BY <1>1 DEF Forward, CursorInv
<1>2. CASE cursor'.fb > 0 /\ cursor'.pos # cursor_at /\ ~g_cursor_cb
  BY <1>2 DEF Forward, CursorInv
<1>3. CASE ~(cursor'.fb > 0 /\ cursor'.pos # cursor_at)
  BY <1>3 DEF Forward, CursorInv
<1> QED
  BY <1>1, <1>2, <1>3

\* While the cursor plane has a framebuffer the host has its position, unless the last
\* move was forwarded while there was no callback (the atomic commits' prev_cx, prev_cy
\* and g_cursor_cb): after any sequence of requests, those the ioctl replays included,
\* and however the callback comes and goes.
THEOREM CursorFollowsInvariant == Spec => []CursorFollows
<1>1. Init => CursorInv
  BY DEF Init, CursorInv
<1>2. CursorInv /\ [Next]_vars => CursorInv'
  <2> SUFFICES ASSUME CursorInv, [Next]_vars PROVE CursorInv'
    OBVIOUS
  <2>1. CASE UNCHANGED cursors
    BY <2>1 DEF cursors, CursorInv
  <2>2. CASE Atomic
    BY <2>2, ForwardCursor DEF Atomic, Commit, handle_atomic, Apply
  <2>3. CASE Flip
    BY <2>1, <2>3 DEF Flip, drmModePageFlip
  <2> QED
    BY <2>1, <2>2, <2>3
    DEF Next, vars, cursors, iland_drm_set_present_callback, iland_drm_set_cursor_callback,
        StartOrStop, drmModeAddFB, drmModeRmFB, drmModeSetCrtc, drmHandleEvent
<1>3. CursorInv => CursorFollows
  BY DEF CursorInv, CursorFollows
<1> QED
  BY <1>1, <1>2, <1>3, PTL DEF Spec
-----------------------------------------------------------------------------
(* What the consumers show *)

Settings == PrimaryFb \cup CursorFb \cup CursorPos

\* The client waits for at most one event; the pooled request is made of settings.
FramesTypes ==
  /\ fbs \subseteq Nat /\ next_fb_id \in Nat
  /\ owed = <<>> \/ \E e \in Expected : owed = <<e>>
  /\ pool \in Seq(Settings) /\ shown \in [Consumers -> Nat]

FramesInv == FramesTypes /\ CompletedFramesShown

\* The greatest of the positions in a request is one of them.
LEMMA MaxIn ==
  ASSUME NEW n \in Nat, NEW S \in SUBSET (1 .. n), S # {}
  PROVE  Max(S) \in S /\ \A i \in S : Max(S) >= i
<1> DEFINE R == OpToRel(<, Nat)
           T == {n - i : i \in S}
<1>1. \A i, m \in Nat : i < m => <<i, m>> \in R
  BY DEF OpToRel
<1>2. IsWellFoundedOn(R, Nat)
  BY NatLessThanWellFounded
<1>3. T \in SUBSET Nat /\ T # {}
  <2>1. \A i \in S : n - i \in Nat
    OBVIOUS
  <2> QED
    BY <2>1
<1> HIDE DEF R
<1>4. PICK m \in T : \A k \in T : ~(<<k, m>> \in R)
  <2> HIDE DEF T
  <2> QED
    BY <1>2, <1>3, WFMin
<1>5. PICK i \in S : m = n - i
  BY <1>4
<1>6. ASSUME NEW j \in S PROVE i >= j
  <2>1. n - j \in T /\ n - j \in Nat /\ m \in Nat
    BY <1>3, <1>4
  <2>2. ~(n - j < m)
    BY <1>1, <1>4, <2>1
  <2> QED
    BY <1>5, <2>2
<1> QED
  BY <1>5, <1>6 DEF Max

\* The settings of a request that are in S: nothing, or the last of them.
LEMMA LastOfIs ==
  ASSUME NEW req \in Seq(Settings), NEW S, NEW default
  PROVE  \/ (\A i \in DOMAIN req : req[i] \notin S) /\ LastOf(req, S, default) = default
         \/ \E i \in DOMAIN req :
              /\ req[i] \in S /\ LastOf(req, S, default) = req[i].value
              /\ \A j \in DOMAIN req : req[j] \in S => j <= i
<1> DEFINE at == {i \in DOMAIN req : req[i] \in S}
<1>1. CASE at = {}
  BY <1>1, Zenon DEF LastOf
<1>2. CASE at # {}
  <2>1. at \in SUBSET (1 .. Len(req)) /\ Len(req) \in Nat
    OBVIOUS
  <2>2. Max(at) \in at /\ \A i \in at : Max(at) >= i
    <3> HIDE DEF at
    <3> QED
      BY <1>2, <2>1, MaxIn
  <2>3. LastOf(req, S, default) = req[Max(at)].value
    BY <1>2, Zenon DEF LastOf
  <2> QED
    BY <2>1, <2>2, <2>3
<1> QED
  BY <1>1, <1>2

\* A request without a frame leaves what is shown; one whose last frame exists shows it.
LEMMA FramesOf ==
  ASSUME FramesTypes, NEW req \in Seq(Settings)
  PROVE  /\ Frames(req) \in [Consumers -> Nat]
         /\ LastOf(req, PrimaryFb, -1) = -1 => Frames(req) = shown /\ CrtcFb(req) = crtc_fb_id
         /\ \A f \in fbs : f # 0 /\ f = LastOf(req, PrimaryFb, 0) /\ Reaches(f) =>
              Frames(req)[Consumer] = f /\ CrtcFb(req) = f
<1>1. fbs \subseteq Nat /\ shown \in [Consumers -> Nat] /\ Consumer \in Consumers
  BY DEF FramesTypes, Consumers, Consumer
<1>2. \A s \in PrimaryFb : s.value \in 0 .. MaxFb /\ s.value \in Int /\ s.value >= 0
  BY DrmKmsAssumption DEF DrmKmsAssumption, PrimaryFb, Setting
<1>3. /\ Live(PrimaryFb) \subseteq PrimaryFb
      /\ \A s \in PrimaryFb : s \in Live(PrimaryFb) <=> s.value \in fbs
  BY DEF Live
<1> DEFINE last == LastOf(req, Live(PrimaryFb), 0)
<1>4. Frames(req) \in [Consumers -> Nat]
  <2>1. last # 0 /\ Reaches(last) => last \in Nat
    BY <1>1 DEF Reaches
  <2>2. Frames(req) = IF last # 0 /\ Reaches(last) THEN [shown EXCEPT ![Consumer] = last] ELSE shown
    BY DEF Frames
  <2> HIDE DEF last
  <2> QED
    BY <1>1, <2>1, <2>2
<1>5. ASSUME LastOf(req, PrimaryFb, -1) = -1
      PROVE  Frames(req) = shown /\ CrtcFb(req) = crtc_fb_id
  <2>1. \A i \in DOMAIN req : req[i] \notin PrimaryFb
    BY <1>2, <1>5, LastOfIs
  <2>2. \A i \in DOMAIN req : req[i] \notin Live(PrimaryFb)
    BY <1>3, <2>1
  <2>3. last = 0 /\ LastOf(req, PrimaryFb, 0) = 0
        /\ LastOf(req, Live(PrimaryFb), crtc_fb_id) = crtc_fb_id
    BY <2>1, <2>2, LastOfIs
  <2> QED
    BY <2>3 DEF Frames, CrtcFb
<1>6. ASSUME NEW f \in fbs, f # 0, f = LastOf(req, PrimaryFb, 0), Reaches(f)
      PROVE  Frames(req)[Consumer] = f /\ CrtcFb(req) = f
  <2>1. PICK i \in DOMAIN req : /\ req[i] \in PrimaryFb /\ f = req[i].value
                               /\ \A j \in DOMAIN req : req[j] \in PrimaryFb => j <= i
    BY <1>6, LastOfIs
  <2>2. req[i] \in Live(PrimaryFb)
    BY <1>3, <2>1
  <2>3. PICK j \in DOMAIN req : /\ req[j] \in Live(PrimaryFb) /\ last = req[j].value
                               /\ \A k \in DOMAIN req : req[k] \in Live(PrimaryFb) => k <= j
    BY <2>2, LastOfIs
  <2>4. i = j
    BY <1>3, <2>1, <2>2, <2>3
  <2>5. last = f
    BY <2>1, <2>3, <2>4
  <2>6. f > 0
    BY <1>2, <1>6, <2>1
  <2> QED
    BY <1>1, <1>6, <2>5, <2>6 DEF Frames, CrtcFb
<1> QED
  BY <1>4, <1>5, <1>6

\* An event is expected for what was just shown, if the framebuffer exists.
LEMMA NewlyOwed ==
  ASSUME FramesTypes, owed = <<>>, NEW data \in Tags, NEW f,
         NEW via \in {"flip", "api", "ioctl"}, Event(data, f, via)
  PROVE  /\ \E e \in Expected : owed' = <<e>>
         /\ \A i \in DOMAIN owed' :
              /\ owed'[i].via = via /\ owed'[i].to = Consumer
              /\ owed'[i].fb # 0 => f \in fbs /\ owed'[i].fb = f
<1> DEFINE e == Waiting(data, f, via)
<1>1. owed' = <<e>>
  BY DEF Event
<1>2. /\ e \in Expected /\ e.via = via /\ e.to = Consumer
      /\ e.fb # 0 => f \in fbs /\ e.fb = f
  BY DEF FramesTypes, Waiting, Expected, Consumers, Consumer
<1> HIDE DEF e
<1> QED
  BY <1>1, <1>2

LEMMA FlipFrames ==
  ASSUME OneInFlight, FramesInv, NEW f \in fbs, NEW flag \in FlipFlags, NEW data \in Tags,
         drmModePageFlip(f, flag, data)
  PROVE  FramesInv'
<1>1. /\ owed = <<>> /\ UNCHANGED <<fbs, next_fb_id, pool>> /\ crtc_fb_id' = f /\ Present(f)
      /\ \/ Event(data, f, "flip") /\ Reaches(f)
         \/ UNCHANGED owed
  BY DEF drmModePageFlip, FramesInv, FramesTypes, OneInFlight, Reaches
<1>2. shown \in [Consumers -> Nat] /\ Consumer \in Consumers /\ f \in Nat
  BY DEF FramesInv, FramesTypes, Consumers, Consumer
<1>3. shown' \in [Consumers -> Nat] /\ (Reaches(f) => shown'[Consumer] = f)
  BY <1>1, <1>2 DEF Present
<1>4. CASE UNCHANGED owed
  BY <1>1, <1>3, <1>4 DEF FramesInv, FramesTypes, CompletedFramesShown
<1>5. CASE Event(data, f, "flip") /\ Reaches(f)
  <2>1. FramesTypes'
    BY <1>1, <1>3, <1>5, NewlyOwed DEF FramesInv, FramesTypes
  <2>2. \A i \in DOMAIN owed' : owed'[i].fb # 0 =>
          shown'[owed'[i].to] = owed'[i].fb /\ crtc_fb_id' = owed'[i].fb
    BY <1>1, <1>3, <1>5, NewlyOwed DEF FramesInv
  <2> QED
    BY <2>1, <2>2 DEF FramesInv, CompletedFramesShown
<1> QED
  BY <1>1, <1>4, <1>5

LEMMA CommitFrames ==
  ASSUME OneInFlight, FramesInv, NEW req \in Requests, NEW flag \in CommitFlags,
         NEW data \in Tags, Commit(req, flag, data)
  PROVE  FramesInv'
<1>1. req \in Seq(Settings)
  BY DrmKmsAssumption DEF DrmKmsAssumption, Settings
<1>2. /\ shown' = Frames(req) /\ crtc_fb_id' = CrtcFb(req)
      /\ UNCHANGED <<world, fbs, next_fb_id, pool>>
      /\ \/ owed = <<>> /\ Event(data, LastOf(req, PrimaryFb, 0), "api")
         \/ owed = <<>> /\ UNCHANGED owed
         \/ LastOf(req, PrimaryFb, -1) = -1 /\ UNCHANGED owed
  BY DEF Commit, Apply, Signal, MayCommit, FramesInv, FramesTypes, OneInFlight
<1>3. shown' \in [Consumers -> Nat]
  BY <1>1, <1>2, FramesOf DEF FramesInv
<1>4. CASE owed = <<>> /\ UNCHANGED owed
  BY <1>2, <1>3, <1>4 DEF FramesInv, FramesTypes, CompletedFramesShown
<1>5. CASE LastOf(req, PrimaryFb, -1) = -1 /\ UNCHANGED owed
  <2>1. shown' = shown /\ crtc_fb_id' = crtc_fb_id
    BY <1>1, <1>2, <1>5, FramesOf DEF FramesInv
  <2> QED
    BY <1>2, <1>5, <2>1 DEF FramesInv, FramesTypes, CompletedFramesShown
<1>6. CASE owed = <<>> /\ Event(data, LastOf(req, PrimaryFb, 0), "api")
  <2>1. PICK f : f = LastOf(req, PrimaryFb, 0)
    OBVIOUS
  <2>2. /\ \E e \in Expected : owed' = <<e>>
        /\ \A i \in DOMAIN owed' :
             /\ owed'[i].to = Consumer
             /\ owed'[i].fb # 0 => f \in fbs /\ owed'[i].fb = f
    BY <1>6, <2>1, NewlyOwed DEF FramesInv
  <2>3. FramesTypes'
    BY <1>2, <1>3, <2>2 DEF FramesInv, FramesTypes
  <2>4. ASSUME NEW i \in DOMAIN owed', owed'[i].fb # 0, owed'[i].to = "host"
        PROVE  shown'["host"] = owed'[i].fb /\ crtc_fb_id' = owed'[i].fb
    <3>1. Consumer = "host" /\ g_present_cb /\ f \in fbs /\ f # 0 /\ owed'[i].fb = f
      BY <2>2, <2>4 DEF Consumer
    <3>2. Reaches(f)
      BY <3>1 DEF Reaches
    <3> QED
      BY <1>1, <1>2, <2>1, <3>1, <3>2, FramesOf DEF FramesInv
  <2>5. \A i \in DOMAIN owed' : owed'[i].via = "api"
    BY <1>6, NewlyOwed DEF FramesInv
  <2> QED
    BY <2>3, <2>4, <2>5 DEF FramesInv, CompletedFramesShown
<1> QED
  BY <1>2, <1>4, <1>5, <1>6

\* After a commit through the ioctl the pooled request is not empty, and nothing is said.
LEMMA IoctlFrames ==
  ASSUME OneInFlight, FramesInv, NEW req \in IoctlRequests, NEW flag \in CommitFlags,
         NEW data \in Tags, handle_atomic(req, flag, data)
  PROVE  FramesInv'
<1>1. req \in Seq(Settings) /\ req # <<>> /\ pool \in Seq(Settings)
  BY DrmKmsAssumption DEF DrmKmsAssumption, Settings, handle_atomic, FramesInv, FramesTypes
<1>2. /\ pool' = Added(req) /\ shown' = Frames(Added(req))
      /\ UNCHANGED <<world, fbs, next_fb_id>>
      /\ \/ owed = <<>> /\ Event(data, LastOf(req, PrimaryFb, 0), "ioctl")
         \/ UNCHANGED owed
  <2>1. Len(owed) < 1 => owed = <<>>
    BY DEF FramesInv, FramesTypes
  <2>2. owed = <<>> \/ flag # "event"
    BY <2>1 DEF handle_atomic, MayCommit, OneInFlight
  <2>3. /\ pool' = Added(req) /\ shown' = Frames(Added(req))
        /\ UNCHANGED <<world, fbs, next_fb_id>>
    BY Zenon DEF handle_atomic, Apply, Signal
  <2>4. IF flag = "event" THEN Event(data, LastOf(req, PrimaryFb, 0), "ioctl")
        ELSE UNCHANGED <<g_pending_flip_data, pipe, owed>>
    BY Zenon DEF handle_atomic, Signal
  <2>5. \/ owed = <<>> /\ Event(data, LastOf(req, PrimaryFb, 0), "ioctl")
        \/ UNCHANGED owed
    BY <2>2, <2>4, Zenon
  <2> QED
    BY <2>3, <2>5, Zenon
<1>3. Added(req) \in Seq(Settings) /\ Added(req) # <<>>
  <2> DEFINE m == Min({MAX_ATOMIC_PROPS, Len(pool) + Len(req)})
             all == pool \o req
  <2>1. /\ all \in Seq(Settings) /\ Len(all) = Len(pool) + Len(req)
        /\ Len(pool) \in Nat /\ Len(req) \in Nat /\ Len(req) > 0
    <3> HIDE DEF Settings
    <3> QED
      BY <1>1
  <2>2. m \in 1 .. Len(all)
    <3>1. \A a, b \in Nat : a > 0 /\ b > 0 => Min({a, b}) \in {a, b} /\ Min({a, b}) <= b
      <4> SUFFICES ASSUME NEW a \in Nat, NEW b \in Nat
                   PROVE  Min({a, b}) \in {a, b} /\ Min({a, b}) <= b
        OBVIOUS
      <4>1. \E x \in {a, b} : \A y \in {a, b} : x =< y
        OBVIOUS
      <4>2. Min({a, b}) \in {a, b} /\ \A y \in {a, b} : Min({a, b}) =< y
        BY <4>1 DEF Min
      <4> QED
        BY <4>2
    <3>2. MAX_ATOMIC_PROPS \in Nat /\ MAX_ATOMIC_PROPS > 0
      BY DrmKmsAssumption DEF DrmKmsAssumption
    <3> HIDE DEF all
    <3> QED
      BY <2>1, <3>1, <3>2
  <2>3. Added(req) = SubSeq(all, 1, m)
    BY DEF Added
  <2> HIDE DEF all, m, Settings
  <2>4. SubSeq(all, 1, m) \in Seq(Settings) /\ Len(SubSeq(all, 1, m)) = m
    BY <2>1, <2>2
  <2> QED
    BY <2>2, <2>3, <2>4
<1>4. shown' \in [Consumers -> Nat]
  BY <1>2, <1>3, FramesOf DEF FramesInv
<1>5. owed' = <<>> \/ \E e \in Expected : owed' = <<e>>
  BY <1>2, NewlyOwed DEF FramesInv, FramesTypes
<1> QED
  BY <1>2, <1>3, <1>4, <1>5 DEF FramesInv, FramesTypes, CompletedFramesShown

LEMMA NextFrames ==
  ASSUME OneInFlight, FramesInv, [Next]_vars
  PROVE  FramesInv'
<1>1. ASSUME UNCHANGED <<pool, shown>>, fbs' \subseteq Nat, next_fb_id' \in Nat,
             owed' = <<>> \/ UNCHANGED <<owed, crtc_fb_id>>
      PROVE  FramesInv'
  BY <1>1 DEF FramesInv, FramesTypes, CompletedFramesShown
<1>2. fbs \subseteq Nat /\ next_fb_id \in Nat /\ (owed # <<>> => Tail(owed) = <<>>)
  <2>1. \A e : Tail(<<e>>) = <<>>
    OBVIOUS
  <2> QED
    BY <2>1 DEF FramesInv, FramesTypes
<1>3. CASE \/ iland_drm_set_present_callback \/ iland_drm_set_cursor_callback
          \/ StartOrStop \/ UNCHANGED vars
  BY <1>1, <1>2, <1>3
  DEF iland_drm_set_present_callback, iland_drm_set_cursor_callback, StartOrStop, vars
<1>4. CASE drmModeAddFB
  BY <1>1, <1>2, <1>4 DEF drmModeAddFB
<1>5. CASE drmModeRmFB
  BY <1>1, <1>2, <1>5 DEF drmModeRmFB
<1>6. CASE drmModeSetCrtc
  BY <1>1, <1>2, <1>6 DEF drmModeSetCrtc
<1>7. CASE drmHandleEvent
  BY <1>1, <1>2, <1>7 DEF drmHandleEvent
<1>8. CASE Flip
  BY <1>8, FlipFrames DEF Flip
<1>9. CASE Atomic
  BY <1>9, CommitFrames, IoctlFrames DEF Atomic
<1> QED
  BY <1>3, <1>4, <1>5, <1>6, <1>7, <1>8, <1>9 DEF Next

\* The frame whose completion the client waits for is the one its consumer was given last
\* and GetCrtc reports (drmModePageFlip and the atomic commits of drm_linux.c), for any
\* framebuffers and requests, and whichever consumers come and go.
THEOREM CompletedFramesShownInvariant ==
  ASSUME OneInFlight PROVE Spec => []CompletedFramesShown
<1>1. Init => FramesInv
  BY DEF Init, FramesInv, FramesTypes, CompletedFramesShown, Consumers
<1>2. FramesInv /\ [Next]_vars => FramesInv'
  BY NextFrames
<1>3. FramesInv => CompletedFramesShown
  BY DEF FramesInv
<1> QED
  BY <1>1, <1>2, <1>3, PTL DEF Spec
=============================================================================
