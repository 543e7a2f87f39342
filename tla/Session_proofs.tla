--------------------------- MODULE Session_proofs ---------------------------
(***************************************************************************)
(* Proofs about Session for any ring, any port, any number of processes    *)
(* and frames, and any lives and deaths of framebufferd: the buffer a      *)
(* client flips to holds the frame it drew last, framebufferd's references *)
(* are those its threads use, a flip fails only in an outage, and the ring *)
(* keeps a frame until it has gone round.                                  *)
(***************************************************************************)
EXTENDS Session, FiniteSetTheorems, TLAPS

\* ANGLE can bind every buffer of a surface or none; they have one format.
AllOrNone == Refusals \subseteq {{}, Bos}

Flipping == {"flip", "look_up", "send", "look_up_again", "resend"}

RingTypes ==
  /\ write_idx \in Bos /\ read_idx \in Bos /\ count \in Nat
  /\ content \in [Bos -> Nat] /\ drawn \in Nat /\ frame \in Nat
  /\ zerocopy \in BOOLEAN

\* The client's place in its loop, and what the ring then holds.
Places ==
  /\ pc \in {"create", "draw", "swap", "lock", "failed"} \cup Flipping
  /\ pc \in {"create", "draw", "swap"} => count = 0 /\ read_idx = write_idx
  /\ pc = "lock" => count = 1 /\ write_idx = Advance(read_idx) /\ content[read_idx] = frame
  /\ pc \in Flipping =>
       count = 0 /\ read_idx = write_idx /\ next_bo \in Bos /\ content[next_bo] = frame

\* The render target is the buffer that will be published, or the copy's own.
Target ==
  pc \notin {"create", "failed"} =>
    IF zerocopy THEN refused = {} /\ angle_surface = write_idx ELSE angle_surface = NoBo

LastDrawn ==
  pc = "swap" => frame = IF zerocopy THEN content[write_idx] ELSE drawn

RingInv ==
  /\ refused \in {{}, Bos} /\ (pc = "create" => write_idx = 0)
  /\ RingTypes /\ Places /\ Target /\ LastDrawn
-----------------------------------------------------------------------------
(* The ring *)

LEMMA BosType == 0 \in Bos /\ NoBo \notin Bos /\ Bos \subseteq Nat
BY SessionAssumption DEF SessionAssumption, Bos, NoBo

LEMMA AdvanceInRing == \A idx \in Bos : Advance(idx) \in Bos
BY SessionAssumption DEF SessionAssumption, Bos, Advance

LEMMA RingInit == AllOrNone /\ Init => RingInv
BY BosType DEF AllOrNone, Init, RingInv, RingTypes, Places, Target, LastDrawn, Flipping

LEMMA CreateRing ==
  ASSUME RingInv, NEW enabled \in BOOLEAN, eglCreateWindowSurface(enabled)
  PROVE  RingInv'
<1>1. /\ pc = "create" /\ pc' = "draw" /\ write_idx = 0
      /\ UNCHANGED <<refused, content, drawn, frame, write_idx, read_idx, count>>
  BY DEF eglCreateWindowSurface, RingInv
<1>2. zerocopy' \in BOOLEAN
  BY Zenon DEF eglCreateWindowSurface
<1>3. zerocopy' => refused = {}
  <2>1. zerocopy' => write_idx \notin refused
    BY Zenon DEF eglCreateWindowSurface, Binds
  <2>2. refused = {} \/ refused = Bos
    BY DEF RingInv
  <2> QED
    BY <1>1, <2>1, <2>2, BosType, Zenon
<1>4. angle_surface' = IF zerocopy' THEN write_idx ELSE NoBo
  BY DEF eglCreateWindowSurface
<1> QED
  BY <1>1, <1>2, <1>3, <1>4 DEF RingInv, RingTypes, Places, Target, LastDrawn, Flipping

LEMMA DrawRing == RingInv /\ Draw => RingInv'
<1> SUFFICES ASSUME RingInv, Draw PROVE RingInv'
  OBVIOUS
<1>1. /\ pc = "draw" /\ pc' = "swap" /\ frame' = frame + 1
      /\ UNCHANGED <<zerocopy, refused, angle_surface, write_idx, read_idx, count, next_bo>>
  BY DEF Draw
<1>2. CASE zerocopy
  <2>1. angle_surface = write_idx /\ angle_surface # NoBo
    BY <1>1, <1>2, BosType DEF RingInv, Target, RingTypes
  <2>2. content' = [content EXCEPT ![write_idx] = frame'] /\ drawn' = drawn
    BY <2>1 DEF Draw
  <2> QED
    BY <1>1, <1>2, <2>1, <2>2
       DEF RingInv, RingTypes, Places, Target, LastDrawn, Flipping
<1>3. CASE ~zerocopy
  <2>1. content' = content /\ drawn' = frame'
    BY <1>1, <1>3 DEF Draw, RingInv, Target
  <2> QED
    BY <1>1, <1>3, <2>1 DEF RingInv, RingTypes, Places, Target, LastDrawn, Flipping
<1> QED
  BY <1>2, <1>3

LEMMA SwapRing == RingInv /\ eglSwapBuffers => RingInv'
<1> SUFFICES ASSUME RingInv, eglSwapBuffers PROVE RingInv'
  OBVIOUS
<1>1. /\ pc = "swap" /\ pc' = "lock" /\ count' = count + 1
      /\ write_idx' = Advance(write_idx) /\ write_idx' \in Bos
      /\ UNCHANGED <<zerocopy, refused, drawn, frame, read_idx>>
  BY AdvanceInRing DEF eglSwapBuffers, RingInv, RingTypes
<1>2. count = 0 /\ read_idx = write_idx
  BY <1>1 DEF RingInv, Places
<1>3. CASE zerocopy
  <2>1. content' = content /\ angle_surface' = write_idx'
    BY <1>1, <1>3 DEF eglSwapBuffers, Binds, RingInv, Target
  <2> QED
    BY <1>1, <1>2, <1>3, <2>1
       DEF RingInv, RingTypes, Places, Target, LastDrawn, Flipping
<1>4. CASE ~zerocopy
  <2>1. content' = [content EXCEPT ![write_idx] = drawn] /\ angle_surface' = NoBo
    BY <1>1, <1>4 DEF eglSwapBuffers, RingInv, Target
  <2> QED
    BY <1>1, <1>2, <1>4, <2>1
       DEF RingInv, RingTypes, Places, Target, LastDrawn, Flipping
<1> QED
  BY <1>3, <1>4

LEMMA LockRing == RingInv /\ gbm_surface_lock_front_buffer => RingInv'
<1> SUFFICES ASSUME RingInv, gbm_surface_lock_front_buffer PROVE RingInv'
  OBVIOUS
<1>1. /\ pc = "lock" /\ pc' \in {"draw", "flip"} /\ next_bo' = read_idx
      /\ read_idx' = Advance(read_idx) /\ count' = count - 1
      /\ UNCHANGED <<zerocopy, refused, angle_surface, content, drawn, frame, write_idx>>
  BY DEF gbm_surface_lock_front_buffer
<1>2. count = 1 /\ write_idx = Advance(read_idx) /\ content[read_idx] = frame
  BY <1>1 DEF RingInv, Places
<1> QED
  BY <1>1, <1>2 DEF RingInv, RingTypes, Places, Target, LastDrawn, Flipping

\* What is left of a flip, and all of framebufferd, leave the ring alone.
LEMMA SameRing ==
  ASSUME RingInv, UNCHANGED ringvars,
         \/ pc' = pc
         \/ pc \in Flipping /\ pc' \in Flipping \cup {"draw", "failed"}
  PROVE  RingInv'
BY DEF RingInv, RingTypes, Places, Target, LastDrawn, Flipping, ringvars

LEMMA ClientRing == RingInv /\ Client => RingInv'
<1> SUFFICES ASSUME RingInv, Client PROVE RingInv'
  OBVIOUS
<1>1. CASE drmModePageFlip
  BY <1>1, SameRing DEF drmModePageFlip, Flipping
<1>2. CASE LookUp("look_up", "send") \/ LookUp("look_up_again", "resend")
  BY <1>2, SameRing DEF LookUp, Flipping
<1>3. CASE Sends
  BY <1>3, SameRing DEF Sends, Flipping
<1>4. CASE SendFails
  BY <1>4, SameRing DEF SendFails, Flipping
<1> QED
  BY <1>1, <1>2, <1>3, <1>4, CreateRing, DrawRing, SwapRing, LockRing DEF Client

LEMMA NextRing == RingInv /\ [Next]_allvars => RingInv'
<1> SUFFICES ASSUME RingInv, [Next]_allvars PROVE RingInv'
  OBVIOUS
<1>1. CASE Drawing
  BY <1>1, ClientRing DEF Drawing
<1>2. CASE UNCHANGED clientvars
  BY <1>2, SameRing DEF clientvars, ringvars
<1>3. CASE Dying
  BY <1>3, SameRing DEF Dying, Dies
<1>4. CASE Registering
  BY <1>2, <1>4 DEF Registering, Serves, vars
<1>5. CASE Presenting
  BY <1>2, <1>5 DEF Presenting, Daemon, Receives, Stores, TimerFires, TimerClears,
                    TimerSnapshot, TimerPresents
<1>6. CASE Loading \/ UNCHANGED allvars
  BY <1>2, <1>6 DEF Loading, allvars, vars
<1> QED
  BY <1>1, <1>3, <1>4, <1>5, <1>6 DEF Next

\* The buffer a client flips to is the one it has just drawn, zero-copy or not (egl.c, gbm.m):
\* for any number of buffers and frames.
THEOREM FlipsLastDrawnInvariant ==
  ASSUME AllOrNone
  PROVE  Spec => []FlipsLastDrawn
<1>1. SessionInit => RingInv
  BY RingInit DEF SessionInit
<1>2. RingInv => FlipsLastDrawn
  BY DEF RingInv, Places, Flipping, FlipsLastDrawn
<1> QED
  BY <1>1, <1>2, NextRing, PTL DEF Spec
-----------------------------------------------------------------------------
(* framebufferd's references *)

Frames   == [bo : Bos, frame : Nat]
Surfaces == Frames \cup {Nothing}

One(s, b) == IF s.bo = b THEN 1 ELSE 0

RetainedTypes ==
  /\ queue \in Seq(Frames) /\ {received, g_client_surface, client} \subseteq Surfaces
  /\ retained \in [Bos -> Int]
  /\ timer # "present" => client = Nothing

Counted ==
  \A b \in Bos :
    retained[b] = One(received, b) + One(g_client_surface, b) + One(client, b)

RetainedInv == RetainedTypes /\ Counted

\* A set of three holders that are told apart by their names.
LEMMA ThreeHolders ==
  ASSUME NEW r, NEW g, NEW c, NEW b
  PROVE  Cardinality({h \in {<<"server", r>>, <<"latest", g>>, <<"timer", c>>} : h[2].bo = b})
           = One(r, b) + One(g, b) + One(c, b)
<1> DEFINE R == IF r.bo = b THEN {<<"server", r>>} ELSE {}
           G == IF g.bo = b THEN {<<"latest", g>>} ELSE {}
           C == IF c.bo = b THEN {<<"timer", c>>} ELSE {}
<1>1. {h \in {<<"server", r>>, <<"latest", g>>, <<"timer", c>>} : h[2].bo = b} = (R \cup G) \cup C
  OBVIOUS
<1>2. IsFiniteSet(R) /\ Cardinality(R) = One(r, b)
  BY FS_EmptySet, FS_Singleton DEF One
<1>3. IsFiniteSet(G) /\ Cardinality(G) = One(g, b)
  BY FS_EmptySet, FS_Singleton DEF One
<1>4. IsFiniteSet(C) /\ Cardinality(C) = One(c, b)
  BY FS_EmptySet, FS_Singleton DEF One
<1>5. R \cap G = {} /\ (R \cup G) \cap C = {}
  OBVIOUS
<1> HIDE DEF R, G, C
<1>6. IsFiniteSet(R \cup G) /\ Cardinality(R \cup G) = One(r, b) + One(g, b)
  <2>1. Cardinality(R \cap G) = 0
    BY <1>5, FS_EmptySet
  <2>2. /\ IsFiniteSet(R \cup G)
        /\ Cardinality(R \cup G) = Cardinality(R) + Cardinality(G) - Cardinality(R \cap G)
    BY <1>2, <1>3, FS_Union
  <2> QED
    BY <1>2, <1>3, <2>1, <2>2 DEF One
<1>7. Cardinality((R \cup G) \cup C) = One(r, b) + One(g, b) + One(c, b)
  <2>1. Cardinality((R \cup G) \cap C) = 0
    BY <1>5, FS_EmptySet
  <2>2. Cardinality((R \cup G) \cup C)
          = Cardinality(R \cup G) + Cardinality(C) - Cardinality((R \cup G) \cap C)
    BY <1>4, <1>6, FS_Union
  <2> QED
    BY <1>4, <1>6, <2>1, <2>2 DEF One
<1> QED
  BY <1>1, <1>7

LEMMA Retaining ==
  ASSUME NEW s \in Surfaces, NEW r \in [Bos -> Int]
  PROVE  /\ Retain(s, r) \in [Bos -> Int] /\ \A b \in Bos : Retain(s, r)[b] = r[b] + One(s, b)
         /\ Release(s, r) \in [Bos -> Int] /\ \A b \in Bos : Release(s, r)[b] = r[b] - One(s, b)
<1>1. CASE s = Nothing
  <2>1. \A b \in Bos : One(s, b) = 0
    BY <1>1, BosType DEF One, Nothing
  <2>2. Retain(s, r) = r /\ Release(s, r) = r
    BY <1>1 DEF Retain, Release
  <2> QED
    BY <2>1, <2>2
<1>2. CASE s # Nothing
  <2>1. s.bo \in Bos
    BY <1>2 DEF Surfaces, Frames
  <2>2. /\ Retain(s, r) = [r EXCEPT ![s.bo] = @ + 1]
        /\ Release(s, r) = [r EXCEPT ![s.bo] = @ - 1]
    BY <1>2 DEF Retain, Release
  <2> QED
    BY <2>1, <2>2 DEF One
<1> QED
  BY <1>1, <1>2

LEMMA OneType == \A s, b : One(s, b) \in Int
BY DEF One

LEMMA NothingHeld == \A b \in Bos : One(Nothing, b) = 0
BY BosType DEF One, Nothing

LEMMA RetainedInit == Init => RetainedInv
BY NothingHeld DEF Init, RetainedInv, RetainedTypes, Counted, Surfaces

\* What the client sends is a buffer of its ring, whatever ANGLE binds.
LockedInv == read_idx \in Bos /\ frame \in Nat /\ (pc \in Flipping => next_bo \in Bos)

LEMMA LockedInit == Init => LockedInv
BY BosType DEF Init, LockedInv, Flipping

LEMMA NextLocked == LockedInv /\ [Next]_allvars => LockedInv'
<1> SUFFICES ASSUME LockedInv, [Next]_allvars PROVE LockedInv'
  OBVIOUS
<1>1. CASE Drawing
  <2>1. CASE gbm_surface_lock_front_buffer
    BY <2>1, AdvanceInRing DEF gbm_surface_lock_front_buffer, LockedInv
  <2>2. CASE (\E enabled \in BOOLEAN : eglCreateWindowSurface(enabled)) \/ Draw \/ eglSwapBuffers
    BY <2>2 DEF eglCreateWindowSurface, Draw, eglSwapBuffers, LockedInv, Flipping
  <2>3. CASE drmModePageFlip \/ LookUp("look_up", "send") \/ LookUp("look_up_again", "resend")
             \/ Sends \/ SendFails
    BY <2>3 DEF drmModePageFlip, LookUp, Sends, SendFails, LockedInv, Flipping, ringvars
  <2> QED
    BY <1>1, <2>1, <2>2, <2>3 DEF Drawing, Client
<1>2. CASE UNCHANGED clientvars
  BY <1>2 DEF clientvars, LockedInv
<1>3. CASE Dying
  BY <1>3 DEF Dying, Dies, ringvars, LockedInv
<1>4. CASE Registering \/ Presenting \/ Loading \/ UNCHANGED allvars
  BY <1>2, <1>4 DEF Registering, Serves, Loading, allvars, vars, Presenting, Daemon, Receives,
     Stores, TimerFires, TimerClears, TimerSnapshot, TimerPresents
<1> QED
  BY <1>1, <1>3, <1>4 DEF Next

LEMMA SendsFrames == LockedInv /\ RetainedInv /\ Sends => RetainedInv'
<1> SUFFICES ASSUME LockedInv, RetainedInv, Sends PROVE RetainedInv'
  OBVIOUS
<1>1. [bo |-> next_bo, frame |-> frame] \in Frames
  BY DEF Sends, LockedInv, Flipping, Frames
<1>2. queue' \in Seq(Frames)
  BY <1>1 DEF Sends, RetainedInv, RetainedTypes
<1> QED
  BY <1>2 DEF Sends, RetainedInv, RetainedTypes, Counted, shelf

LEMMA SameShelf ==
  ASSUME RetainedInv, UNCHANGED <<queue, received, g_client_surface, timer, client, retained>>
  PROVE  RetainedInv'
BY DEF RetainedInv, RetainedTypes, Counted

LEMMA ReceivesCounts == RetainedInv /\ Receives => RetainedInv'
<1> SUFFICES ASSUME RetainedInv, Receives PROVE RetainedInv'
  OBVIOUS
<1>1. received' \in Surfaces /\ queue' \in Seq(Frames)
  BY DEF Receives, RetainedInv, RetainedTypes, Surfaces
<1>2. retained' = Retain(received', retained) /\ retained \in [Bos -> Int]
  BY DEF Receives, RetainedInv, RetainedTypes
<1>3. /\ retained' \in [Bos -> Int]
      /\ \A b \in Bos : retained'[b] = retained[b] + One(received', b)
  BY <1>1, <1>2, Retaining
<1>4. received = Nothing /\ UNCHANGED <<g_client_surface, timer, client>>
  BY DEF Receives
<1>5. Counted'
  BY <1>3, <1>4, NothingHeld, OneType DEF RetainedInv, Counted
<1> QED
  BY <1>1, <1>3, <1>4, <1>5 DEF RetainedInv, RetainedTypes

\* The reference to the surface that is replaced is released; the new one's moves.
LEMMA StoresCounts == RetainedInv /\ Stores => RetainedInv'
<1> SUFFICES ASSUME RetainedInv, Stores PROVE RetainedInv'
  OBVIOUS
<1>1. /\ g_client_surface' = received /\ received' = Nothing
      /\ UNCHANGED <<queue, timer, client>>
  BY DEF Stores
<1>2. /\ retained' = Release(g_client_surface, retained)
      /\ retained \in [Bos -> Int] /\ g_client_surface \in Surfaces
  BY DEF Stores, RetainedInv, RetainedTypes
<1>3. /\ retained' \in [Bos -> Int]
      /\ \A b \in Bos : retained'[b] = retained[b] - One(g_client_surface, b)
  BY <1>2, Retaining
<1>4. Counted'
  BY <1>1, <1>3, NothingHeld, OneType DEF RetainedInv, Counted
<1> QED
  BY <1>1, <1>3, <1>4 DEF RetainedInv, RetainedTypes, Surfaces

LEMMA SnapshotCounts == RetainedInv /\ TimerSnapshot => RetainedInv'
<1> SUFFICES ASSUME RetainedInv, TimerSnapshot PROVE RetainedInv'
  OBVIOUS
<1>1. /\ client = Nothing /\ client' = g_client_surface /\ timer' = "present"
      /\ UNCHANGED <<queue, received, g_client_surface>>
  BY DEF TimerSnapshot, RetainedInv, RetainedTypes
<1>2. /\ retained' = Retain(client', retained)
      /\ retained \in [Bos -> Int] /\ client' \in Surfaces
  BY <1>1 DEF TimerSnapshot, RetainedInv, RetainedTypes
<1>3. /\ retained' \in [Bos -> Int]
      /\ \A b \in Bos : retained'[b] = retained[b] + One(client', b)
  BY <1>2, Retaining
<1>4. Counted'
  BY <1>1, <1>3, NothingHeld, OneType DEF RetainedInv, Counted
<1> QED
  BY <1>1, <1>3, <1>4 DEF RetainedInv, RetainedTypes

LEMMA PresentsCounts == RetainedInv /\ TimerPresents => RetainedInv'
<1> SUFFICES ASSUME RetainedInv, TimerPresents PROVE RetainedInv'
  OBVIOUS
<1>1. /\ client' = Nothing /\ timer' = "idle"
      /\ UNCHANGED <<queue, received, g_client_surface>>
  BY DEF TimerPresents
<1>2. /\ retained' = Release(client, retained)
      /\ retained \in [Bos -> Int] /\ client \in Surfaces
  BY DEF TimerPresents, RetainedInv, RetainedTypes
<1>3. /\ retained' \in [Bos -> Int]
      /\ \A b \in Bos : retained'[b] = retained[b] - One(client, b)
  BY <1>2, Retaining
<1>4. Counted'
  BY <1>1, <1>3, NothingHeld, OneType DEF RetainedInv, Counted
<1> QED
  BY <1>1, <1>3, <1>4 DEF RetainedInv, RetainedTypes, Surfaces

LEMMA TimerWaits == RetainedInv /\ (TimerFires \/ TimerClears) => RetainedInv'
BY DEF RetainedInv, RetainedTypes, Counted, TimerFires, TimerClears

\* The process ends with its references.
LEMMA DiesCounts == RetainedInv /\ Dies => RetainedInv'
<1> SUFFICES ASSUME RetainedInv, Dies PROVE RetainedInv'
  OBVIOUS
<1>1. /\ queue' = <<>> /\ received' = Nothing /\ g_client_surface' = Nothing
      /\ client' = Nothing /\ retained' = [b \in Bos |-> 0]
  BY DEF Dies
<1> QED
  BY <1>1, NothingHeld DEF RetainedInv, RetainedTypes, Counted, Surfaces

LEMMA NextRetained == LockedInv /\ RetainedInv /\ [Next]_allvars => RetainedInv'
<1> SUFFICES ASSUME LockedInv, RetainedInv, [Next]_allvars PROVE RetainedInv'
  OBVIOUS
<1>1. CASE Drawing
  <2>1. CASE Sends
    BY <2>1, SendsFrames
  <2>2. CASE UNCHANGED daemonvars
    BY <2>2, SameShelf DEF daemonvars
  <2> QED
    BY <1>1, <2>1, <2>2
       DEF Drawing, Client, eglCreateWindowSurface, Draw, eglSwapBuffers,
           gbm_surface_lock_front_buffer, drmModePageFlip, LookUp, SendFails
<1>2. CASE Presenting
  BY <1>2, ReceivesCounts, StoresCounts, SnapshotCounts, PresentsCounts, TimerWaits
     DEF Presenting, Daemon
<1>3. CASE Dying
  BY <1>3, DiesCounts DEF Dying
<1>4. CASE Registering
  BY <1>4, SameShelf DEF Registering, Serves, vars, daemonvars, shelf
<1>5. CASE Loading \/ UNCHANGED allvars
  BY <1>5, SameShelf DEF Loading, allvars, vars, daemonvars
<1> QED
  BY <1>1, <1>2, <1>3, <1>4, <1>5 DEF Next

\* framebufferd's references to a surface (main.m) are those of the server thread, of
\* g_client_surface and of the timer's snapshot: none is released while it is in use and
\* none is kept, for any number of buffers, frames and restarts.
THEOREM SurfacesRetainedInvariant == Spec => []SurfacesRetained
<1>1. SessionInit => LockedInv /\ RetainedInv
  BY LockedInit, RetainedInit DEF SessionInit
<1>2. LockedInv /\ RetainedInv /\ [Next]_allvars => (LockedInv /\ RetainedInv)'
  BY NextLocked, NextRetained
<1>3. RetainedInv => SurfacesRetained
  BY ThreeHolders DEF RetainedInv, Counted, SurfacesRetained
<1> QED
  BY <1>1, <1>2, <1>3, PTL DEF Spec
-----------------------------------------------------------------------------
(* A flip that fails *)

\* The client has begun to send, with the port it had or with one it looks up.
Sending == {"look_up", "send", "look_up_again", "resend"}

\* While a flip lasts framebufferd is missing only after an outage, and the port that was
\* looked up for the second attempt goes stale only by one.
FailsInv ==
  /\ pc \in Sending /\ ~Registered => outage
  /\ pc = "resend" /\ g_cached_port # incarnation => outage
  /\ FailsOnlyInOutage

LEMMA FailsInit == Init => FailsInv
BY DEF Init, FailsInv, Sending, FailsOnlyInOutage

LEMMA SameFlip ==
  ASSUME FailsInv, UNCHANGED <<pc, outage, g_cached_port, incarnation>>
  PROVE  FailsInv'
BY DEF FailsInv, FailsOnlyInOutage, Registered

LEMMA ClientFails == FailsInv /\ Client => FailsInv'
<1> SUFFICES ASSUME FailsInv, Client PROVE FailsInv'
  OBVIOUS
<1>1. CASE drmModePageFlip
  <2>1. /\ outage' = ~Registered /\ pc' \in {"look_up", "send"} /\ incarnation' = incarnation
    BY <1>1 DEF drmModePageFlip, daemonvars
  <2> QED
    BY <2>1 DEF FailsInv, FailsOnlyInOutage, Registered
<1>2. CASE LookUp("look_up", "send")
  BY <1>2 DEF LookUp, FailsInv, FailsOnlyInOutage, Registered, Sending, daemonvars
<1>3. CASE LookUp("look_up_again", "resend")
  BY <1>3 DEF LookUp, FailsInv, FailsOnlyInOutage, Registered, Sending, daemonvars
<1>4. CASE Sends
  BY <1>4 DEF Sends, FailsInv, FailsOnlyInOutage, Sending
<1>5. CASE SendFails
  BY <1>5 DEF SendFails, FailsInv, FailsOnlyInOutage, Registered, Sending, daemonvars
<1>6. CASE (\E enabled \in BOOLEAN : eglCreateWindowSurface(enabled)) \/ Draw \/ eglSwapBuffers
            \/ gbm_surface_lock_front_buffer
  <2>1. pc' \in {"draw", "swap", "lock", "flip"}
    BY <1>6 DEF eglCreateWindowSurface, Draw, eglSwapBuffers, gbm_surface_lock_front_buffer
  <2> QED
    BY <2>1 DEF FailsInv, FailsOnlyInOutage, Sending
<1> QED
  BY <1>1, <1>2, <1>3, <1>4, <1>5, <1>6 DEF Client

LEMMA NextFails == FailsInv /\ [Next]_allvars => FailsInv'
<1> SUFFICES ASSUME FailsInv, [Next]_allvars PROVE FailsInv'
  OBVIOUS
<1>1. CASE Drawing
  BY <1>1, ClientFails DEF Drawing
<1>2. CASE Dying
  BY <1>2 DEF Dying, Dies, FailsInv, FailsOnlyInOutage
<1>3. CASE Serves
  BY <1>3 DEF Serves, clientvars, FailsInv, FailsOnlyInOutage, Registered, Sending
<1>4. CASE UNCHANGED <<pc, outage, g_cached_port, incarnation>>
  BY <1>4, SameFlip
<1>5. CASE Presenting
  BY <1>4, <1>5 DEF Presenting, Daemon, Receives, Stores, TimerFires, TimerClears,
                    TimerSnapshot, TimerPresents, clientvars
<1>6. CASE Registering \/ Loading \/ UNCHANGED allvars
  BY <1>3, <1>4, <1>6 DEF Registering, Loading, allvars, vars, clientvars, daemonvars
<1> QED
  BY <1>1, <1>2, <1>5, <1>6 DEF Next

\* send_msg (drm.c) fails a flip only if framebufferd was away while the flip lasted: a port
\* that has gone stale since the flip before is looked up again and the message sent.
THEOREM FailsOnlyInOutageInvariant == Spec => []FailsOnlyInOutage
<1>1. SessionInit => FailsInv
  BY FailsInit DEF SessionInit
<1>2. FailsInv => FailsOnlyInOutage
  BY DEF FailsInv
<1> QED
  BY <1>1, <1>2, NextFails, PTL DEF Spec
-----------------------------------------------------------------------------
(* Frames on their way to the screen *)

\* The frame that will be written next, or is being written, to the buffer write_idx.
Writing == IF pc = "swap" THEN frame ELSE frame + 1

\* The buffer k places after b, for k up to the size of the ring.
Ahead(b, k) == IF b + k < GBM_NUM_BUFFERS THEN b + k ELSE b + k - GBM_NUM_BUFFERS

\* A surface is as many places behind write_idx as its frame is old, until the ring has
\* gone round; and until then it holds its frame.
Kept(s) ==
  /\ s \in Frames /\ s.frame < Writing
  /\ Writing - s.frame <= GBM_NUM_BUFFERS => Ahead(s.bo, Writing - s.frame) = write_idx
  /\ frame - s.frame < GBM_NUM_BUFFERS => content[s.bo] = s.frame

KeepsInv ==
  /\ \A s \in Underway : Kept(s)
  /\ pc \in Flipping => write_idx = Advance(next_bo)

LEMMA AdvanceIs == \A idx \in Bos : Advance(idx) = Ahead(idx, 1)
BY SessionAssumption DEF SessionAssumption, Bos, Advance, Ahead

\* Short of a whole round a buffer is not met again.
LEMMA AheadMoves ==
  ASSUME NEW b \in Bos, NEW k \in 0..(GBM_NUM_BUFFERS - 1)
  PROVE  Advance(Ahead(b, k)) = Ahead(b, k + 1) /\ (k > 0 => Ahead(b, k) # b)
<1>1. Ahead(b, k) \in Bos
  BY SessionAssumption DEF SessionAssumption, Bos, Ahead
<1>2. Advance(Ahead(b, k)) = Ahead(Ahead(b, k), 1)
  BY <1>1, AdvanceIs
<1> QED
  BY <1>1, <1>2, SessionAssumption DEF SessionAssumption, Bos, Ahead

LEMMA KeepsInit == Init => KeepsInv
BY DEF Init, KeepsInv, Underway, Flipping

LEMMA KeepsFrames == KeepsInv => RingKeepsFrames
BY DEF KeepsInv, Kept, RingKeepsFrames

\* What leaves the ring alone keeps what is under way.
LEMMA SameKept ==
  ASSUME KeepsInv, Underway' \subseteq Underway,
         UNCHANGED <<content, frame, write_idx, next_bo>>,
         \/ pc' = pc
         \/ pc \in Flipping /\ pc' \in Flipping \cup {"draw", "failed"}
  PROVE  KeepsInv'
<1>1. Writing' = Writing /\ (pc' \in Flipping => pc \in Flipping)
  BY DEF Writing, Flipping
<1>2. ASSUME NEW s \in Underway' PROVE Kept(s)'
  <2>1. Kept(s)
    BY <1>2 DEF KeepsInv
  <2> QED
    BY <1>1, <2>1 DEF Kept
<1> QED
  BY <1>1, <1>2 DEF KeepsInv

LEMMA SameUnderway ==
  UNCHANGED <<queue, received, g_client_surface, client, presented>> => Underway' = Underway
BY DEF Underway

\* Drawing without a copy: the buffer at write_idx gets the new frame.
LEMMA DrawKeeps == RingInv /\ KeepsInv /\ Draw => KeepsInv'
<1> SUFFICES ASSUME RingInv, KeepsInv, Draw PROVE KeepsInv'
  OBVIOUS
<1>1. /\ pc = "draw" /\ pc' = "swap" /\ frame' = frame + 1 /\ frame \in Nat
      /\ UNCHANGED <<write_idx, next_bo>> /\ UNCHANGED daemonvars
  BY DEF Draw, RingInv, RingTypes
<1>2. Writing' = Writing /\ Writing = frame + 1
  BY <1>1 DEF Writing
<1>3. Underway' = Underway
  BY <1>1, SameUnderway DEF daemonvars
<1>4. content' = content \/ content' = [content EXCEPT ![write_idx] = frame']
  BY <1>1 DEF Draw, RingInv, Target
<1>5. ASSUME NEW s \in Underway PROVE Kept(s)'
  <2>1. Kept(s)
    BY <1>5 DEF KeepsInv
  <2>2. s.bo \in Bos /\ s.frame \in Nat
    BY <2>1 DEF Kept, Frames
  <2>3. ASSUME frame' - s.frame < GBM_NUM_BUFFERS PROVE content'[s.bo] = s.frame
    <3> DEFINE k == frame + 1 - s.frame
    <3>1. k \in 0..(GBM_NUM_BUFFERS - 1) /\ k > 0
      BY <1>1, <1>2, <2>1, <2>2, <2>3, SessionAssumption DEF Kept, SessionAssumption
    <3>2. Ahead(s.bo, k) = write_idx
      BY <1>1, <1>2, <2>1, <2>2, <3>1, SessionAssumption DEF Kept, SessionAssumption
    <3>3. Ahead(s.bo, k) # s.bo
      BY <2>2, <3>1, AheadMoves
    <3>4. content[s.bo] = s.frame
      BY <1>1, <2>1, <2>2, <3>1, SessionAssumption DEF Kept, SessionAssumption
    <3> QED
      BY <1>4, <2>2, <3>2, <3>3, <3>4 DEF RingInv, RingTypes
  <2> QED
    BY <1>1, <1>2, <2>1, <2>3 DEF Kept
<1> QED
  BY <1>1, <1>3, <1>5 DEF KeepsInv, Flipping

\* Swapping: the copy goes to write_idx too, which advances.
LEMMA SwapKeeps == RingInv /\ KeepsInv /\ eglSwapBuffers => KeepsInv'
<1> SUFFICES ASSUME RingInv, KeepsInv, eglSwapBuffers PROVE KeepsInv'
  OBVIOUS
<1>1. /\ pc = "swap" /\ pc' = "lock" /\ frame \in Nat /\ write_idx' = Advance(write_idx)
      /\ UNCHANGED <<frame, next_bo>> /\ UNCHANGED daemonvars
  BY DEF eglSwapBuffers, RingInv, RingTypes
<1>2. Writing = frame /\ Writing' = frame + 1
  BY <1>1 DEF Writing
<1>3. Underway' = Underway
  BY <1>1, SameUnderway DEF daemonvars
<1>4. content' = content \/ content' = [content EXCEPT ![write_idx] = drawn]
  BY DEF eglSwapBuffers
<1>5. ASSUME NEW s \in Underway, frame - s.frame < GBM_NUM_BUFFERS
      PROVE  /\ Ahead(s.bo, frame + 1 - s.frame) = write_idx'
             /\ content'[s.bo] = s.frame
  <2>1. Kept(s)
    BY <1>5 DEF KeepsInv
  <2>2. s.bo \in Bos /\ s.frame \in Nat
    BY <2>1 DEF Kept, Frames
  <2> DEFINE k == frame - s.frame
  <2>3. k \in 0..(GBM_NUM_BUFFERS - 1) /\ k > 0
    BY <1>1, <1>2, <1>5, <2>1, <2>2, SessionAssumption DEF Kept, SessionAssumption
  <2>4. Ahead(s.bo, k) = write_idx
    BY <1>2, <2>1, <2>3, SessionAssumption DEF Kept, SessionAssumption
  <2>5. Advance(Ahead(s.bo, k)) = Ahead(s.bo, k + 1) /\ Ahead(s.bo, k) # s.bo
    BY <2>2, <2>3, AheadMoves
  <2>6. content'[s.bo] = s.frame
    BY <1>4, <1>5, <2>1, <2>2, <2>4, <2>5 DEF Kept, RingInv, RingTypes
  <2>7. k + 1 = frame + 1 - s.frame
    BY <1>1, <2>2
  <2> QED
    BY <1>1, <2>4, <2>5, <2>6, <2>7
<1>6. ASSUME NEW s \in Underway PROVE Kept(s)'
  <2>1. Kept(s)
    BY <1>6 DEF KeepsInv
  <2>2. s \in Frames /\ s.frame \in Nat /\ s.frame < frame
    BY <1>2, <2>1 DEF Kept, Frames
  <2>3. frame + 1 - s.frame <= GBM_NUM_BUFFERS => frame - s.frame < GBM_NUM_BUFFERS
    BY <1>1, <2>2, SessionAssumption DEF SessionAssumption
  <2> QED
    BY <1>1, <1>2, <1>5, <1>6, <2>2, <2>3 DEF Kept
<1> QED
  BY <1>1, <1>3, <1>6 DEF KeepsInv, Flipping

LEMMA LockKeeps == RingInv /\ KeepsInv /\ gbm_surface_lock_front_buffer => KeepsInv'
<1> SUFFICES ASSUME RingInv, KeepsInv, gbm_surface_lock_front_buffer PROVE KeepsInv'
  OBVIOUS
<1>1. /\ pc = "lock" /\ pc' \in {"draw", "flip"} /\ next_bo' = read_idx
      /\ UNCHANGED <<content, frame, write_idx>> /\ UNCHANGED daemonvars
  BY DEF gbm_surface_lock_front_buffer
<1>2. write_idx = Advance(read_idx)
  BY <1>1 DEF RingInv, Places
<1>3. Underway' = Underway /\ Writing' = Writing
  BY <1>1, SameUnderway DEF daemonvars, Writing
<1>4. ASSUME NEW s \in Underway PROVE Kept(s)'
  BY <1>1, <1>3, <1>4 DEF KeepsInv, Kept
<1> QED
  BY <1>1, <1>2, <1>3, <1>4 DEF KeepsInv, Advance

\* The message carries the buffer that was drawn last, one place behind write_idx.
LEMMA SendsKeeps == RingInv /\ RetainedInv /\ KeepsInv /\ Sends => KeepsInv'
<1> SUFFICES ASSUME RingInv, RetainedInv, KeepsInv, Sends PROVE KeepsInv'
  OBVIOUS
<1> DEFINE new == [bo |-> next_bo, frame |-> frame]
<1>1. /\ pc \in Flipping /\ pc' = "draw" /\ queue' = Append(queue, new)
      /\ UNCHANGED <<content, frame, write_idx, next_bo>> /\ UNCHANGED shelf
  BY DEF Sends, Flipping, ringvars
<1>2. Writing' = frame + 1 /\ Writing = frame + 1
  BY <1>1 DEF Writing, Flipping
<1>3. new \in Frames /\ new.bo = next_bo /\ new.frame = frame /\ frame \in Nat
  BY <1>1 DEF RingInv, RingTypes, Places, Frames
<1>4. Kept(new)'
  <2>1. Ahead(next_bo, 1) = write_idx /\ content[next_bo] = frame
    BY <1>1, <1>3, AdvanceIs DEF KeepsInv, RingInv, Places
  <2>2. frame + 1 - frame = 1
    BY <1>3
  <2>3. new' = [bo |-> next_bo', frame |-> frame'] /\ new' = new
    BY <1>1
  <2>4. Writing' - new.frame = 1 /\ frame' - new.frame = 0 /\ new.frame < Writing'
    BY <1>1, <1>2, <1>3
  <2>5. content'[new.bo] = new.frame /\ write_idx' = Ahead(new.bo, 1)
    BY <1>1, <1>3, <2>1
  <2> HIDE DEF new
  <2> QED
    BY <1>3, <2>3, <2>4, <2>5 DEF Kept
<1>5. ASSUME NEW s \in Underway PROVE Kept(s)'
  BY <1>1, <1>2, <1>5 DEF KeepsInv, Kept
<1>6. Underway' \subseteq Underway \cup {new}
  <2>1. queue \in Seq(Frames)
    BY DEF RetainedInv, RetainedTypes
  <2> HIDE DEF new
  <2>2. ASSUME NEW i \in DOMAIN queue' PROVE queue'[i] \in {queue[j] : j \in DOMAIN queue} \cup {new}
    BY <1>1, <1>3, <2>1, <2>2
  <2> QED
    BY <1>1, <2>2 DEF Underway, shelf
<1> QED
  BY <1>1, <1>4, <1>5, <1>6 DEF KeepsInv, Flipping

LEMMA ClientKeeps == RingInv /\ RetainedInv /\ KeepsInv /\ Client => KeepsInv'
<1> SUFFICES ASSUME RingInv, RetainedInv, KeepsInv, Client PROVE KeepsInv'
  OBVIOUS
<1>1. CASE drmModePageFlip
  BY <1>1, SameKept, SameUnderway DEF drmModePageFlip, Flipping, ringvars, daemonvars
<1>2. CASE LookUp("look_up", "send") \/ LookUp("look_up_again", "resend")
  BY <1>2, SameKept, SameUnderway DEF LookUp, Flipping, ringvars, daemonvars
<1>3. CASE SendFails
  BY <1>3, SameKept, SameUnderway DEF SendFails, Flipping, ringvars, daemonvars
<1>4. CASE \E enabled \in BOOLEAN : eglCreateWindowSurface(enabled)
  <2>1. /\ pc = "create" /\ pc' = "draw"
        /\ UNCHANGED <<content, frame, write_idx>> /\ UNCHANGED daemonvars
    BY <1>4 DEF eglCreateWindowSurface
  <2>2. Underway' = Underway /\ Writing' = Writing
    BY <2>1, SameUnderway DEF daemonvars, Writing
  <2>3. ASSUME NEW s \in Underway PROVE Kept(s)'
    BY <2>1, <2>2, <2>3 DEF KeepsInv, Kept
  <2> QED
    BY <2>1, <2>2, <2>3 DEF KeepsInv, Flipping
<1> QED
  BY <1>1, <1>2, <1>3, <1>4, DrawKeeps, SwapKeeps, LockKeeps, SendsKeeps DEF Client

\* framebufferd passes surfaces on, or drops them.
LEMMA PassesOn == RetainedInv /\ (Daemon \/ Dies) => Underway' \subseteq Underway
<1> SUFFICES ASSUME RetainedInv, Daemon \/ Dies PROVE Underway' \subseteq Underway
  OBVIOUS
<1>1. CASE Receives
  <2>1. queue \in Seq(Frames) /\ queue # <<>> /\ queue' = Tail(queue) /\ received' = Head(queue)
        /\ UNCHANGED <<g_client_surface, client, presented>>
    BY <1>1 DEF Receives, RetainedInv, RetainedTypes
  <2>2. received' = queue[1] /\ 1 \in DOMAIN queue
    BY <2>1
  <2>3. \A i \in DOMAIN queue' : i + 1 \in DOMAIN queue /\ queue'[i] = queue[i + 1]
    BY <2>1
  <2> QED
    BY <2>1, <2>2, <2>3 DEF Underway
<1>2. CASE Stores
  BY <1>2 DEF Stores, Underway
<1>3. CASE TimerFires \/ TimerClears \/ TimerSnapshot \/ TimerPresents
  BY <1>3 DEF TimerFires, TimerClears, TimerSnapshot, TimerPresents, Underway
<1>4. CASE Dies
  BY <1>4 DEF Dies, Underway
<1> QED
  BY <1>1, <1>2, <1>3, <1>4 DEF Daemon

LEMMA NextKeeps == RingInv /\ RetainedInv /\ KeepsInv /\ [Next]_allvars => KeepsInv'
<1> SUFFICES ASSUME RingInv, RetainedInv, KeepsInv, [Next]_allvars PROVE KeepsInv'
  OBVIOUS
<1>1. CASE Drawing
  BY <1>1, ClientKeeps DEF Drawing
<1>2. CASE Dying
  <2>1. UNCHANGED <<pc, content, frame, write_idx, next_bo>>
    BY <1>2 DEF Dying, Dies, ringvars
  <2> QED
    BY <1>2, <2>1, PassesOn, SameKept DEF Dying
<1>3. CASE Presenting
  <2>1. UNCHANGED <<pc, content, frame, write_idx, next_bo>>
    BY <1>3 DEF Presenting, Daemon, Receives, Stores, TimerFires, TimerClears, TimerSnapshot,
                TimerPresents, clientvars
  <2> QED
    BY <1>3, <2>1, PassesOn, SameKept DEF Presenting
<1>4. CASE Registering \/ Loading \/ UNCHANGED allvars
  <2>1. UNCHANGED <<pc, content, frame, write_idx, next_bo>>
        /\ UNCHANGED <<queue, received, g_client_surface, client, presented>>
    BY <1>4 DEF Registering, Serves, Loading, allvars, vars, clientvars, daemonvars, shelf
  <2> QED
    BY <2>1, SameUnderway, SameKept
<1> QED
  BY <1>1, <1>2, <1>3, <1>4 DEF Next

\* Nobody tells a client when a buffer has left the screen (gbm_surface_release_buffer does
\* nothing): a ring of any size keeps a frame intact, in the queue, in framebufferd and on the
\* screen, until that many more have been begun.
THEOREM RingKeepsFramesInvariant ==
  ASSUME AllOrNone
  PROVE  Spec => []RingKeepsFrames
<1> DEFINE Inv == RingInv /\ LockedInv /\ RetainedInv /\ KeepsInv
<1>1. SessionInit => Inv
  BY RingInit, LockedInit, RetainedInit, KeepsInit DEF SessionInit
<1>2. Inv /\ [Next]_allvars => Inv'
  BY NextRing, NextLocked, NextRetained, NextKeeps
<1>3. Inv => RingKeepsFrames
  BY KeepsFrames
<1> QED
  BY <1>1, <1>2, <1>3, PTL DEF Spec
=============================================================================
