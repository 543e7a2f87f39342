----------------------------- MODULE DrmBuffers -----------------------------
(***************************************************************************)
(* The buffers behind the DRM shim: dumb buffers and framebuffers          *)
(* (drm_linux.c), GBM buffer objects (gbm.m) with the table through which  *)
(* AddFB resolves their handles, and the reference-counted IOSurfaces they *)
(* share.                                                                  *)
(*                                                                         *)
(* One client calls the shim, a call is a step.  The slots of a table are  *)
(* a set of entries: the free slot a call takes does not matter, as no two *)
(* entries of a table have the same handle.  A call that fails changes     *)
(* nothing and is left out.                                                *)
(***************************************************************************)
EXTENDS Integers, FiniteSets

CONSTANTS
  Surfaces,     \* the IOSurfaces there is memory for
  SurfaceId,    \* IOSurfaceGetID: Surfaces -> Nat \ {0}
  NoSurface,    \* NULL
  MAX_DUMB_BUFS, MAX_GBM_BUFS, MAX_FBS,
  MaxHandle     \* bound of the model: dumb handles and fb ids go up to this

ASSUME DrmBuffersAssumption ==
  /\ IsFiniteSet(Surfaces) /\ NoSurface \notin Surfaces
  /\ SurfaceId \in [Surfaces -> Nat \ {0}]
  /\ \A s, t \in Surfaces : SurfaceId[s] = SurfaceId[t] => s = t
  /\ {MAX_DUMB_BUFS, MAX_GBM_BUFS, MAX_FBS, MaxHandle} \subseteq Nat

VARIABLES
  retained,          \* retain count of each IOSurface; 0: released
  g_dumb,            \* set of [handle, surface]
  g_next_dumb_handle,
  bos,               \* the surfaces of the client's GBM buffer objects
  g_gbm_bufs,        \* set of [handle, surface]
  g_fbs,             \* set of [fb_id, surface, buffer]: buffer is the surface of
                     \* the buffer whose handle the client gave to AddFB
  g_next_fb_id

vars == <<retained, g_dumb, g_next_dumb_handle, bos, g_gbm_bufs, g_fbs, g_next_fb_id>>

Init ==
  /\ retained = [s \in Surfaces |-> 0]
  /\ g_dumb = {} /\ g_next_dumb_handle = 1
  /\ bos = {} /\ g_gbm_bufs = {}
  /\ g_fbs = {} /\ g_next_fb_id = 1

CFRetain(s)  == retained' = [retained EXCEPT ![s] = @ + 1]
CFRelease(s) == retained' = [retained EXCEPT ![s] = @ - 1]
-----------------------------------------------------------------------------
(* Dumb buffers *)

drmModeCreateDumbBuffer ==
  /\ Cardinality(g_dumb) < MAX_DUMB_BUFS
  /\ g_next_dumb_handle <= MaxHandle
  /\ \E s \in Surfaces :
       /\ retained[s] = 0
       /\ CFRetain(s)
       /\ g_dumb' = g_dumb \cup {[handle |-> g_next_dumb_handle, surface |-> s]}
  /\ g_next_dumb_handle' = g_next_dumb_handle + 1
  /\ UNCHANGED <<bos, g_gbm_bufs, g_fbs, g_next_fb_id>>

\* Mutant: the surface is not released.
MutDestroyDumb ==
  /\ \E d \in g_dumb : g_dumb' = g_dumb \ {d}
  /\ UNCHANGED <<retained, g_next_dumb_handle, bos, g_gbm_bufs, g_fbs, g_next_fb_id>>

drmModeDestroyDumbBuffer ==
  /\ \E d \in g_dumb : CFRelease(d.surface) /\ g_dumb' = g_dumb \ {d}
  /\ UNCHANGED <<g_next_dumb_handle, bos, g_gbm_bufs, g_fbs, g_next_fb_id>>
-----------------------------------------------------------------------------
(* GBM buffer objects *)

\* The table of GBM handles after registering s: its entry is replaced, added,
\* or dropped without an error when the table is full.
Register(s) ==
  LET others == {e \in g_gbm_bufs : e.handle # SurfaceId[s]}
  IN IF others # g_gbm_bufs \/ Cardinality(g_gbm_bufs) < MAX_GBM_BUFS
     THEN others \cup {[handle |-> SurfaceId[s], surface |-> s]}
     ELSE g_gbm_bufs

\* Mutant: the entry stays in the table.
MutUnregister(s) == g_gbm_bufs

Unregister(s) == {e \in g_gbm_bufs : e.handle # SurfaceId[s]}

\* gbm_surface_create does the same for each of its buffers.
gbm_bo_create ==
  /\ \E s \in Surfaces :
       /\ retained[s] = 0
       /\ CFRetain(s)
       /\ bos' = bos \cup {s}
       /\ g_gbm_bufs' = Register(s)
  /\ UNCHANGED <<g_dumb, g_next_dumb_handle, g_fbs, g_next_fb_id>>

gbm_bo_destroy ==
  /\ \E s \in bos :
       /\ g_gbm_bufs' = Unregister(s)
       /\ CFRelease(s)
       /\ bos' = bos \ {s}
  /\ UNCHANGED <<g_dumb, g_next_dumb_handle, g_fbs, g_next_fb_id>>
-----------------------------------------------------------------------------
(* Framebuffers *)

\* Mutant: a slip in the comparison, a lower dumb handle answers too.
MutResolve(handle) ==
  LET gbm  == {e.surface : e \in {x \in g_gbm_bufs : x.handle = handle}}
      dumb == {d.surface : d \in {x \in g_dumb : x.handle <= handle}}
  IN IF dumb # {} THEN dumb ELSE gbm

\* The surfaces AddFB finds for a handle: the dumb buffer's, else the GBM table's.
Resolve(handle) ==
  LET dumb == {d.surface : d \in {x \in g_dumb : x.handle = handle}}
      gbm  == {e.surface : e \in {x \in g_gbm_bufs : x.handle = handle}}
  IN IF dumb # {} THEN dumb ELSE gbm

\* The handles a client has, each with the surface of its buffer.
ClientBuffers == g_dumb \cup {[handle |-> SurfaceId[s], surface |-> s] : s \in bos}

drmModeAddFB ==
  /\ Cardinality(g_fbs) < MAX_FBS
  /\ g_next_fb_id <= MaxHandle
  /\ \E b \in ClientBuffers : \E s \in Resolve(b.handle) :
       /\ CFRetain(s)
       /\ g_fbs' = g_fbs \cup {[fb_id |-> g_next_fb_id, surface |-> s, buffer |-> b.surface]}
  /\ g_next_fb_id' = g_next_fb_id + 1
  /\ UNCHANGED <<g_dumb, g_next_dumb_handle, bos, g_gbm_bufs>>

drmModeRmFB ==
  /\ \E f \in g_fbs : CFRelease(f.surface) /\ g_fbs' = g_fbs \ {f}
  /\ UNCHANGED <<g_dumb, g_next_dumb_handle, bos, g_gbm_bufs, g_next_fb_id>>
-----------------------------------------------------------------------------
Next ==
  \/ drmModeCreateDumbBuffer \/ drmModeDestroyDumbBuffer
  \/ gbm_bo_create \/ gbm_bo_destroy
  \/ drmModeAddFB \/ drmModeRmFB

Spec == Init /\ [][Next]_vars
-----------------------------------------------------------------------------
Entry(Id) == [handle : Id, surface : Surfaces]

TypeOK ==
  /\ retained \in [Surfaces -> Nat]
  /\ g_dumb \subseteq Entry(Nat \ {0})
  /\ g_gbm_bufs \subseteq Entry(Nat \ {0})
  /\ bos \subseteq Surfaces
  /\ g_fbs \subseteq [fb_id : Nat \ {0}, surface : Surfaces, buffer : Surfaces]
  /\ {g_next_dumb_handle, g_next_fb_id} \subseteq Nat \ {0}

\* How many entries of a table have the surface s.
CountOf(table, s) == Cardinality({e \in table : e.surface = s})

\* The owners of s: dumb buffers, buffer objects and framebuffers.  The GBM
\* table is none of them: it keeps the pointer without a reference.
Owners(s) == CountOf(g_dumb, s) + CountOf(g_fbs, s) + (IF s \in bos THEN 1 ELSE 0)

\* A surface lives exactly as long as a buffer or a framebuffer has it: whatever
\* the order in which they are destroyed, none is released early and none leaks.
SurfacesCounted == \A s \in Surfaces : retained[s] = Owners(s)

\* The GBM table, which owns nothing, never has the pointer of a released
\* surface, nor a second buffer under a handle.
GbmTableLive ==
  /\ \A e \in g_gbm_bufs : e.surface \in bos /\ e.handle = SurfaceId[e.surface]
  /\ Cardinality(g_gbm_bufs) <= MAX_GBM_BUFS

\* A framebuffer shows the buffer whose handle it was made from, even when the
\* handle is gone ("When kmscube passes those handles to drmModeAddFB, we need to
\* find the IOSurface").
FbShowsItsBuffer == \A f \in g_fbs : f.surface = f.buffer
=============================================================================
