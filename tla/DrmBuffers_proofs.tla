------------------------- MODULE DrmBuffers_proofs --------------------------
(***************************************************************************)
(* Proofs about DrmBuffers for any number of surfaces and any table sizes: *)
(* the reference counts of surfaces are right, the GBM handle table has no *)
(* released surface, and, if the kernel's surface ids are apart from the   *)
(* handles of dumb buffers, a framebuffer shows the buffer it was made     *)
(* from.                                                                   *)
(***************************************************************************)
EXTENDS DrmBuffers, FiniteSetTheorems, TLAPS

\* The tables are finite and their handles and ids come from the counters.
Counters ==
  /\ IsFiniteSet(g_dumb) /\ IsFiniteSet(g_fbs)
  /\ \A d \in g_dumb : d.handle < g_next_dumb_handle
  /\ \A f \in g_fbs : f.fb_id < g_next_fb_id

BuffersInv == TypeOK /\ Counters /\ SurfacesCounted
-----------------------------------------------------------------------------
(* Counting the entries of a table that have a surface *)

\* An entry that is added counts for its surface and for no other.
LEMMA CountAdd ==
  ASSUME NEW T, IsFiniteSet(T), NEW e, e \notin T, NEW s
  PROVE  /\ CountOf(T, s) \in Nat
         /\ CountOf(T \cup {e}, s) = CountOf(T, s) + (IF e.surface = s THEN 1 ELSE 0)
<1> DEFINE S == {x \in T : x.surface = s}
<1>1. IsFiniteSet(S) /\ Cardinality(S) \in Nat
  BY FS_Subset, FS_CardinalityType
<1>a. CountOf(T, s) = Cardinality(S)
  BY DEF CountOf
<1>b. CountOf(T \cup {e}, s) = Cardinality({x \in T \cup {e} : x.surface = s})
  BY DEF CountOf
<1>2. CASE e.surface = s
  <2>1. {x \in T \cup {e} : x.surface = s} = S \cup {e}
    BY <1>2
  <2>2. Cardinality(S \cup {e}) = Cardinality(S) + 1
    BY <1>1, FS_AddElement
  <2> HIDE DEF S
  <2> QED
    BY <1>1, <1>a, <1>b, <1>2, <2>1, <2>2
<1>3. CASE e.surface # s
  <2>1. {x \in T \cup {e} : x.surface = s} = S
    BY <1>3
  <2>2. CountOf(T \cup {e}, s) = CountOf(T, s)
    BY <1>a, <1>b, <2>1, Zenon
  <2>3. CountOf(T, s) \in Nat
    BY <1>1, <1>a, Zenon
  <2> QED
    BY <1>3, <2>2, <2>3
<1> QED
  BY <1>2, <1>3

\* An entry that is removed counted for its surface and for no other.
LEMMA CountRemove ==
  ASSUME NEW T, IsFiniteSet(T), NEW e \in T, NEW s
  PROVE  /\ CountOf(T, s) \in Nat
         /\ CountOf(T \ {e}, s) = CountOf(T, s) - (IF e.surface = s THEN 1 ELSE 0)
<1>1. IsFiniteSet(T \ {e})
  BY FS_RemoveElement
<1>2. (T \ {e}) \cup {e} = T
  OBVIOUS
<1>3. /\ CountOf(T \ {e}, s) \in Nat
      /\ CountOf((T \ {e}) \cup {e}, s) = CountOf(T \ {e}, s) + (IF e.surface = s THEN 1 ELSE 0)
  BY <1>1, CountAdd
<1> DEFINE rest == CountOf(T \ {e}, s)
<1>4. /\ rest \in Nat
      /\ CountOf(T, s) = rest + (IF e.surface = s THEN 1 ELSE 0)
  BY <1>2, <1>3
<1> HIDE DEF rest
<1>5. /\ CountOf(T, s) \in Nat
      /\ rest = CountOf(T, s) - (IF e.surface = s THEN 1 ELSE 0)
  BY <1>4
<1> QED
  BY <1>5 DEF rest

\* The number of entries is a natural number.
LEMMA CountType ==
  ASSUME NEW T, IsFiniteSet(T), NEW s
  PROVE  CountOf(T, s) \in Nat
  BY FS_Subset, FS_CardinalityType DEF CountOf
-----------------------------------------------------------------------------
(* The steps *)

LEMMA InitBuffers == Init => BuffersInv
<1> SUFFICES ASSUME Init PROVE BuffersInv
  OBVIOUS
<1> USE DEF Init
<1>1. TypeOK
  BY DEF TypeOK
<1>2. Counters
  BY FS_EmptySet DEF Counters
<1>3. \A s \in Surfaces : CountOf({}, s) = 0
  <2> TAKE s \in Surfaces
  <2>1. {e \in {} : e.surface = s} = {}
    OBVIOUS
  <2> QED
    BY <2>1, FS_EmptySet DEF CountOf
<1>4. SurfacesCounted
  BY <1>3 DEF SurfacesCounted, Owners
<1> QED
  BY <1>1, <1>2, <1>4 DEF BuffersInv

LEMMA CreateDumbStep ==
  ASSUME BuffersInv, drmModeCreateDumbBuffer PROVE BuffersInv'
<1> USE DEF BuffersInv
<1>1. PICK s \in Surfaces :
        /\ retained' = [retained EXCEPT ![s] = @ + 1]
        /\ g_dumb' = g_dumb \cup {[handle |-> g_next_dumb_handle, surface |-> s]}
  BY DEF drmModeCreateDumbBuffer, CFRetain
<1>2. g_next_dumb_handle' = g_next_dumb_handle + 1
      /\ UNCHANGED <<bos, g_gbm_bufs, g_fbs, g_next_fb_id>>
  BY DEF drmModeCreateDumbBuffer
<1> DEFINE new == [handle |-> g_next_dumb_handle, surface |-> s]
<1>3. g_next_dumb_handle \in Nat \ {0} /\ g_dumb \subseteq Entry(Nat \ {0})
  BY DEF TypeOK
<1>4. new \notin g_dumb
  BY <1>3 DEF Counters
<1>5. TypeOK'
  BY <1>1, <1>2 DEF TypeOK, Entry
<1>6. Counters'
  <2>1. IsFiniteSet(g_dumb')
    BY <1>1, FS_AddElement DEF Counters
  <2>2. \A d \in g_dumb' : d.handle < g_next_dumb_handle'
    BY <1>1, <1>2, <1>3 DEF Counters, Entry
  <2> QED
    BY <2>1, <2>2, <1>2 DEF Counters
<1>7. SurfacesCounted'
  <2> SUFFICES ASSUME NEW t \in Surfaces PROVE retained'[t] = Owners(t)'
    BY DEF SurfacesCounted
  <2>1. /\ CountOf(g_dumb, t) \in Nat
        /\ CountOf(g_dumb', t) = CountOf(g_dumb, t) + (IF s = t THEN 1 ELSE 0)
    BY <1>1, <1>4, CountAdd DEF Counters
  <2>2. CountOf(g_fbs, t) \in Nat
    BY CountType DEF Counters
  <2>3. retained[t] = Owners(t) /\ retained'[t] = retained[t] + (IF s = t THEN 1 ELSE 0)
    BY <1>1 DEF SurfacesCounted, TypeOK
  <2> QED
    BY <1>2, <2>1, <2>2, <2>3 DEF Owners
<1> QED
  BY <1>5, <1>6, <1>7

LEMMA DestroyDumbStep ==
  ASSUME BuffersInv, drmModeDestroyDumbBuffer PROVE BuffersInv'
<1> USE DEF BuffersInv
<1>1. PICK d \in g_dumb :
        retained' = [retained EXCEPT ![d.surface] = @ - 1] /\ g_dumb' = g_dumb \ {d}
  BY DEF drmModeDestroyDumbBuffer, CFRelease
<1>2. UNCHANGED <<g_next_dumb_handle, bos, g_gbm_bufs, g_fbs, g_next_fb_id>>
  BY DEF drmModeDestroyDumbBuffer
<1>3. Counters'
  BY <1>1, <1>2, FS_RemoveElement DEF Counters
<1>4. ASSUME NEW t \in Surfaces PROVE retained'[t] = Owners(t)' /\ retained'[t] \in Nat
  <2>1. /\ CountOf(g_dumb, t) \in Nat
        /\ CountOf(g_dumb', t) = CountOf(g_dumb, t) - (IF d.surface = t THEN 1 ELSE 0)
    BY <1>1, CountRemove DEF Counters
  <2>2. CountOf(g_fbs, t) \in Nat /\ CountOf(g_dumb', t) \in Nat
    BY <1>3, CountType DEF Counters
  <2>3. /\ retained[t] = Owners(t)
        /\ retained'[t] = retained[t] - (IF d.surface = t THEN 1 ELSE 0)
    BY <1>1 DEF SurfacesCounted, TypeOK
  <2> QED
    BY <1>2, <2>1, <2>2, <2>3 DEF Owners
<1>5. TypeOK'
  BY <1>1, <1>2, <1>4 DEF TypeOK, Entry
<1> QED
  BY <1>3, <1>4, <1>5 DEF SurfacesCounted

LEMMA CreateBoStep ==
  ASSUME BuffersInv, gbm_bo_create PROVE BuffersInv'
<1> USE DEF BuffersInv
<1>1. PICK s \in Surfaces :
        /\ retained[s] = 0
        /\ retained' = [retained EXCEPT ![s] = @ + 1]
        /\ bos' = bos \cup {s}
        /\ g_gbm_bufs' = Register(s)
  BY DEF gbm_bo_create, CFRetain
<1>2. UNCHANGED <<g_dumb, g_next_dumb_handle, g_fbs, g_next_fb_id>>
  BY DEF gbm_bo_create
<1>3. Counters'
  BY <1>2 DEF Counters
<1>4. SurfacesCounted'
  <2> SUFFICES ASSUME NEW t \in Surfaces PROVE retained'[t] = Owners(t)'
    BY DEF SurfacesCounted
  <2>1. CountOf(g_dumb, t) \in Nat /\ CountOf(g_fbs, t) \in Nat
    BY CountType DEF Counters
  <2>2. /\ retained[t] = Owners(t)
        /\ retained'[t] = retained[t] + (IF s = t THEN 1 ELSE 0)
    BY <1>1 DEF SurfacesCounted, TypeOK
  <2>3. s = t => t \notin bos
    BY <1>1, <2>1, <2>2 DEF Owners
  <2> QED
    BY <1>1, <1>2, <2>1, <2>2, <2>3 DEF Owners
<1>5. g_gbm_bufs' \subseteq Entry(Nat \ {0})
  <2>1. [handle |-> SurfaceId[s], surface |-> s] \in Entry(Nat \ {0})
    BY DrmBuffersAssumption DEF Entry
  <2>2. g_gbm_bufs \subseteq Entry(Nat \ {0})
    BY DEF TypeOK
  <2> HIDE DEF BuffersInv
  <2> QED
    BY <1>1, <2>1, <2>2, Zenon DEF Register
<1>6. TypeOK'
  BY <1>1, <1>2, <1>5 DEF TypeOK
<1> QED
  BY <1>3, <1>4, <1>6

LEMMA DestroyBoStep ==
  ASSUME BuffersInv, gbm_bo_destroy PROVE BuffersInv'
<1> USE DEF BuffersInv
<1>1. PICK s \in bos :
        /\ g_gbm_bufs' = Unregister(s)
        /\ retained' = [retained EXCEPT ![s] = @ - 1]
        /\ bos' = bos \ {s}
  BY DEF gbm_bo_destroy, CFRelease
<1>2. UNCHANGED <<g_dumb, g_next_dumb_handle, g_fbs, g_next_fb_id>>
  BY DEF gbm_bo_destroy
<1>3. Counters'
  BY <1>2 DEF Counters
<1>4. ASSUME NEW t \in Surfaces PROVE retained'[t] = Owners(t)' /\ retained'[t] \in Nat
  <2>1. CountOf(g_dumb, t) \in Nat /\ CountOf(g_fbs, t) \in Nat
    BY CountType DEF Counters
  <2>2. /\ retained[t] = Owners(t)
        /\ retained'[t] = retained[t] - (IF s = t THEN 1 ELSE 0)
    BY <1>1 DEF SurfacesCounted, TypeOK
  <2> QED
    BY <1>1, <1>2, <2>1, <2>2 DEF Owners
<1>5. TypeOK'
  BY <1>1, <1>2, <1>4 DEF TypeOK, Entry, Unregister
<1> QED
  BY <1>3, <1>4, <1>5 DEF SurfacesCounted

\* What AddFB finds for a handle are surfaces.
LEMMA ResolveType ==
  ASSUME TypeOK, NEW h PROVE Resolve(h) \subseteq Surfaces
  BY DEF TypeOK, Entry, Resolve

LEMMA AddFBStep ==
  ASSUME BuffersInv, drmModeAddFB PROVE BuffersInv'
<1> USE DEF BuffersInv
<1>0. PICK b \in ClientBuffers : \E s \in Resolve(b.handle) :
        /\ retained' = [retained EXCEPT ![s] = @ + 1]
        /\ g_fbs' = g_fbs \cup {[fb_id |-> g_next_fb_id, surface |-> s, buffer |-> b.surface]}
  BY DEF drmModeAddFB, CFRetain
<1>1. PICK s \in Resolve(b.handle) :
        /\ retained' = [retained EXCEPT ![s] = @ + 1]
        /\ g_fbs' = g_fbs \cup {[fb_id |-> g_next_fb_id, surface |-> s, buffer |-> b.surface]}
  BY <1>0
<1>2. /\ g_next_fb_id' = g_next_fb_id + 1
      /\ UNCHANGED <<g_dumb, g_next_dumb_handle, bos, g_gbm_bufs>>
  BY DEF drmModeAddFB
<1> DEFINE new == [fb_id |-> g_next_fb_id, surface |-> s, buffer |-> b.surface]
<1>3. s \in Surfaces /\ b.surface \in Surfaces /\ g_next_fb_id \in Nat \ {0}
  BY ResolveType DEF TypeOK, ClientBuffers, Entry
<1>4. new \notin g_fbs
  BY <1>3 DEF Counters
<1>5. TypeOK'
  BY <1>1, <1>2, <1>3 DEF TypeOK
<1>6. Counters'
  <2>1. IsFiniteSet(g_fbs')
    BY <1>1, FS_AddElement DEF Counters
  <2>2. \A f \in g_fbs' : f.fb_id < g_next_fb_id'
    BY <1>1, <1>2, <1>3 DEF Counters, TypeOK
  <2> QED
    BY <2>1, <2>2, <1>2 DEF Counters
<1>7. SurfacesCounted'
  <2> SUFFICES ASSUME NEW t \in Surfaces PROVE retained'[t] = Owners(t)'
    BY DEF SurfacesCounted
  <2>1. /\ CountOf(g_fbs, t) \in Nat
        /\ CountOf(g_fbs', t) = CountOf(g_fbs, t) + (IF s = t THEN 1 ELSE 0)
    <3>1. IsFiniteSet(g_fbs) /\ new.surface = s /\ g_fbs' = g_fbs \cup {new}
      BY <1>1 DEF Counters
    <3> HIDE DEF new
    <3> QED
      BY <1>4, <3>1, CountAdd
  <2>2. CountOf(g_dumb, t) \in Nat
    BY CountType DEF Counters
  <2>3. retained[t] = Owners(t) /\ retained'[t] = retained[t] + (IF s = t THEN 1 ELSE 0)
    BY <1>1, <1>3 DEF SurfacesCounted, TypeOK
  <2> QED
    BY <1>2, <2>1, <2>2, <2>3 DEF Owners
<1> QED
  BY <1>5, <1>6, <1>7

LEMMA RmFBStep ==
  ASSUME BuffersInv, drmModeRmFB PROVE BuffersInv'
<1> USE DEF BuffersInv
<1>1. PICK f \in g_fbs :
        retained' = [retained EXCEPT ![f.surface] = @ - 1] /\ g_fbs' = g_fbs \ {f}
  BY DEF drmModeRmFB, CFRelease
<1>2. UNCHANGED <<g_dumb, g_next_dumb_handle, bos, g_gbm_bufs, g_next_fb_id>>
  BY DEF drmModeRmFB
<1>3. Counters'
  BY <1>1, <1>2, FS_RemoveElement DEF Counters
<1>4. ASSUME NEW t \in Surfaces PROVE retained'[t] = Owners(t)' /\ retained'[t] \in Nat
  <2>1. /\ CountOf(g_fbs, t) \in Nat
        /\ CountOf(g_fbs', t) = CountOf(g_fbs, t) - (IF f.surface = t THEN 1 ELSE 0)
    BY <1>1, CountRemove DEF Counters
  <2>2. CountOf(g_dumb, t) \in Nat /\ CountOf(g_fbs', t) \in Nat
    BY <1>3, CountType DEF Counters
  <2>3. /\ retained[t] = Owners(t)
        /\ retained'[t] = retained[t] - (IF f.surface = t THEN 1 ELSE 0)
    BY <1>1 DEF SurfacesCounted, TypeOK
  <2> QED
    BY <1>2, <2>1, <2>2, <2>3 DEF Owners
<1>5. TypeOK'
  BY <1>1, <1>2, <1>4 DEF TypeOK
<1> QED
  BY <1>3, <1>4, <1>5 DEF SurfacesCounted

\* No action changes what BuffersInv says, and Init establishes it.
LEMMA BuffersInvariant == Spec => []BuffersInv
<1>1. BuffersInv /\ [Next]_vars => BuffersInv'
  <2> SUFFICES ASSUME BuffersInv, [Next]_vars PROVE BuffersInv'
    OBVIOUS
  <2>1. CASE UNCHANGED vars
    BY <2>1 DEF vars, BuffersInv, TypeOK, Counters, SurfacesCounted, Owners
  <2> QED
    BY <2>1, CreateDumbStep, DestroyDumbStep, CreateBoStep, DestroyBoStep, AddFBStep,
       RmFBStep DEF Next
<1> QED
  BY <1>1, InitBuffers, PTL DEF Spec

\* Whatever the tables' sizes, a surface's retain count is the number of buffers,
\* buffer objects and framebuffers that have it.
THEOREM SurfacesCountedInvariant == Spec => []SurfacesCounted
<1>1. BuffersInv => SurfacesCounted
  BY DEF BuffersInv
<1> QED
  BY <1>1, BuffersInvariant, PTL
-----------------------------------------------------------------------------
(* The table of GBM handles *)

TableInv == IsFiniteSet(g_gbm_bufs) /\ GbmTableLive

LEMMA RegisterStep ==
  ASSUME BuffersInv, TableInv, gbm_bo_create PROVE TableInv'
<1>1. PICK s \in Surfaces :
        retained[s] = 0 /\ bos' = bos \cup {s} /\ g_gbm_bufs' = Register(s)
  BY DEF gbm_bo_create
<1>2. s \notin bos
  <2>1. retained[s] = Owners(s) /\ CountOf(g_dumb, s) \in Nat /\ CountOf(g_fbs, s) \in Nat
    BY CountType DEF BuffersInv, SurfacesCounted, Counters
  <2> QED
    BY <1>1, <2>1 DEF Owners
<1>3. \A e \in g_gbm_bufs : e.handle # SurfaceId[s]
  BY <1>2, DrmBuffersAssumption DEF TableInv, GbmTableLive, BuffersInv, TypeOK, Entry
<1> DEFINE new == [handle |-> SurfaceId[s], surface |-> s]
           others == {e \in g_gbm_bufs : e.handle # SurfaceId[s]}
<1>4. others = g_gbm_bufs
  BY <1>3
<1>5. g_gbm_bufs' = IF Cardinality(g_gbm_bufs) < MAX_GBM_BUFS
                    THEN g_gbm_bufs \cup {new} ELSE g_gbm_bufs
  BY <1>1, <1>4, Zenon DEF Register
<1>6. \A e \in g_gbm_bufs' : e.surface \in bos' /\ e.handle = SurfaceId[e.surface]
  BY <1>1, <1>5 DEF TableInv, GbmTableLive
<1>7. IsFiniteSet(g_gbm_bufs') /\ Cardinality(g_gbm_bufs') <= MAX_GBM_BUFS
  <2>1. CASE Cardinality(g_gbm_bufs) < MAX_GBM_BUFS
    <3>1. g_gbm_bufs' = g_gbm_bufs \cup {new} /\ new \notin g_gbm_bufs
      BY <1>3, <1>5, <2>1
    <3>2. IsFiniteSet(g_gbm_bufs) /\ MAX_GBM_BUFS \in Nat /\ Cardinality(g_gbm_bufs) \in Nat
      BY FS_CardinalityType, DrmBuffersAssumption DEF TableInv
    <3> HIDE DEF new
    <3>3. /\ IsFiniteSet(g_gbm_bufs \cup {new})
          /\ Cardinality(g_gbm_bufs \cup {new}) = Cardinality(g_gbm_bufs) + 1
      BY <3>1, <3>2, FS_AddElement
    <3> QED
      BY <2>1, <3>1, <3>2, <3>3
  <2>2. CASE ~(Cardinality(g_gbm_bufs) < MAX_GBM_BUFS)
    BY <1>5, <2>2 DEF TableInv, GbmTableLive
  <2> QED
    BY <2>1, <2>2
<1> QED
  BY <1>6, <1>7 DEF TableInv, GbmTableLive

LEMMA UnregisterStep ==
  ASSUME BuffersInv, TableInv, gbm_bo_destroy PROVE TableInv'
<1>1. PICK s \in bos : bos' = bos \ {s} /\ g_gbm_bufs' = Unregister(s)
  BY DEF gbm_bo_destroy
<1>2. \A e \in g_gbm_bufs' : e.surface \in bos' /\ e.handle = SurfaceId[e.surface]
  BY <1>1 DEF Unregister, TableInv, GbmTableLive
<1>3. IsFiniteSet(g_gbm_bufs') /\ Cardinality(g_gbm_bufs') <= MAX_GBM_BUFS
  <2>1. g_gbm_bufs' \subseteq g_gbm_bufs
    BY <1>1 DEF Unregister
  <2>2. /\ IsFiniteSet(g_gbm_bufs') /\ Cardinality(g_gbm_bufs') \in Nat
        /\ Cardinality(g_gbm_bufs) \in Nat
        /\ Cardinality(g_gbm_bufs') <= Cardinality(g_gbm_bufs)
    BY <2>1, FS_Subset, FS_CardinalityType DEF TableInv
  <2> QED
    BY <2>2, DrmBuffersAssumption DEF TableInv, GbmTableLive
<1> QED
  BY <1>2, <1>3 DEF TableInv, GbmTableLive

\* Only the calls on buffer objects touch the table.
LEMMA TableInvariant == Spec => []TableInv
<1>1. Init => TableInv
  BY FS_EmptySet, DrmBuffersAssumption DEF Init, TableInv, GbmTableLive
<1>2. BuffersInv /\ TableInv /\ [Next]_vars => TableInv'
  <2> SUFFICES ASSUME BuffersInv, TableInv, [Next]_vars PROVE TableInv'
    OBVIOUS
  <2>1. CASE UNCHANGED <<bos, g_gbm_bufs>>
    BY <2>1 DEF TableInv, GbmTableLive
  <2> QED
    BY <2>1, RegisterStep, UnregisterStep DEF Next, vars, drmModeCreateDumbBuffer,
       drmModeDestroyDumbBuffer, drmModeAddFB, drmModeRmFB
<1> QED
  BY <1>1, <1>2, BuffersInvariant, PTL DEF Spec

\* The table through which AddFB resolves GBM handles keeps pointers it has no
\* reference on.  None of them is ever to a released surface, no entry has
\* another buffer's handle, and the table does not outgrow its array.
THEOREM GbmTableLiveInvariant == Spec => []GbmTableLive
<1>1. TableInv => GbmTableLive
  BY DEF TableInv
<1> QED
  BY <1>1, TableInvariant, PTL
-----------------------------------------------------------------------------
(* What a framebuffer shows *)

\* The kernel's surface ids are none of the handles given to dumb buffers.
IdsApart == \A s \in Surfaces : SurfaceId[s] > MaxHandle

\* A handle names one dumb buffer.
DumbHandles ==
  /\ g_next_dumb_handle <= MaxHandle + 1
  /\ \A d, e \in g_dumb : d.handle = e.handle => d = e

FbsInv == DumbHandles /\ FbShowsItsBuffer

\* With the ids apart, a client's handle resolves to its buffer and nothing else.
LEMMA ResolveExact ==
  ASSUME IdsApart, BuffersInv, TableInv, DumbHandles,
         NEW b \in ClientBuffers, NEW s \in Resolve(b.handle)
  PROVE  s = b.surface
<1> DEFINE dumb == {d.surface : d \in {x \in g_dumb : x.handle = b.handle}}
           gbm  == {e.surface : e \in {x \in g_gbm_bufs : x.handle = b.handle}}
<1>1. CASE b \in g_dumb
  <2>1. dumb # {}
    BY <1>1
  <2>2. s \in dumb
    BY <2>1 DEF Resolve
  <2> QED
    BY <1>1, <2>2 DEF DumbHandles
<1>2. CASE b \notin g_dumb
  <2>1. b.surface \in bos /\ b.handle = SurfaceId[b.surface]
    BY <1>2 DEF ClientBuffers
  <2>2. \A d \in g_dumb : d.handle # b.handle
    <3>1. b.handle > MaxHandle /\ b.handle \in Nat /\ MaxHandle \in Nat
      BY <2>1, DrmBuffersAssumption DEF IdsApart, BuffersInv, TypeOK
    <3>2. \A d \in g_dumb : d.handle \in Nat /\ d.handle < g_next_dumb_handle
      BY DEF BuffersInv, TypeOK, Entry, Counters
    <3>3. g_next_dumb_handle \in Nat /\ g_next_dumb_handle <= MaxHandle + 1
      BY DEF BuffersInv, TypeOK, DumbHandles
    <3> QED
      BY <3>1, <3>2, <3>3
  <2>3. s \in gbm
    BY <2>2 DEF Resolve
  <2>4. \A e \in g_gbm_bufs : e.surface \in Surfaces /\ e.handle = SurfaceId[e.surface]
    BY DEF BuffersInv, TypeOK, TableInv, GbmTableLive
  <2> QED
    BY <2>1, <2>3, <2>4, DrmBuffersAssumption DEF BuffersInv, TypeOK
<1> QED
  BY <1>1, <1>2

LEMMA FbsStep ==
  ASSUME IdsApart, BuffersInv, TableInv, FbsInv, Next PROVE FbsInv'
<1> USE DEF FbsInv
<1>1. CASE drmModeCreateDumbBuffer
  <2>1. PICK s \in Surfaces :
          g_dumb' = g_dumb \cup {[handle |-> g_next_dumb_handle, surface |-> s]}
    BY <1>1 DEF drmModeCreateDumbBuffer
  <2>2. /\ g_next_dumb_handle <= MaxHandle /\ g_next_dumb_handle' = g_next_dumb_handle + 1
        /\ g_fbs' = g_fbs
    BY <1>1 DEF drmModeCreateDumbBuffer
  <2>3. \A d \in g_dumb : d.handle # g_next_dumb_handle
    BY DEF BuffersInv, TypeOK, Entry, Counters
  <2>4. \A d, e \in g_dumb' : d.handle = e.handle => d = e
    BY <2>1, <2>3 DEF DumbHandles
  <2>5. g_next_dumb_handle' <= MaxHandle + 1
    BY <2>2, DrmBuffersAssumption DEF BuffersInv, TypeOK
  <2> QED
    BY <2>2, <2>4, <2>5 DEF DumbHandles, FbShowsItsBuffer
<1>2. CASE drmModeDestroyDumbBuffer
  BY <1>2 DEF drmModeDestroyDumbBuffer, DumbHandles, FbShowsItsBuffer
<1>3. CASE gbm_bo_create \/ gbm_bo_destroy
  BY <1>3 DEF gbm_bo_create, gbm_bo_destroy, DumbHandles, FbShowsItsBuffer
<1>4. CASE drmModeAddFB
  <2>1. PICK b \in ClientBuffers : \E s \in Resolve(b.handle) :
          g_fbs' = g_fbs \cup {[fb_id |-> g_next_fb_id, surface |-> s, buffer |-> b.surface]}
    BY <1>4 DEF drmModeAddFB
  <2>2. FbShowsItsBuffer'
    BY <2>1, ResolveExact DEF FbShowsItsBuffer
  <2> QED
    BY <1>4, <2>2 DEF drmModeAddFB, DumbHandles
<1>5. CASE drmModeRmFB
  BY <1>5 DEF drmModeRmFB, DumbHandles, FbShowsItsBuffer
<1> QED
  BY <1>1, <1>2, <1>3, <1>4, <1>5 DEF Next

\* If the surface ids the kernel gives out never meet the handles of dumb buffers,
\* AddFB always makes its framebuffer from the buffer the client meant, whatever
\* buffers came and went before.  Without the assumption it does not: that is the
\* run drm_handle_clash.
THEOREM FbShowsItsBufferInvariant ==
  ASSUME IdsApart
  PROVE  Spec => []FbShowsItsBuffer
<1>1. Init => FbsInv
  BY DrmBuffersAssumption DEF Init, FbsInv, DumbHandles, FbShowsItsBuffer
<1>2. BuffersInv /\ TableInv /\ FbsInv /\ [Next]_vars => FbsInv'
  <2>1. FbsInv /\ UNCHANGED vars => FbsInv'
    BY DEF vars, FbsInv, DumbHandles, FbShowsItsBuffer
  <2> QED
    BY <2>1, FbsStep
<1>3. FbsInv => FbShowsItsBuffer
  BY DEF FbsInv
<1> QED
  BY <1>1, <1>2, <1>3, BuffersInvariant, TableInvariant, PTL DEF Spec
=============================================================================
