---------------------------- MODULE MCDrmBuffers ----------------------------
(* Instances of DrmBuffers: where the kernel's surface ids are apart from the
   handles of dumb buffers, and where they overlap. *)
EXTENDS DrmBuffers, TLC
CONSTANTS s1, s2, s3
MCSurfaces == {s1, s2, s3}
ApartIds   == s1 :> 11 @@ s2 :> 12 @@ s3 :> 13
SmallIds   == s1 :> 1 @@ s2 :> 2 @@ s3 :> 3
=============================================================================
