------------------------------ MODULE MCDrmKms ------------------------------
(* Instances of DrmKms: the requests a client commits. *)
EXTENDS DrmKms, TLC
Frame(f)  == [obj |-> 1, prop |-> "FB_ID", value |-> f]
Image(f)  == [obj |-> 2, prop |-> "FB_ID", value |-> f]
Move(p)   == [obj |-> 2, prop |-> "CRTC_XY", value |-> p]
\* A frame, the cursor shown, hidden or moved, or a frame with a moved cursor.
MCRequests ==
  {<<Frame(2)>>, <<Image(0)>>, <<Image(1)>>, <<Move(1)>>, <<Frame(2), Move(0)>>}
MCIoctlRequests == {<<Image(1)>>, <<Move(1)>>, <<Frame(2), Move(0)>>}
FrameRequests == {<<Frame(1)>>, <<Frame(2)>>}
Symmetry == Permutations(Tags)
EventOnly == {"event"}
EventOrNone == {"event", "none"}
MCPositions == {0, 1}
=============================================================================
