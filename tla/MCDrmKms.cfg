\* One flip in flight, always with an event; callbacks and framebufferd come and go.
SPECIFICATION Spec
CONSTANTS
  NoTag = NoTag
  MaxFb = 2
  Positions <- MCPositions
  Tags = {t1, t2}
  FlipFlags <- EventOnly
  CommitFlags <- EventOrNone
  Requests <- MCRequests
  IoctlRequests <- MCIoctlRequests
  MaxOutstanding = 1
  MaxPipe = 2
  MAX_ATOMIC_PROPS = 2
INVARIANTS PendingIsNext EventsInPipe CompletedFramesShown CursorFollows

SYMMETRY Symmetry
