\* One flip in flight; room for two settings in the pooled request instead of 64.
SPECIFICATION Spec
CONSTANTS
  NoTag = NoTag
  MaxFb = 2
  Positions <- MCPositions
  Tags = {t1, t2}
  FlipFlags <- EventOnly
  CommitFlags <- EventOrNone
  Requests <- FrameRequests
  IoctlRequests <- FrameRequests
  MaxOutstanding = 1
  MaxPipe = 3
  MAX_ATOMIC_PROPS = 2
INVARIANT IoctlFramesShown
