\* The kernel's surface ids start where the dumb handles do.
SPECIFICATION Spec
CONSTANTS
  s1 = s1  s2 = s2  s3 = s3
  NoSurface = NoSurface
  Surfaces <- MCSurfaces
  SurfaceId <- SmallIds
  MAX_DUMB_BUFS = 2
  MAX_GBM_BUFS = 2
  MAX_FBS = 3
  MaxHandle = 4
INVARIANT FbShowsItsBuffer
CHECK_DEADLOCK FALSE
