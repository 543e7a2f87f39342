\* Three surfaces, up to four dumb handles and framebuffer ids.
SPECIFICATION Spec
CONSTANTS
  s1 = s1  s2 = s2  s3 = s3
  NoSurface = NoSurface
  Surfaces <- MCSurfaces
  SurfaceId <- ApartIds
  MAX_DUMB_BUFS = 2
  MAX_GBM_BUFS = 2
  MAX_FBS = 3
  MaxHandle = 4
INVARIANTS SurfacesCounted GbmTableLive FbShowsItsBuffer
CHECK_DEADLOCK FALSE
