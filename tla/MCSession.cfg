SPECIFICATION Spec
CONSTANTS
  Processes = {p1, p2}
  Renderer = p1
  MaxDeaths = 1
  GBM_NUM_BUFFERS = 3
  MaxFrames = 5
  PortLimit = 2
  Refusals <- MCRefusals
INVARIANTS FlipsLastDrawn RingKeepsFrames SurfacesRetained FailsOnlyInOutage
PROPERTIES FlipShown LoadEnds
CHECK_DEADLOCK FALSE
