SPECIFICATION FairSpec
CONSTANTS
  MaxDrawers = 1
  MaxFrames = 1
  FrameSize = 2
PROPERTIES
  StopReturns
CHECK_DEADLOCK FALSE
