SPECIFICATION Spec
CONSTANTS
  MaxDrawers = 1
  MaxFrames = 1
  FrameSize = 2
INVARIANTS
  BytesOutliveDecoding
CHECK_DEADLOCK FALSE
