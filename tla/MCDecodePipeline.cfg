SPECIFICATION FairSpec
CONSTANTS
  MaxDrawers = 2
  MaxFrames = 3
  FrameSize = 2
INVARIANTS
  TypeOK
  QueuesOutliveUsers
PROPERTIES
  FramesLeave
  OnlySleepersBlock
CHECK_DEADLOCK FALSE
