SPECIFICATION Spec
CONSTANTS
  Users = {1, 2}
  MaxConnections = 2
  MaxChanges = 2
  MaxFrames = 1
INVARIANTS
  TypeOK
  FramesReachOwnDrawer
  NothingLeaks
  WindowsFollowCameras
PROPERTY
  ListenersStable
CHECK_DEADLOCK FALSE
