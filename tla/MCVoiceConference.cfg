SPECIFICATION Spec
CONSTANTS
  Voices = {v1, v2}
  Attributes <- MCAttributes
  MaxSessions = 2
  MaxEvents = 1
SYMMETRY MCSymmetry
INVARIANTS
  TypeOK
  RunnablesFindListeners
  MenuKeepsListener
  ModuleFollowsConference
  ScreenShowsConference
CHECK_DEADLOCK FALSE
