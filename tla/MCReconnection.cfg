SPECIFICATION FairSpec
CONSTANTS
  Ui = ui
  ui = ui
  w1 = w1
  w2 = w2
  Workers = {w1, w2}
  MaxConnections = 2
  MaxServices = 5
  MaxDrops = 2
INVARIANTS
  TypeOK
  NoStrayConnection
  FailuresNeedOverlap
  ScreenTellsTruth
PROPERTY DialogAnswered
CHECK_DEADLOCK FALSE
