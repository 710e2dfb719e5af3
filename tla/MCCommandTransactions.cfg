SPECIFICATION Spec
CONSTANTS
  Threads = {ui, io}
  IoThread = io
  ui = ui
  io = io
  MaxCommands = 4
INVARIANTS
  TypeOK
  MatchWhileSerial
  ResolvedSharesId
CHECK_DEADLOCK FALSE
