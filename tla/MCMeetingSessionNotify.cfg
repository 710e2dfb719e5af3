SPECIFICATION Spec
CONSTANTS
  Me = me
  Others = {u1}
  Moderators = {u1}
  MaxSessions = 1
  MaxEvents = 1
INVARIANTS
  PrivateMessageIsTaken
CHECK_DEADLOCK FALSE
