SPECIFICATION Spec
CONSTANTS
  Me = me
  Others = {u1, u2}
  Moderators = {me, u1}
  MaxSessions = 1
  MaxEvents = 1
INVARIANTS
  TypeOK
  LookupsSafeOnceSynced
  RosterMirrorsServer
  ChatsFollowRoster
CHECK_DEADLOCK FALSE
