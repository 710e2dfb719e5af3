SPECIFICATION FairSpec
CONSTANTS
  Me = me
  Others = {u1}
  Moderators = {me, u1}
  MaxSessions = 2
  MaxEvents = 2
INVARIANTS
  RunnablesFindContacts
  ContactsFollowRoster
PROPERTIES
  SessionSyncs
  KickedLeaves
CHECK_DEADLOCK FALSE
