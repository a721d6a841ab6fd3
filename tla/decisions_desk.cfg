\* resolve_now, rejections and timeouts: every writer loads the row under the lock
CONSTANTS
  Decisions = {d1}
  ClassOf <- AllTimed
  Options <- Offered
  Replies <- Sent
  WsResponders = {}
  SmsResponders = {}
  DeskSessions = {r1, r2}
  Rejecters = {j1}
  None = None
  MaxCrashes = 2
SPECIFICATION FairSpec
PROPERTIES
  ImplementsBoard
  TimeoutSettles
CHECK_DEADLOCK FALSE
