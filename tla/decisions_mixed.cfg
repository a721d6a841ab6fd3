\* every channel answers at once, handlers and workers crash
CONSTANTS
  Decisions = {d1}
  ClassOf <- AllTimed
  Options <- Offered
  Replies <- Sent
  WsResponders = {w1}
  SmsResponders = {m1}
  DeskSessions = {r1}
  Rejecters = {j1}
  None = None
  MaxCrashes = 1
SPECIFICATION FairSpec
INVARIANTS
  RowTellsOneStory
  ApprovalFollowsAnswer
  NoFrameBeforeCommit
PROPERTIES
  RequestsEnd
CHECK_DEADLOCK FALSE
