\* two sessions of /respond that loaded the row before either locked it
CONSTANTS
  Decisions = {d1}
  ClassOf <- AllTimed
  Options <- Offered
  Replies <- Offered
  WsResponders = {w1}
  SmsResponders = {m1}
  DeskSessions = {}
  Rejecters = {}
  None = None
  MaxCrashes = 0
SPECIFICATION Spec
INVARIANTS
  AtMostOneWinner
CHECK_DEADLOCK FALSE
