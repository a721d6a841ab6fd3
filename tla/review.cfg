\* two dates' rollups and the replies to a brief; saved queries; a claim checked three times
SPECIFICATION MCSpec
CONSTANTS
  d1 = d1 r1 = r1 r2 = r2 r3 = r3 v1 = v1 v2 = v2 v3 = v3
  w1 = w1 w2 = w2 p1 = p1 p2 = p2 p3 = p3 c = c
  Missable = {d1}
  Runs = {r1, r2, r3}
  DateOf <- TwoDates
  Pins = {p1, p2, p3}
  MaxPinned = 2
  MaxFaults = 1
  Checks = {v1, v2, v3}
  ClaimOf <- OneClaim
  MaxTrouble = 1
  Hooks = {w1, w2}
  ParentOf <- ToFirst
  SenderOf <- Senders
INVARIANTS
  MissesAreBriefed
  PinsAreCapped
  VerdictsAreKept
  RepliesAreRouted
CHECK_DEADLOCK FALSE
