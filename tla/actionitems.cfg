\* two runs overlap over two items; a run may crash or lose an answer
CONSTANTS
  Items = {i1, i2}
  Clerks = {c1, c2}
  Runs = {r1, r2}
  None = None
  MaxAttempts = 2
  MaxOpen = 1
  MaxCount = 1
  MaxFaults = 1
SPECIFICATION FairSpec
INVARIANTS
  OnlyApprovedIsSent
  DoneWasSent
PROPERTIES
  ApprovedSettles
CHECK_DEADLOCK FALSE
