\* two jobs of one key, of which one goes through Google, beside the request of an action item
SPECIFICATION Spec
CONSTANTS
  j1 = j1 j2 = j2 q1 = q1 k = k
  Jobs = {j1, j2}
  KeyOf <- OneKey
  Personal = {j2}
  Requests = {j2, q1}
  MaxRows = 2
  MaxFaults = 1
  MaxStale = 1
  MaxDeaths = 1
INVARIANTS
  MailsAddUp
  ConnectionServes
CHECK_DEADLOCK FALSE
