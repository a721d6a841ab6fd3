\* one call, deliveries racing in any order with a crash, a repeat and an SMS conversation
CONSTANTS
  v1 = v1
  v2 = v2
  v3 = v3
  e1 = e1
  a = a
  Voice = {v1, v2, v3}
  Ended = {e1}
  Calls = {a}
  CallOf <- OneCall
  Named = {v2, v3, e1}
  Unresolvable = {}
  After <- AnyOrder
  SecondOf <- SameSecond
  Threads = {s1}
  MaxFaults = 1
  MaxTimeouts = 1
  MaxAged = 1
SPECIFICATION HookSpec
INVARIANTS
  OneRowPerCall
CHECK_DEADLOCK FALSE
