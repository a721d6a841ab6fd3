\* two calls one after the other; two deliveries or enqueues fail, a step of a job fails, a worker dies
CONSTANTS
  v1 = v1
  v2 = v2
  v3 = v3
  e1 = e1
  e2 = e2
  e3 = e3
  a = a
  b = b
  Voice = {v1, v2, v3}
  Ended = {e1, e2, e3}
  Calls = {a, b}
  CallOf <- TwoCalls
  Named = {e1, e2, v3, e3}
  Unresolvable = {e3}
  After <- InSequence
  SecondOf <- OwnSecond
  Threads = {}
  MaxFaults = 2
  MaxTimeouts = 0
  MaxAged = 0
  MaxBreaks = 1
  MaxFails = 1
SPECIFICATION FairSpec
INVARIANTS
  
  EffectsOnce
  

  
CHECK_DEADLOCK FALSE
