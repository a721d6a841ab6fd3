\* two voice turns and an SMS turn, two of them at once, and a fault anywhere
CONSTANTS
  VoiceTurns = {v1, v2}
  SmsTurns = {s1}
  Decisions = {d1}
  Whispers = {w1}
  MaxInFlight = 2
  MaxFaults = 1
SPECIFICATION Spec
SYMMETRY Symmetry
INVARIANTS
  SeqsAreGapFree
  OutcomesReachOnePrompt
  WhispersReachOnePrompt

  
CHECK_DEADLOCK FALSE
