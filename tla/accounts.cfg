SPECIFICATION Spec
CONSTANTS
  u1 = u1 s1 = s1 s2 = s2 t1 = t1 t2 = t2 t3 = t3 t4 = t4 r1 = r1 r2 = r2
  Users = {u1}
  Tokens = {t1, t2, t3, t4}
  Requests = {r1, r2}
  NoToken = NoToken
  Signups = {s1, s2}
  EmailOf <- OneAddress
  MaxFaults = 2
INVARIANTS
  SignupsAddUp
  ChainsAreSound
PROPERTIES
  RevocationStands
CHECK_DEADLOCK FALSE
