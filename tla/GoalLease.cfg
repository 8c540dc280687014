SPECIFICATION Spec
CONSTANTS
  Caller = {c1, c2}
  Proc = {d1, d2}
  MaxTries = 2
  Token = {t1, t2}
  NoToken = NoToken
  LeaseMs = 1
  MaxNow = 1
INVARIANTS
  TypeOK
  SafeUnlessRobbed
SYMMETRY LeaseSymmetry
CHECK_DEADLOCK FALSE
