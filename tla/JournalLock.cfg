SPECIFICATION FairSpec
CONSTANTS
  Proc = {p1, p2, p3}
  StaleAfter = 1
  Timeout = 1
  MaxNow = 2
  MaxCrashes = 1
INVARIANTS
  TypeOK
  LossNeedsRobbery
PROPERTY OrphanReclaimed
CHECK_DEADLOCK FALSE
