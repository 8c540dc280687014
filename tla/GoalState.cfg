SPECIFICATION Spec
CONSTANTS
  Proc = {p1, p2}
  NoProc = NoProc
  Bare = Bare
  Dead = Dead
  CompactEvery = 1
  WritesFail = TRUE
  MaxIntents = 2
  MaxCrashes = 2
INVARIANTS
  LogCovers
  LockExclusive
  NoLockLeft
  ReplayUndoesNothing
SYMMETRY ProcSymmetry
CHECK_DEADLOCK FALSE
