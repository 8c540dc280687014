SPECIFICATION SupSpec
CONSTANTS
  MsgId = {"a", "b"}
  Envelope <- MCEnvelope
  NoKey = NoKey
  NoMsg = NoMsg
  Filters = {{"goal"}}
  LeaseMs = {2}
  MaxAttempts = 2
  Requeueable = {}
  Deadletterable = {}
  MaxNow = 3
  MaxTokens = 3
  Worker = {w1, w2}
  NoWorker = NoWorker
  Goal = {"g1"}
  ClaimLeaseMs = 2
  BackoffMs = 1
  MaxCrashCount = 2
  Outcomes = {"ok", "error", "throw"}
  MaxRestarts = 1
INVARIANTS
  SupTypeOK
  GoalExclusive
  FenceIsOwn
  
  RunAccounted
SYMMETRY WorkerSymmetry
CHECK_DEADLOCK FALSE
