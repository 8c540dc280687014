SPECIFICATION SupFairSpec
CONSTANTS
  MsgId = {"a", "b"}
  Envelope <- MCShortLived
  NoKey = NoKey
  NoMsg = NoMsg
  Filters = {{"goal"}}
  LeaseMs = {1, 2}
  MaxAttempts = 2
  Requeueable = {}
  Deadletterable = {}
  MaxNow = 3
  MaxTokens = 3
  Worker = {w1}
  NoWorker = NoWorker
  Goal = {"g1"}
  ClaimLeaseMs = 1
  BackoffMs = 1
  MaxCrashCount = 2
  Outcomes = {"ok", "error", "throw"}
  MaxRestarts = 0
PROPERTIES
  ActivationSettled
CHECK_DEADLOCK FALSE
