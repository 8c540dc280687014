SPECIFICATION SupFairSpec
CONSTANTS
  MsgId = {"a", "b"}
  Envelope <- MCShortLived
  NoKey = NoKey
  NoMsg = NoMsg
  Filters = {{"goal"}}
  LeaseMs = {1, 3}
  MaxAttempts = 2
  Requeueable = {}
  Deadletterable = {}
  MaxNow = 4
  MaxTokens = 3
  Worker = {w1}
  NoWorker = NoWorker
  Goal = {"g1"}
  ClaimLeaseMs = 1
  BackoffMs = 2
  MaxCrashCount = 2
  Outcomes = {"ok", "error"}
  MaxRestarts = 0
INVARIANT BackoffHonoured
PROPERTIES
  ActivationSettled
CHECK_DEADLOCK FALSE
