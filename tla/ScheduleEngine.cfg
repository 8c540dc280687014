SPECIFICATION LiveSpec
CONSTANTS
  e1 = e1
  e2 = e2
  t1 = t1
  t2 = t2
  r1 = r1
  o1 = o1
  Entries = {e1, e2}
  NoEntry = NoEntry
  Ticks = {t1}
  Runs = {r1}
  Ops = {o1}
  Engines = {"daemon", "cli"}
  EngineOf <- MCEngineOf
  TargetOf <- MCTarget
  Threshold = 1
  NoOne = NoOne
  Dead = Dead
  MaxNow = 1
  MaxRequests = 1
  MaxFaults = 1
INVARIANTS TypeOK LossNeedsSharing PauseHolds
CHECK_DEADLOCK FALSE
 
