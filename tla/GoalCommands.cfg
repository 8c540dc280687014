SPECIFICATION LiveSpec
CONSTANTS
  Goals = {g1}
  MaxCommands = 2
  MaxPending = 2
  MaxFaults = 1
  Dispatchers = {"commands", "events"}
INVARIANTS TypeOK AsCommanded
PROPERTIES RestIsKept PauseTakesEffect
CHECK_DEADLOCK FALSE
