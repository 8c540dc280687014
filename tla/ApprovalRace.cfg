SPECIFICATION Spec
CONSTANTS
  Id = {"i1"}
  Requester = {"r1"}
  IdOf <- SingleId
  NoOne = NoOne
  Bound = {"i1"}
  Reply = {c1, c2}
  System = {}
  LazyStart = FALSE
  IoFails = FALSE
  MaxRestarts = 0
INVARIANTS
  ToldIsRecorded
CHECK_DEADLOCK FALSE
