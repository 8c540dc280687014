SPECIFICATION Spec
CONSTANTS
  Id = {"i1"}
  Requester = {"r1", "r2"}
  IdOf <- SharedId
  NoOne = NoOne
  Bound = {}
  Reply = {c1}
  System = {s1}
  LazyStart = TRUE
  IoFails = TRUE
  MaxRestarts = 1
INVARIANTS
  TypeOK
  DecisionIsDurable
CHECK_DEADLOCK FALSE
 
