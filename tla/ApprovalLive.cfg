SPECIFICATION FairSpec
CONSTANTS
  Id = {"i1"}
  Requester = {"r1"}
  IdOf <- SingleId
  NoOne = NoOne
  Bound = {"i1"}
  Reply = {c1, c2}
  System = {s1}
  LazyStart = FALSE
  IoFails = FALSE
  MaxRestarts = 1
INVARIANT BoundNeedsItsConversation
PROPERTIES
  RequesterAnswered
  PendingSettled
CHECK_DEADLOCK FALSE
