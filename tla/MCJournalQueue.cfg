SPECIFICATION FairSpec
CONSTANTS
  MsgId <- MCMsgId
  Envelope <- MCEnvelope
  NoKey = NoKey
  NoMsg = NoMsg
  Filters <- MCFilters
  LeaseMs = {1, 2}
  MaxAttempts = 2
  Requeueable = {"c"}
  Deadletterable <- MCMsgId
  MaxNow = 4
  MaxTokens = 3
INVARIANTS
  TypeOK
  ClaimAgreement
  PendingExact
  LoadIsIdentity
  LeaseExclusive
  OneActivePerKey
  AttemptsBounded
PROPERTIES
  CompletedIsFinal
  DeliverySpec
  EventuallySettled
CHECK_DEADLOCK FALSE
