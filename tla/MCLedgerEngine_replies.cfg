CONSTANTS
  Names = {n1}
  Types = {"Liability"}
  RequestIds = {0}
  Keys = {k1}
  NoKey = NoKey
  Amounts = {1}
  MaxBalance = 2
  MaxLatency = 0
  QueueCapacity = 1
  MaxRequests = 2
  IdBound = 1
  MaxPolls = 1
  MaxLives = 2
SPECIFICATION FairSpec
CHECK_DEADLOCK FALSE
INVARIANTS
  KeyCommitsOnce
  RepliesAreTruthful
  RequestsAccountedFor
PROPERTIES
  RefinesAtomicLedger
  EveryRequestIsAnswered
