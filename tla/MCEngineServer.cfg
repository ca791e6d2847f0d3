CONSTANTS
  Names = {n1}
  Types = {"Liability"}
  RequestIds = {0}
  Keys = {}
  NoKey = NoKey
  Amounts = {1}
  MaxBalance = 2
  MaxLatency = 1
  QueueCapacity = 1
  MaxRequests = 3
  IdBound = 3
  MaxPolls = 3
  MaxLives = 1
  Clients = {c1}
  MaxMessages = 3
SPECIFICATION FairServerSpec
CHECK_DEADLOCK FALSE
INVARIANTS
  ServerTypeOK
  RefusalIsFinal
  NoDoubleReport
  SampleIsRecent
PROPERTIES
  DirectAnswers
  StopReturns
