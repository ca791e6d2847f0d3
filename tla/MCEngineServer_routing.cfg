CONSTANTS
  Names = {}
  Types = {}
  RequestIds = {0}
  Keys = {}
  NoKey = NoKey
  Amounts = {1}
  MaxBalance = 2
  MaxLatency = 0
  QueueCapacity = 1
  MaxRequests = 1
  IdBound = 1
  MaxPolls = 1
  MaxLives = 1
  Clients = {c1}
  MaxMessages = 1
SPECIFICATION ServerSpec
CHECK_DEADLOCK FALSE
INVARIANTS
  RepliesReachTheirClients
