CONSTANTS
  Garbage = Garbage
  Calls = {1, 2}
  Broadcasts = {1, 2}
  PipeCapacity = 1
  Browsers = {b1}
  Kinds = {"succeeded", "refunded", "transfer", "keyed", "balances", "metrics"}
  Routed = {TRUE, FALSE}
  MaxPolls = 1
  MaxCrashes = 1
SPECIFICATION FairGatewaySpec
CHECK_DEADLOCK FALSE
INVARIANTS
  GatewayTypeOK
  PendingIsExact
  ReceiverSurvives
  ClientsAreConnected
  EventsAreTrue
  RefundedIsNotBooked
PROPERTIES
  EveryTaskEnds
