CONSTANTS
  Garbage = Garbage
  Calls = {1, 2}
  Broadcasts = {1, 2}
  PipeCapacity = 1
  Browsers = {b1}
  Kinds = {"succeeded", "refunded"}
  Routed = {TRUE, FALSE}
  MaxPolls = 0
  MaxCrashes = 0
SPECIFICATION GatewaySpec
CHECK_DEADLOCK FALSE
INVARIANTS
  ReversalsReverse
