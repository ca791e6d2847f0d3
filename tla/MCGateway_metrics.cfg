CONSTANTS
  Garbage = Garbage
  Calls = {1, 2}
  Broadcasts = {1, 2}
  PipeCapacity = 1
  Browsers = {b1}
  Kinds = {"metrics", "balances", "create", "transfer"}
  Routed = {TRUE}
  MaxPolls = 2
  MaxCrashes = 0
SPECIFICATION GatewaySpec
CHECK_DEADLOCK FALSE
INVARIANTS
  SamplesAreRead
