CONSTANTS
  Client <- MCClient
  ticksForTimeOut = 1
  maxAttempts = 1
  Running = Running
  MaxLookups = 3
  ResolverIp = "resolverIp"
  ServerIp = "serverIp"
  Setups <- WaitSetups
SPECIFICATION Spec
INVARIANT UnansweredWaits
CHECK_DEADLOCK FALSE
