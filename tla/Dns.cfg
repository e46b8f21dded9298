CONSTANTS
  Client <- MCClient
  ticksForTimeOut = 1
  maxAttempts = 2
  Running = Running
  MaxLookups = 2
  ResolverIp = "resolverIp"
  ServerIp = "serverIp"
  Setups <- MCSetups
SPECIFICATION Spec
INVARIANTS TypeOK LookupTracked PendingHaveTimer AnswersFit AskedOnce
PROPERTY LookupEnds
CHECK_DEADLOCK FALSE
