SPECIFICATION Spec
CONSTANTS
  App = {"client", "guest", "server", "rival", "tile"}
  Node = {"centre", "fog", "edge"}
  proxied = {"centre", "fog"}
  nodeOf <- MCNodeOf
  MaxSockets = 2
  Running = Running
  Segments = 2
  pingsThreshold = 1
  Setups <- MCSetups
  Topic = {"n1", "n2"}
  MaxPushed = 2
INVARIANTS ErrorsExplained OneRequestAtATime RightService
PROPERTIES MailDelivered ProbesAnswered
CHECK_DEADLOCK FALSE
