SPECIFICATION Spec
CONSTANTS
  App = {"client", "guest", "server", "rival", "tile"}
  Node = {"centre", "fog", "edge"}
  proxied = {"centre", "fog"}
  nodeOf <- MCNodeOf
  MaxSockets = 2
  Running = Running
  Segments = 2
  pingsThreshold = 1
  Setups <- StraddlingSetups
  Topic = {"n1", "n2"}
  MaxPushed = 2
INVARIANT PackagesReassembled
CHECK_DEADLOCK FALSE
