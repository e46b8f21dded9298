SPECIFICATION Spec
CONSTANTS
  Node = {1, 2, 3}
  Absent = 9
  Setups <- MCSetups
  NoTimer = NoTimer
  Running = Running
INVARIANTS PeersAgree StopsExplained
PROPERTY PeersPing
CHECK_DEADLOCK FALSE
