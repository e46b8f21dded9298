SPECIFICATION Spec
CONSTANTS
  r1 = r1
  r2 = r2
  r3 = r3
  Request = {r1, r2, r3}
  Topic = {1, 2}
  Zone = {0, 1, 2}
  DefaultZone = 1
  NodeZone <- MCNodeZone
  RequestZone <- MCRequestZone
  Priority = {}
  dispatchPriority = FALSE
  Vms <- MCOneVm
  Generated = {r2, r3}
  Setups <- MCOneSetup
  Time <- MCTime
  Dependent = {r1}
  Capacity <- MCCapacity
  VmType = {"small", "large"}
  Needs <- MCNeeds
  Strategy = "BestFit"
  W = 16
\* The simulation ends, by an error or when every user was answered.
CHECK_DEADLOCK FALSE
INVARIANT CommandsUnderstood
