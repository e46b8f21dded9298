SPECIFICATION Spec
CONSTANTS
  VmType = {"compute", "storage", "large"}
  Needs <- MCNeeds
  Strategy = "BestFit"
  W = 16
  Capacity <- MCCapacity
  MaxVms = 3
INVARIANTS
  TypeOK
  PoolMatchesHosted
  NoOvercommit
PROPERTIES
  AllOrNothing
