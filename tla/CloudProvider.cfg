SPECIFICATION Spec
CONSTANTS
  r1 = r1
  r2 = r2
  r3 = r3
  Request = {r1, r2, r3}
  Topic = {1, 2, 3}
  Zone = {1, 2}
  DefaultZone = 1
  Cores <- MCCores
  RequestZone <- MCRequestZone
  NodeZone <- MCNodeZone
  Priority = {r3}
  dispatchPriority = TRUE
  Reports = {2}
INVARIANTS
  TypeOK
  TimerPerSubscription
  TableConsistent
PROPERTIES
  ExactlyOneAnswer
  NoOvertaking
  UpdateServesQueue
  CoresConserved
  SubscriptionEnds
\* error() ends the simulation.
CHECK_DEADLOCK FALSE
