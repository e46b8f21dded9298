SPECIFICATION Spec
CONSTANTS
  UnsetGate = UnsetGate
  NoCall = NoCall
  NoRequest = NoRequest
  NoApp = NoApp
  Vm <- MCVm
  CpuCores <- MCCpuCores
  Quantum = 2
  Ipt = 2
  MaxApps = 2
  Requests <- MCRequests
  Cores <- MCCores
  HostName = "h"
  Deployment <- MCDeployment
  Iterations = 1
  MIs = 5
  processingMIs = 1
  pingsThreshold = 0
  MaxPings = 2
  Virtual = {TRUE, FALSE}
INVARIANTS TypeOK CallsConserved CoresKept DeploymentReported
PROPERTY CallsReturn
CHECK_DEADLOCK FALSE
