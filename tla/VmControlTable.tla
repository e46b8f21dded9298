--------------------------- MODULE VmControlTable ---------------------------
(***************************************************************************)
(* The hypervisor's table of virtual machines and of their applications    *)
(* (VmControlTable, VmControlBlock, AppControlBlock), the free cores of    *)
(* the node (HardwareManager), and the state of a deployment (SM_UserAPP). *)
(* Local ids count from 1 here, pids too.                                  *)
(***************************************************************************)
EXTENDS Integers, Sequences, SequencesExt

CONSTANTS MaxApps,       \* numAppsPerVm
          NoRequest      \* a VM without a deployment

Free == -1               \* pid of a free AppControlBlock; also "table full"
NotACore == -1           \* UINT32_MAX: the index of no core
FirstCore == 1

FreeApp == [pid |-> Free, deploymentIndex |-> -1]

VmControlBlock == [state |-> "idle", apps |-> [p \in 1..MaxApps |-> FreeApp],
                   globalId |-> NoRequest, request |-> NoRequest]

(* VmControlTable::initialize: one empty entry for each VM the node can run. *)
EmptyVmTable(V) == [v \in V |-> VmControlBlock]

isFree(block) == block.state = "idle"
isRunning(block) == block.state = "running"

LeastOf(S) == CHOOSE x \in S : \A y \in S : x <= y

FirstFree(S) == IF S = {} THEN Free ELSE LeastOf(S)

(* allocateVm and allocateApp return the first free entry or -1. *)
freeVm(table) == FirstFree({v \in DOMAIN table : isFree(table[v])})
freePid(block) == FirstFree({p \in DOMAIN block.apps : block.apps[p].pid = Free})

allocateVm(table, v) == [table EXCEPT ![v] = [VmControlBlock EXCEPT !.state = "running"]]

createMapping(table, globalId, v) == [table EXCEPT ![v].globalId = globalId]

Mapped(table, globalId) == \E v \in DOMAIN table : table[v].globalId = globalId
getLocalVmId(table, globalId) == CHOOSE v \in DOMAIN table : table[v].globalId = globalId

associateDeploymentToVm(block, states) == [block EXCEPT !.request = states]

allocateApp(block, p, i) == [block EXCEPT !.apps[p] = [pid |-> p, deploymentIndex |-> i]]
deallocateAppToZero(block, p) == [block EXCEPT !.apps[p].pid = 0]   \* mutant
deallocateApp(block, p) == [block EXCEPT !.apps[p].pid = Free]

(* handleAppRequest: one pid for each of the n applications, in order. *)
allocateApps(block, n) ==
  LET after[i \in 0..n] ==
        IF i = 0 THEN block ELSE allocateApp(after[i - 1], freePid(after[i - 1]), i)
  IN after[n]

changeStateByIndex(block, i, state) == [block EXCEPT !.request[i] = state]

isFinished(state) == state \in {"finishedOK", "finishedError"}
someAppFinished(block) == \E i \in DOMAIN block.request : isFinished(block.request[i])   \* mutant
allAppsFinished(block) == \A i \in DOMAIN block.request : isFinished(block.request[i])

(***************************************************************************)
(* HardwareManager::allocateCores: the first cores that are free, in       *)
(* order.  When there are too few, the array keeps UINT32_MAX in its first *)
(* element and 0, which is the first core, in the others.                  *)
(***************************************************************************)
allocatedCoresIgnoringFree(free, n) == [i \in 1..n |-> i]   \* mutant

allocatedCores(free, n) ==
  LET left[i \in 0..n] ==
        IF i = 0 THEN free ELSE {c \in left[i - 1] : \E d \in left[i - 1] : d < c}
  IN [i \in 1..n |-> IF left[i - 1] # {} THEN LeastOf(left[i - 1])
                      ELSE IF i = 1 THEN NotACore ELSE FirstCore]
=============================================================================
