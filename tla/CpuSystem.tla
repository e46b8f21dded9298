------------------------------ MODULE CpuSystem ------------------------------
(***************************************************************************)
(* The processor of a node: one round-robin scheduler per virtual machine  *)
(* (CpuSchedulerRR), the cores they share (CpuCore), and the hub between   *)
(* them (CheckingHubModule).                                               *)
(*                                                                         *)
(* Every module handles one message of its inbox at a time, to the end.    *)
(* The queue of cSIMCAN_Core is empty between two events (a request is     *)
(* processed as soon as it is inserted) and is left out.  SM_AbortCpu is   *)
(* sent only by setIsRunning(FALSE), which only deallocateVmResources      *)
(* calls; no path of the program reaches it (see README), so the queue of  *)
(* aborts and its branches are left out.                                   *)
(***************************************************************************)
EXTENDS MessageTrace, Integers

CONSTANTS Vm,           \* local VM ids: 1 .. number of schedulers
          CpuCores,     \* cores of the node, numbered from 1
          Quantum,      \* ticks of a turn, or SM_CpuInfiniteQuantum
          Ipt,          \* instructions of a tick: speed * tick
          NoCall        \* an idle core

VARIABLES inbox,        \* module -> messages that arrived and wait
          sched,        \* VM -> its scheduler
          core,         \* core -> pendingMessage, NoCall when idle
          failed        \* some module called error(): the simulation ended

SM_CpuInfiniteQuantum == -1
SC_NotFound == -1

Hypervisor == <<"hypervisor">>
Hub == <<"hub">>
Scheduler(v) == <<"scheduler", v>>
Core(c) == <<"core", c>>

ASSUME CpuConstants ==
  /\ IsFiniteSet(Vm) /\ Vm # {} /\ Vm = 1..Cardinality(Vm)
  /\ IsFiniteSet(CpuCores) /\ CpuCores = 1..Cardinality(CpuCores)
  /\ Quantum = SM_CpuInfiniteQuantum \/ Quantum \in Nat \ {0}
  /\ Ipt \in Nat \ {0}

(* CpuCore::initialize: no request under way. *)
IdleCores == [c \in CpuCores |-> NoCall]

(* Scheduler of a VM that nobody started, and of one that owns all cores. *)
IdleScheduler == [running |-> FALSE, index |-> <<>>, cores |-> <<>>, requestsQueue |-> <<>>]

setManagedCpuCores(s, n) == [s EXCEPT !.cores = [i \in 1..n |-> TRUE]]
setCpuCoreIndex(s, index) == [s EXCEPT !.index = index]
setIsRunning(s) == [s EXCEPT !.running = TRUE]

StartedScheduler(s, index) ==
  setIsRunning(setCpuCoreIndex(setManagedCpuCores(s, Len(index)), index))

searchIdleCPU(s) ==
  IF \E i \in DOMAIN s.cores : s.cores[i]
    THEN CHOOSE i \in DOMAIN s.cores : s.cores[i] /\ \A j \in 1..(i - 1) : ~s.cores[j]
    ELSE SC_NotFound

getVirtualCpuIndex(s, realCpuIndex) ==
  IF \E i \in DOMAIN s.cores : s.index[i] = realCpuIndex
    THEN CHOOSE i \in DOMAIN s.cores :
           s.index[i] = realCpuIndex /\ \A j \in 1..(i - 1) : s.index[j] # realCpuIndex
    ELSE SC_NotFound

(* One tick of a request: what is left of the quantum and of the work. *)
executeMIs(sm) ==
  [sm EXCEPT !.quantum = IF @ = SM_CpuInfiniteQuantum THEN @ ELSE @ - 1,
             !.mis = IF @ - Ipt > 0 THEN @ - Ipt ELSE 0,
             !.isCompleted = @ \/ sm.mis - Ipt <= 0]

(* SM_CPU_Message::dup copies neither the process nor its VM. *)
statusOf(sm) == [sm EXCEPT !.pid = 0, !.vmId = 0, !.isResponse = TRUE]

Arrived(m) == ~failed /\ inbox[m] # <<>>

(***************************************************************************)
(* CpuSchedulerRR                                                          *)
(***************************************************************************)
processRequestMessage(v) ==
  /\ Arrived(Scheduler(v))
  /\ ~Head(inbox[Scheduler(v)]).isResponse
  /\ LET arrived == Head(inbox[Scheduler(v)])
         sm == [updateMessageTrace(arrived, Scheduler(v), Hypervisor) EXCEPT !.quantum = Quantum]
         i == searchIdleCPU(sched[v])
         rest == handled(inbox, Scheduler(v))
     IN IF ~traceable(arrived) \/ ~sched[v].running \/ arrived.opCode # "EXEC"
          THEN failed' = TRUE /\ UNCHANGED <<inbox, sched>>
          ELSE /\ IF i = SC_NotFound
                    THEN /\ sched' = [sched EXCEPT ![v].requestsQueue = Append(@, sm)]
                         /\ inbox' = rest
                    ELSE /\ sched' = [sched EXCEPT ![v].cores[i] = FALSE]
                         /\ inbox' = sent(rest, Scheduler(v), Hub,
                                          [sm EXCEPT !.nextModuleIndex = sched[v].index[i]])
               /\ UNCHANGED failed
  /\ UNCHANGED core

(* A core answers.  What it did not finish goes to the tail of the queue   *)
(* (and the hypervisor is told); the head of the queue, if there is one,   *)
(* takes the same core.                                                    *)
afterAnswerForgetful(s, sm) == s   \* mutant: an unfinished computation is not queued again

afterAnswer(s, sm) ==
  [s EXCEPT !.requestsQueue = IF sm.isCompleted THEN @ ELSE Append(@, [sm EXCEPT !.isResponse = FALSE])]

processResponseMessage(v) ==
  /\ Arrived(Scheduler(v))
  /\ Head(inbox[Scheduler(v)]).isResponse
  /\ LET sm == Head(inbox[Scheduler(v)])
         i == getVirtualCpuIndex(sched[v], sm.nextModuleIndex)
         s == afterAnswer(sched[v], sm)
         answer == sendResponseMessage(handled(inbox, Scheduler(v)), Scheduler(v),
                                       IF sm.isCompleted THEN sm ELSE statusOf(sm))
     IN IF ~sched[v].running
          THEN inbox' = handled(inbox, Scheduler(v)) /\ UNCHANGED <<sched, failed>>
        ELSE IF i = SC_NotFound
          THEN failed' = TRUE /\ UNCHANGED <<inbox, sched>>
        ELSE /\ IF s.requestsQueue = <<>>
                  THEN /\ sched' = [sched EXCEPT ![v] = [s EXCEPT !.cores[i] = TRUE]]
                       /\ inbox' = answer
                  ELSE /\ sched' = [sched EXCEPT ![v] = [s EXCEPT !.cores[i] = FALSE,
                                                                  !.requestsQueue = Tail(@)]]
                       /\ inbox' = sent(answer, Scheduler(v), Hub,
                                        [Head(s.requestsQueue) EXCEPT
                                           !.nextModuleIndex = sm.nextModuleIndex,
                                           !.quantum = Quantum])
             /\ UNCHANGED failed
  /\ UNCHANGED core

(***************************************************************************)
(* CheckingHubModule                                                       *)
(***************************************************************************)
forward ==
  /\ Arrived(Hub)
  /\ LET sm == Head(inbox[Hub])
         rest == handled(inbox, Hub)
         port == IF Cardinality(CpuCores) = 1 THEN 1 ELSE sm.nextModuleIndex
     IN inbox' = IF sm.isResponse
                   THEN sendResponseMessage(rest, Hub, sm)
                   ELSE sent(rest, Hub, Core(port), updateMessageTrace(sm, Hub, sm.arrival))
  /\ UNCHANGED <<sched, core, failed>>

(***************************************************************************)
(* CpuCore                                                                 *)
(***************************************************************************)
startTick(c) ==
  /\ Arrived(Core(c))
  /\ LET sm == Head(inbox[Core(c)])
     IN IF core[c] # NoCall \/ (sm.quantum <= 0 /\ sm.quantum # SM_CpuInfiniteQuantum)
          THEN failed' = TRUE /\ UNCHANGED <<inbox, core>>
          ELSE /\ core' = [core EXCEPT ![c] = executeMIs(updateMessageTrace(sm, Core(c), Hub))]
               /\ inbox' = handled(inbox, Core(c))
               /\ UNCHANGED failed
  /\ UNCHANGED sched

(* The latency message: a tick has passed. *)
processSelfMessage(c) ==
  /\ ~failed /\ core[c] # NoCall
  /\ IF core[c].isCompleted \/ core[c].quantum = 0
       THEN /\ inbox' = sendResponseMessage(inbox, Core(c), [core[c] EXCEPT !.isResponse = TRUE])
            /\ core' = [core EXCEPT ![c] = NoCall]
       ELSE /\ core' = [core EXCEPT ![c] = executeMIs(@)]
            /\ UNCHANGED inbox
  /\ UNCHANGED <<sched, failed>>

CpuNext ==
  \/ \E v \in Vm : processRequestMessage(v) \/ processResponseMessage(v)
  \/ forward
  \/ \E c \in CpuCores : startTick(c) \/ processSelfMessage(c)
=============================================================================
