-------------------------------- MODULE Host --------------------------------
(***************************************************************************)
(* A node that runs applications: the hypervisor with its control table    *)
(* and hardware manager, the disk, the applications, and the CPU system.   *)
(*                                                                         *)
(* A blade of a data centre (DcHypervisor) starts empty, is told which VMs *)
(* to start, and gives each the cores it asks for.  An edge node           *)
(* (EdgeHypervisor) has one VM from the start, whose scheduler owns every  *)
(* core; "virtual" says which of the two this node is.                     *)
(*                                                                         *)
(* A LocalApplication reads, computes, writes, a number of times, and      *)
(* exits.  A LocalIotApplication waits for sensors, computes after every   *)
(* few packets without waiting for the previous computation, and never     *)
(* exits.                                                                  *)
(*                                                                         *)
(* Not modelled: the suspension of VMs (DcHypervisor::handleVmTimeout has  *)
(* no caller, so no VM is ever suspended, resumed or released), and the    *)
(* duration of ticks and disk operations, which may take any time.         *)
(***************************************************************************)
EXTENDS CpuSystem, VmControlTable

CONSTANTS Requests,      \* the VM requests: sequences of global VM ids
          Cores,         \* global VM id -> cores of its type
          HostName,      \* global id of the VM of an edge node
          Deployment,    \* global VM id -> kinds of the applications deployed on it
          Iterations, MIs,        \* of a LocalApplication
          processingMIs, pingsThreshold, MaxPings,   \* of a LocalIotApplication
          Virtual,       \* the values of "virtual" to start from
          NoApp          \* a slot whose module was deleted

VARIABLES virtual,       \* isVirtualHardware
          vmTable,       \* the control table
          freeCores,     \* cores not given to a VM
          queueTable,    \* VM -> disk operations, the first one under way
          app,           \* slot -> the application module
          commands,      \* VM requests the manager has not sent yet
          events         \* reports sent to the manager

hostVars == <<virtual, vmTable, freeCores, queueTable, app, commands, events>>
cpuVars == <<inbox, sched, core, failed>>
vars == <<hostVars, cpuVars>>

Slot == Vm \X (1..MaxApps)
Disk == <<"disk">>
App(s) == <<"app", s>>
Module == {Hypervisor, Hub, Disk} \cup {Scheduler(v) : v \in Vm}
            \cup {Core(c) : c \in CpuCores} \cup {App(s) : s \in Slot}

GlobalVm == DOMAIN Cores

ASSUME HostConstants ==
  /\ Requests \subseteq Seq(GlobalVm) /\ IsFiniteSet(Requests)
  /\ HostName \notin GlobalVm /\ NoRequest \notin GlobalVm \cup {HostName}
  /\ Cores \in [GlobalVm -> Nat] /\ MaxApps \in Nat \ {0}
  /\ Deployment \in [GlobalVm \cup {HostName} -> Seq({"local", "iot"})]
  /\ \A g \in DOMAIN Deployment : Len(Deployment[g]) \in 1..MaxApps
  /\ Virtual \subseteq BOOLEAN
  /\ MIs \in Nat /\ processingMIs \in Nat /\ Iterations \in Nat
  /\ pingsThreshold \in Nat /\ MaxPings \in Nat
  /\ NoRequest \notin Seq({"waiting", "finishedOK", "finishedError"})

(* HardwareManager::checkNodeSetup: as many VMs as cores, at most; a node   *)
(* without virtual hardware has one VM, whatever the size of Vm.           *)
checkNodeSetup ==
  /\ Cardinality(CpuCores) > 0
  /\ TRUE \in Virtual => Cardinality(Vm) \in 1..Cardinality(CpuCores)

ASSUME NodeSetup == checkNodeSetup

Fail == failed' = TRUE /\ UNCHANGED <<hostVars, inbox, sched, core>>

(* The placeholder every slot starts with; calls counts the calls of a     *)
(* module that did not return (history, read by the properties only).      *)
Placeholder == [kind |-> "default", step |-> "idle", iteration |-> 0,
                numPings |-> 0, received |-> 0, calls |-> 0]

IdleDisk == [queue |-> <<>>, ioFinished |-> FALSE]

Init ==
  /\ virtual \in Virtual
  /\ failed = FALSE
  /\ inbox = [m \in Module |-> <<>>]
  /\ core = IdleCores
  /\ queueTable = [v \in Vm |-> IdleDisk]
  /\ app = [s \in Slot |-> Placeholder]
  /\ freeCores = CpuCores
  /\ events = <<>>
  /\ LET empty == EmptyVmTable(Vm)
         own == [c \in 1..Cardinality(CpuCores) |-> c]
     IN IF virtual
          THEN /\ vmTable = empty
               /\ sched = [v \in Vm |-> IdleScheduler]
               /\ commands = Requests
          ELSE /\ vmTable = createMapping(allocateVm(empty, 1), HostName, 1)
               /\ sched = [v \in Vm |-> IF v = 1 THEN StartedScheduler(IdleScheduler, own)
                                                 ELSE IdleScheduler]
               /\ commands = {}

(***************************************************************************)
(* Hypervisor: commands of the manager                                     *)
(***************************************************************************)

(* One VM of a request: its cores, its entry, its name, its scheduler. *)
startVm(host, g) ==
  LET v == freeVm(host.table)
      index == allocatedCores(host.free, Cores[g])
  IN IF host.error \/ v = Free
       THEN [host EXCEPT !.error = TRUE]
       ELSE [error |-> FALSE,
             table |-> createMapping(allocateVm(host.table, v), g, v),
             free |-> host.free \ {index[i] : i \in DOMAIN index},
             sched |-> [host.sched EXCEPT ![v] = StartedScheduler(@, index)]]

handleVmRequest(request) ==
  /\ ~failed /\ request \in commands
  /\ LET after[i \in 0..Len(request)] ==
           IF i = 0
             THEN [error |-> FALSE, table |-> vmTable, free |-> freeCores, sched |-> sched]
             ELSE startVm(after[i - 1], request[i])
         host == after[Len(request)]
     IN IF host.error \/ ~virtual
          THEN Fail
          ELSE /\ vmTable' = host.table /\ freeCores' = host.free /\ sched' = host.sched
               /\ commands' = commands \ {request}
               /\ UNCHANGED <<virtual, queueTable, app, events, inbox, core, failed>>

(* The module of a slot is built once its placeholder was deleted; it will *)
(* start after its startDelay.                                             *)
built(slot, kind) == [Placeholder EXCEPT !.kind = kind, !.step = "starting"]

(* The manager sends the applications once the VM was started.             *)
handleAppRequest(g) ==
  /\ ~failed /\ Mapped(vmTable, g)
  /\ LET v == getLocalVmId(vmTable, g)
         kinds == Deployment[g]
         block == allocateApps(
                    associateDeploymentToVm(vmTable[v], [i \in DOMAIN kinds |-> "waiting"]),
                    Len(kinds))
     IN /\ vmTable[v].request = NoRequest
        /\ IF \E i \in DOMAIN kinds : ~\E p \in 1..MaxApps : block.apps[p].deploymentIndex = i
             THEN Fail
             ELSE /\ vmTable' = [vmTable EXCEPT ![v] = block]
                  /\ app' = [s \in Slot |->
                       IF s[1] = v /\ block.apps[s[2]].pid # Free
                         THEN built(app[s], kinds[block.apps[s[2]].deploymentIndex])
                         ELSE app[s]]
                  /\ UNCHANGED <<virtual, freeCores, queueTable, commands, events, cpuVars>>

(***************************************************************************)
(* Hypervisor: system calls                                                *)
(***************************************************************************)
deleteApp(modules, s) == [modules EXCEPT ![s] = NoApp]

handleAppTermination(sm, exitStatus) ==
  LET v == sm.vmId
      p == sm.pid
      block == changeStateByIndex(deallocateApp(vmTable[v], p),
                                  vmTable[v].apps[p].deploymentIndex, exitStatus)
  IN /\ vmTable' = [vmTable EXCEPT ![v] = block]
     /\ app' = deleteApp(app, <<v, p>>)
     /\ inbox' = [handled(inbox, Hypervisor) EXCEPT ![App(<<v, p>>)] = <<>>]
     /\ events' = IF allAppsFinished(block)
                    THEN Append(events, [vmId |-> block.globalId, apps |-> block.request])
                    ELSE events
     /\ UNCHANGED <<virtual, freeCores, queueTable, commands, sched, core, failed>>

(* Where a call goes on: the scheduler of its VM, or the disk. *)
destination(sm) == IF sm.opCode = "EXEC" THEN Scheduler(sm.vmId) ELSE Disk

processSyscallStart ==
  /\ Arrived(Hypervisor) /\ ~Head(inbox[Hypervisor]).isResponse
  /\ LET sm == Head(inbox[Hypervisor])
     IN IF sm.opCode \in {"EXIT", "ABORT"}
          THEN handleAppTermination(sm, IF sm.opCode = "EXIT" THEN "finishedOK" ELSE "finishedError")
          ELSE /\ inbox' = sent(handled(inbox, Hypervisor), Hypervisor, destination(sm), sm)
               /\ UNCHANGED <<hostVars, sched, core, failed>>

(* What a scheduler tells of an unfinished computation goes no further;    *)
(* the hubs bring an answer to the process it is for (ProcessDemux).       *)
chooseIndex(sm) == <<sm.vmId, sm.pid>>

sendToApp(box, sm) == sent(box, Hypervisor, App(chooseIndex(sm)), sm)

processSyscallEnd ==
  /\ Arrived(Hypervisor) /\ Head(inbox[Hypervisor]).isResponse
  /\ LET sm == Head(inbox[Hypervisor])
         rest == handled(inbox, Hypervisor)
     IN inbox' = IF sm.opCode = "EXEC" /\ ~sm.isCompleted
                   THEN rest
                   ELSE sendToApp(rest, sm)
  /\ UNCHANGED <<hostVars, sched, core, failed>>

(***************************************************************************)
(* DiskManager: one operation of each VM at a time                         *)
(***************************************************************************)
scheduleIoUnlessScheduled(entry) == [entry EXCEPT !.ioFinished = Len(entry.queue) > 0 /\ ~@]   \* mutant

scheduleIo(entry) == [entry EXCEPT !.ioFinished = Len(entry.queue) > 0]

diskRequest ==
  /\ Arrived(Disk)
  /\ LET sm == Head(inbox[Disk])
         entry == [queueTable[sm.vmId] EXCEPT !.queue = Append(@, sm)]
     IN queueTable' = [queueTable EXCEPT ![sm.vmId] =
                         IF Len(entry.queue) = 1 THEN scheduleIo(entry) ELSE entry]
  /\ inbox' = handled(inbox, Disk)
  /\ UNCHANGED <<virtual, vmTable, freeCores, app, commands, events, sched, core, failed>>

ioFinished(v) ==
  /\ ~failed /\ queueTable[v].ioFinished
  /\ LET entry == queueTable[v]
     IN /\ queueTable' = [queueTable EXCEPT ![v] = scheduleIo([entry EXCEPT !.queue = Tail(@)])]
        /\ inbox' = sent(inbox, Disk, Hypervisor, [Head(entry.queue) EXCEPT !.isResponse = TRUE])
  /\ UNCHANGED <<virtual, vmTable, freeCores, app, commands, events, sched, core, failed>>

(***************************************************************************)
(* AppBase: the calls of an application                                    *)
(***************************************************************************)
Syscall(s, code) ==
  [opCode |-> code, vmId |-> s[1], pid |-> s[2], isResponse |-> FALSE,
   mis |-> 0, quantum |-> 0, isCompleted |-> FALSE, nextModuleIndex |-> 0,
   trace |-> <<>>, arrival |-> UnsetGate]

read(s) == Syscall(s, "READ")
write(s) == Syscall(s, "WRITE")
execute(s, work) == [Syscall(s, "EXEC") EXCEPT !.mis = work]
exit(s) == Syscall(s, "EXIT")

(* The module goes on as "next" and sends "call". *)
Calls(s, box, next, call) ==
  /\ app' = [app EXCEPT ![s] = [next EXCEPT !.calls = @ + 1]]
  /\ inbox' = sent(box, App(s), Hypervisor, stampedByCreator(call, App(s)))

Rests(s, box, next) == app' = [app EXCEPT ![s] = next] /\ inbox' = box

AppOnly == UNCHANGED <<virtual, vmTable, freeCores, queueTable, commands, events, sched, core, failed>>

(***************************************************************************)
(* LocalApplication                                                        *)
(***************************************************************************)
After(s) ==
  LET returned == [app[s] EXCEPT !.calls = @ - 1]
      again == returned.iteration + 1 < Iterations
      box == handled(inbox, App(s))
      sm == Head(inbox[App(s)])
  IN CASE sm.opCode = "READ" -> Calls(s, box, [returned EXCEPT !.step = "executing"], execute(s, MIs))
       [] sm.opCode = "EXEC" -> Calls(s, box, [returned EXCEPT !.step = "writing"], write(s))
       [] sm.opCode = "WRITE" ->
            Calls(s, box, [returned EXCEPT !.step = IF again THEN "reading" ELSE "exiting",
                                           !.iteration = @ + 1],
                  IF again THEN read(s) ELSE exit(s))

LocalApplicationStarts(s) ==
  /\ ~failed /\ app[s] # NoApp
  /\ app[s].kind = "local" /\ app[s].step = "starting"
  /\ Calls(s, inbox, [app[s] EXCEPT !.step = "reading", !.iteration = 1], read(s))
  /\ AppOnly

LocalApplicationReturns(s) ==
  /\ Arrived(App(s)) /\ app[s].kind = "local"
  /\ After(s)
  /\ AppOnly

(***************************************************************************)
(* LocalIotApplication                                                     *)
(***************************************************************************)
IotApplicationStarts(s) ==
  /\ ~failed /\ app[s] # NoApp
  /\ app[s].kind = "iot" /\ app[s].step = "starting"
  /\ Rests(s, inbox, [app[s] EXCEPT !.step = "listening"])
  /\ AppOnly

(* A packet of a sensor (MaxPings bounds how many are sent). *)
handleDataArrived(s) ==
  /\ ~failed /\ app[s] # NoApp
  /\ app[s].kind = "iot" /\ app[s].step = "listening" /\ app[s].received < MaxPings
  /\ LET pings == app[s].numPings + 1
         next == [app[s] EXCEPT !.received = @ + 1]
     IN IF pings > pingsThreshold
          THEN Calls(s, inbox, [next EXCEPT !.numPings = 0], execute(s, processingMIs))
          ELSE Rests(s, inbox, [next EXCEPT !.numPings = pings])
  /\ AppOnly

(* The computation is over: a command goes to an actuator. *)
IotApplicationReturns(s) ==
  /\ Arrived(App(s)) /\ app[s].kind = "iot"
  /\ Rests(s, handled(inbox, App(s)), [app[s] EXCEPT !.calls = @ - 1])
  /\ AppOnly

AppNext(s) ==
  \/ LocalApplicationStarts(s) \/ LocalApplicationReturns(s)
  \/ IotApplicationStarts(s) \/ handleDataArrived(s) \/ IotApplicationReturns(s)

Commands ==
  \/ \E request \in Requests : handleVmRequest(request)
  \/ \E g \in GlobalVm \cup {HostName} : handleAppRequest(g)

Cpu == CpuNext /\ UNCHANGED hostVars

Next ==
  \/ Commands
  \/ processSyscallStart \/ processSyscallEnd
  \/ diskRequest \/ (\E v \in Vm : ioFinished(v))
  \/ \E s \in Slot : AppNext(s)
  \/ Cpu

(* The simulation kernel handles every event that is scheduled.  Nothing   *)
(* makes the manager send commands or the sensors send packets.            *)
Fairness ==
  /\ WF_vars(processSyscallStart) /\ WF_vars(processSyscallEnd)
  /\ WF_vars(diskRequest) /\ \A v \in Vm : WF_vars(ioFinished(v))
  /\ \A s \in Slot : /\ WF_vars(LocalApplicationStarts(s)) /\ WF_vars(LocalApplicationReturns(s))
                     /\ WF_vars(IotApplicationStarts(s)) /\ WF_vars(IotApplicationReturns(s))
  /\ WF_vars(forward /\ UNCHANGED hostVars)
  /\ \A v \in Vm : WF_vars((processRequestMessage(v) \/ processResponseMessage(v)) /\ UNCHANGED hostVars)
  /\ \A c \in CpuCores : WF_vars((startTick(c) \/ processSelfMessage(c)) /\ UNCHANGED hostVars)

Spec == Init /\ [][Next]_vars /\ Fairness

-----------------------------------------------------------------------------

(* Calls of a slot that are in one of the modules; what a scheduler tells  *)
(* of an unfinished computation carries no process and is not counted.     *)
CallsIn(box, s) == Cardinality({i \in DOMAIN box : chooseIndex(box[i]) = s})

CallsUnderWay(s) ==
  SumFunction([m \in Module |-> CallsIn(inbox[m], s)])
  + SumFunction([v \in Vm |-> CallsIn(sched[v].requestsQueue, s) + CallsIn(queueTable[v].queue, s)])
  + Cardinality({c \in CpuCores : core[c] # NoCall /\ chooseIndex(core[c]) = s})

Message ==
  [opCode : {"READ", "WRITE", "EXEC", "EXIT"}, vmId : Vm \cup {0}, pid : (1..MaxApps) \cup {0},
   isResponse : BOOLEAN, mis : Nat, quantum : Nat \cup {SM_CpuInfiniteQuantum},
   isCompleted : BOOLEAN, nextModuleIndex : CpuCores \cup {0}, arrival : Module \cup {UnsetGate},
   trace : Seq([node : Module, modules : Seq([module : Module, gate : Module \cup {UnsetGate}])])]
Application ==
  [kind : {"default", "local", "iot"},
   step : {"idle", "starting", "reading", "executing", "writing", "exiting", "listening"},
   iteration : Nat, numPings : Nat, received : Nat, calls : Nat]

(* An idle core has no call, and a slot whose module was deleted none.     *)
ASSUME Nothing == NoCall \notin Message /\ NoApp \notin Application

\* Type invariant of the host: control table, schedulers, disk queues and applications hold values of the declared kinds, and every message on its way is a well-formed system call.
TypeOK ==
  /\ virtual \in BOOLEAN /\ failed \in BOOLEAN
  /\ \A m \in Module : inbox[m] \in Seq(Message)
  /\ \A v \in Vm :
       /\ sched[v].running \in BOOLEAN /\ sched[v].requestsQueue \in Seq(Message)
       /\ sched[v].cores \in Seq(BOOLEAN) /\ sched[v].index \in Seq(CpuCores)
       /\ queueTable[v].queue \in Seq(Message) /\ queueTable[v].ioFinished \in BOOLEAN
       /\ \A p \in 1..MaxApps : vmTable[v].apps[p].pid \in {p, Free}
  /\ \A c \in CpuCores : core[c] = NoCall \/ core[c] \in Message
  /\ \A s \in Slot : app[s] \in Application \cup {NoApp}
  /\ freeCores \subseteq CpuCores

\* Hypervisor, scheduler, hub, core and disk pass a call along without losing or duplicating it, through any number of preemptions: what an application waits for is in exactly as many places as it made calls, and a deleted application left nothing behind (Hypervisor.cc:137-176, CpuSchedulerRR.cc:188-262, DiskManager.cc:39-61).
CallsConserved ==
  \A s \in Slot : CallsUnderWay(s) = IF app[s] = NoApp THEN 0 ELSE app[s].calls

(* Computations of v that were given the core c and did not come back. *)
OnCore(v, c) ==
  LET of(box) == Cardinality({i \in DOMAIN box : box[i].vmId = v /\ box[i].nextModuleIndex = c})
      back(box) == Cardinality({i \in DOMAIN box : box[i].isResponse /\ box[i].nextModuleIndex = c})
  IN of(inbox[Hub]) + of(inbox[Core(c)]) + back(inbox[Scheduler(v)])
     + (IF core[c] # NoCall /\ core[c].vmId = v THEN 1 ELSE 0)

\* No core is shared by two VMs or idle in its scheduler's eyes while it works for it: a core is marked busy exactly while one computation of that VM is out on it, and no computation waits while one of the VM's cores is idle (HardwareManager.cc:66-89, CpuSchedulerRR.cc:90-147,188-262).
CoresKept ==
  \A v \in Vm :
    /\ \A i \in DOMAIN sched[v].cores :
         LET c == sched[v].index[i]
         IN /\ OnCore(v, c) = IF sched[v].cores[i] THEN 0 ELSE 1
            /\ \A w \in Vm \ {v} : \A j \in DOMAIN sched[w].cores : sched[w].index[j] # c
            /\ virtual => c \notin freeCores
    /\ sched[v].requestsQueue # <<>> => searchIdleCPU(sched[v]) = SC_NotFound

\* A deployment is reported to the manager once, when and only when the last of its applications ended, in whatever order they ended (Hypervisor.cc:198-220, SM_UserAPP.cc:69-78).
DeploymentReported ==
  \A v \in Vm :
    vmTable[v].request # NoRequest =>
      LET reports == {i \in DOMAIN events : events[i].vmId = vmTable[v].globalId}
          over == \A p \in 1..MaxApps : app[<<v, p>>] = NoApp \/ app[<<v, p>>].kind = "default"
      IN /\ Cardinality(reports) = IF over THEN 1 ELSE 0
         /\ \A i \in reports : events[i].apps = vmTable[v].request

\* Every call returns: no computation starves in the round-robin queue, no disk operation is forgotten, no module stops the simulation; so an application that does a bounded amount of work ends (CpuSchedulerRR.cc:239-261, DiskManager.cc:63-77, LocalApplication.cc:37-66).
CallsReturn ==
  \A s \in Slot : (app[s] # NoApp /\ app[s].calls > 0) ~> (app[s] = NoApp \/ app[s].calls = 0)
=============================================================================
